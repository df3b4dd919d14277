------------------------------- MODULE CondVar -------------------------------
(***************************************************************************)
(* Guest condition variables with the mutexes, sleep queues, deferred      *)
(* wakes and cancellation they are built on: threads/condvar.cpp,          *)
(* mutex.cpp, sleepq.cpp and the wake semaphore of pthread.h.              *)
(*                                                                         *)
(* A signaller takes a waiter off the sleep queue, then posts its wake     *)
(* semaphore.  When the signaller owns the waiter's mutex the post is      *)
(* deferred: it is made after the mutex is unlocked, or when the signaller *)
(* goes to sleep itself.  A waiter decides what happened to it by looking  *)
(* at its wchan, under the sleep-queue lock, whatever made it wake.        *)
(*                                                                         *)
(* The sections under a sleep-queue lock in which nobody else's step can   *)
(* be told apart are one step.  A mutex is its owner: m_owner is set right *)
(* after m_lock is taken and read by others only to compare with           *)
(* themselves.  Cancellation is deferred (the default type).               *)
(***************************************************************************)
EXTENDS FiniteSets, Lists

CONSTANTS
    Threads, NoThread,
    Mutexes, NoMutex,
    Conds, NoCond,
    Recursive,          \* the mutexes of type PTHREAD_MUTEX_RECURSIVE
    MaxRecursion,       \* bound on m_count (INT_MAX in the code)
    MaxDeferWaiters,    \* Pthread::MaxDeferWaiters, 50
    Cancellable,        \* the threads somebody may call pthread_cancel on
    Deadlines           \* whether waits may have a deadline: a subset of BOOLEAN

ASSUME ConstantsAssumption ==
    /\ NoThread \notin Threads
    /\ NoMutex \notin Mutexes
    /\ NoCond \notin Conds
    /\ Recursive \subseteq Mutexes
    /\ MaxRecursion \in Nat
    /\ MaxDeferWaiters \in Nat \ {0}
    /\ Cancellable \subseteq Threads
    /\ Deadlines \subseteq BOOLEAN

VARIABLES
    m_owner, m_count, m_deferred,               \* PthreadMutex
    sq_lock, sq_blocked, has_user_waiters,      \* sleep-queue chain and PthreadCond
    wchan, mutex_obj, will_sleep,               \* Pthread
    defer_waiters, wake_sema,
    cancel_pending, cancel_enable, cancelling,
    pc, cv, mp, recurse, timed, error, now      \* the call a thread is in

mutexVars == <<m_owner, m_count, m_deferred>>
queueVars == <<sq_lock, sq_blocked, has_user_waiters>>
cancelVars == <<cancel_pending, cancel_enable, cancelling>>
waitVars == <<cv, mp, recurse, timed, error>>
vars == <<mutexVars, queueVars, wchan, mutex_obj, will_sleep, defer_waiters,
          wake_sema, cancelVars, waitVars, pc, now>>

Steps == {"run", "flush", "release", "drop", "add", "arm", "sleep", "woken",
          "relock", "cancel"}
Errors == {"none", "0", "ETIMEDOUT", "ECANCELED"}

TypeOK ==
    /\ m_owner \in [Mutexes -> Threads \cup {NoThread}]
    /\ m_count \in [Mutexes -> 0..MaxRecursion]
    /\ m_deferred \in [Mutexes -> BOOLEAN]
    /\ sq_lock \in [Conds -> Threads \cup {NoThread}]
    /\ sq_blocked \in [Conds -> Seq(Threads)]
    /\ has_user_waiters \in [Conds -> BOOLEAN]
    /\ wchan \in [Threads -> Conds \cup {NoCond}]
    /\ mutex_obj \in [Threads -> Mutexes \cup {NoMutex}]
    /\ will_sleep \in [Threads -> BOOLEAN]
    /\ defer_waiters \in [Threads -> Seq(Threads)]
    /\ wake_sema \in [Threads -> Nat]
    /\ cancel_pending \in [Threads -> BOOLEAN]
    /\ cancel_enable \in [Threads -> BOOLEAN]
    /\ cancelling \in [Threads -> BOOLEAN]
    /\ pc \in [Threads -> Steps]
    /\ cv \in [Threads -> Conds \cup {NoCond}]
    /\ mp \in [Threads -> Mutexes \cup {NoMutex}]
    /\ recurse \in [Threads -> 0..MaxRecursion]
    /\ timed \in [Threads -> BOOLEAN]
    /\ error \in [Threads -> Errors]
    /\ now \in [Threads -> Seq(Threads)]

Init ==
    /\ m_owner = [m \in Mutexes |-> NoThread]
    /\ m_count = [m \in Mutexes |-> 0]
    /\ m_deferred = [m \in Mutexes |-> FALSE]
    /\ sq_lock = [c \in Conds |-> NoThread]
    /\ sq_blocked = [c \in Conds |-> <<>>]
    /\ has_user_waiters = [c \in Conds |-> FALSE]
    /\ wchan = [t \in Threads |-> NoCond]
    /\ mutex_obj = [t \in Threads |-> NoMutex]
    /\ will_sleep = [t \in Threads |-> FALSE]
    /\ defer_waiters = [t \in Threads |-> <<>>]
    /\ wake_sema = [t \in Threads |-> 0]
    /\ cancel_pending = [t \in Threads |-> FALSE]
    /\ cancel_enable = [t \in Threads |-> TRUE]
    /\ cancelling = [t \in Threads |-> FALSE]
    /\ pc = [t \in Threads |-> "run"]
    /\ cv = [t \in Threads |-> NoCond]
    /\ mp = [t \in Threads |-> NoMutex]
    /\ recurse = [t \in Threads |-> 0]
    /\ timed = [t \in Threads |-> FALSE]
    /\ error = [t \in Threads |-> "none"]
    /\ now = [t \in Threads |-> <<>>]

-------------------------------------------------------------------------------
(* Helpers *)

\* A thread that makes calls: in no call, and not in its exit handlers.
Running(t) == pc[t] = "run" /\ ~cancelling[t]

Goto(t, step) == pc' = [pc EXCEPT ![t] = step]

ShouldCancel(t) == cancel_pending[t] /\ cancel_enable[t] /\ ~cancelling[t]

\* The semaphores after one release for every entry of s.
Released(s) ==
    [u \in Threads |-> wake_sema[u] + Cardinality({i \in DOMAIN s : s[i] = u})]

Position(s, u) == CHOOSE i \in DOMAIN s : s[i] = u

\* sleepq.cpp SleepqAdd: signal takes the oldest waiter, from the front.
SleepqAdd(c, t) ==
    /\ sq_blocked' = [sq_blocked EXCEPT ![c] = Append(@, t)]
    /\ wchan' = [wchan EXCEPT ![t] = c]

\* sleepq.cpp SleepqRemove; its result is stored in has_user_waiters.
SleepqRemove(c, t) ==
    /\ sq_blocked' = [sq_blocked EXCEPT ![c] = ListErase(@, Position(@, t))]
    /\ wchan' = [wchan EXCEPT ![t] = NoCond]
    /\ has_user_waiters' = [has_user_waiters EXCEPT ![c] = sq_blocked'[c] # <<>>]

\* The post for td is kept back until t unlocks m; a full list is posted first.
Defer(t, td, m) ==
    /\ IF Len(defer_waiters[t]) >= MaxDeferWaiters
       THEN /\ wake_sema' = Released(defer_waiters[t])
            /\ defer_waiters' = [defer_waiters EXCEPT ![t] = <<td>>]
       ELSE /\ defer_waiters' = [defer_waiters EXCEPT ![t] = Append(@, td)]
            /\ UNCHANGED wake_sema
    /\ m_deferred' = [m_deferred EXCEPT ![m] = TRUE]

-------------------------------------------------------------------------------
(* Mutexes *)

\* Lock, TryLock and the timed forms when they get the mutex; the self-lock of
\* a recursive mutex.  The failing forms change nothing.
Lock(t, m) ==
    /\ Running(t)
    /\ \/ /\ m_owner[m] = NoThread
          /\ m_owner' = [m_owner EXCEPT ![m] = t]
          /\ UNCHANGED m_count
       \/ /\ m_owner[m] = t
          /\ m \in Recursive
          /\ m_count[m] + 1 <= MaxRecursion
          /\ m_count' = [m_count EXCEPT ![m] = @ + 1]
          /\ UNCHANGED m_owner
    /\ UNCHANGED <<m_deferred, queueVars, wchan, mutex_obj, will_sleep,
                   defer_waiters, wake_sema, cancelVars, waitVars, pc, now>>

\* Mutant: the flag is cleared before it is read, so nothing is posted.
UnlockForgetsPosts(t, m) ==
    /\ pc[t] = "run"
    /\ m_owner[m] = t
    /\ IF m \in Recursive /\ m_count[m] > 0
       THEN /\ m_count' = [m_count EXCEPT ![m] = @ - 1]
            /\ UNCHANGED <<m_owner, m_deferred>>
       ELSE /\ m_owner' = [m_owner EXCEPT ![m] = NoThread]
            /\ m_deferred' = [m_deferred EXCEPT ![m] = FALSE]
            /\ UNCHANGED m_count
    /\ UNCHANGED <<queueVars, wchan, mutex_obj, will_sleep, defer_waiters,
                   wake_sema, cancelVars, waitVars, pc, now>>

\* Posts deferred under this mutex are made after it is free.
Unlock(t, m) ==
    /\ pc[t] = "run"
    /\ m_owner[m] = t
    /\ IF m \in Recursive /\ m_count[m] > 0
       THEN /\ m_count' = [m_count EXCEPT ![m] = @ - 1]
            /\ UNCHANGED <<m_owner, m_deferred, pc>>
       ELSE /\ m_owner' = [m_owner EXCEPT ![m] = NoThread]
            /\ m_deferred' = [m_deferred EXCEPT ![m] = FALSE]
            /\ pc' = IF m_deferred[m] /\ ~will_sleep[t] /\ defer_waiters[t] # <<>>
                     THEN [pc EXCEPT ![t] = "flush"] ELSE pc
            /\ UNCHANGED m_count
    /\ UNCHANGED <<queueVars, wchan, mutex_obj, will_sleep, defer_waiters,
                   wake_sema, cancelVars, waitVars, now>>

\* WakeAll, one post at a time: after an unlock, or before its own sleep.
WakeAll(t) ==
    /\ pc[t] \in {"flush", "sleep"}
    /\ defer_waiters[t] # <<>>
    /\ LET u == Head(defer_waiters[t])
       IN  wake_sema' = [wake_sema EXCEPT ![u] = @ + 1]
    /\ defer_waiters' = [defer_waiters EXCEPT ![t] = Tail(@)]
    /\ pc' = IF pc[t] = "flush" /\ Len(defer_waiters[t]) = 1
             THEN [pc EXCEPT ![t] = "run"] ELSE pc
    /\ UNCHANGED <<mutexVars, queueVars, wchan, mutex_obj, will_sleep,
                   cancelVars, waitVars, now>>

-------------------------------------------------------------------------------
(* PthreadCond::Wait *)

\* Under the sleep-queue lock the mutex is given up, all its depth at once.
WaitBegin(t, c, m, withTimeout) ==
    /\ Running(t)
    /\ m_owner[m] = t
    /\ ~ShouldCancel(t)
    /\ sq_lock[c] = NoThread
    /\ sq_lock' = [sq_lock EXCEPT ![c] = t]
    /\ has_user_waiters' = [has_user_waiters EXCEPT ![c] = TRUE]
    /\ will_sleep' = [will_sleep EXCEPT ![t] = TRUE]
    /\ recurse' = [recurse EXCEPT ![t] = m_count[m]]
    /\ m_count' = [m_count EXCEPT ![m] = 0]
    /\ m_deferred' = [m_deferred EXCEPT ![m] = FALSE]
    /\ m_owner' = [m_owner EXCEPT ![m] = NoThread]
    /\ cv' = [cv EXCEPT ![t] = c]
    /\ mp' = [mp EXCEPT ![t] = m]
    /\ timed' = [timed EXCEPT ![t] = withTimeout]
    /\ Goto(t, "add")
    /\ UNCHANGED <<sq_blocked, wchan, mutex_obj, defer_waiters, wake_sema,
                   cancelVars, error, now>>

\* Published on the queue, then the loop's head: stale posts are cleared.
WaitAdd(t) ==
    /\ pc[t] = "add"
    /\ mutex_obj' = [mutex_obj EXCEPT ![t] = mp[t]]
    /\ SleepqAdd(cv[t], t)
    /\ wake_sema' = [wake_sema EXCEPT ![t] = 0]
    /\ Goto(t, "arm")
    /\ UNCHANGED <<mutexVars, sq_lock, has_user_waiters, will_sleep,
                   defer_waiters, cancelVars, waitVars, now>>

\* Mutant: no look at the request once the posts are cleared.
WaitArmUnchecked(t) ==
    /\ pc[t] = "arm"
    /\ sq_lock' = [sq_lock EXCEPT ![cv[t]] = NoThread]
    /\ will_sleep' = [will_sleep EXCEPT ![t] = FALSE]
    /\ Goto(t, "sleep")
    /\ UNCHANGED <<mutexVars, sq_blocked, has_user_waiters, wchan, mutex_obj,
                   defer_waiters, wake_sema, cancelVars, waitVars, now>>

\* Mutant: will_sleep is not ended by Sleep.
WaitArmKeepsWillSleep(t) ==
    /\ pc[t] = "arm"
    /\ sq_lock' = [sq_lock EXCEPT ![cv[t]] = NoThread]
    /\ Goto(t, "sleep")
    /\ UNCHANGED <<mutexVars, sq_blocked, has_user_waiters, wchan, mutex_obj, will_sleep,
                   defer_waiters, wake_sema, cancelVars, waitVars, now>>

\* The cancellation check, after the clearing, and the unlock.  A request that
\* is already there skips Sleep, which is what ends will_sleep.
WaitArm(t) ==
    /\ pc[t] = "arm"
    /\ sq_lock' = [sq_lock EXCEPT ![cv[t]] = NoThread]
    /\ IF ShouldCancel(t)
       THEN /\ error' = [error EXCEPT ![t] = "0"]
            /\ Goto(t, "woken")
            /\ UNCHANGED will_sleep
       ELSE /\ will_sleep' = [will_sleep EXCEPT ![t] = FALSE]
            /\ Goto(t, "sleep")
            /\ UNCHANGED error
    /\ UNCHANGED <<mutexVars, sq_blocked, has_user_waiters, wchan, mutex_obj,
                   defer_waiters, wake_sema, cancelVars, cv, mp, recurse, timed, now>>

Acquire(t) ==
    /\ pc[t] = "sleep"
    /\ defer_waiters[t] = <<>>
    /\ wake_sema[t] > 0
    /\ wake_sema' = [wake_sema EXCEPT ![t] = @ - 1]
    /\ error' = [error EXCEPT ![t] = "0"]
    /\ Goto(t, "woken")
    /\ UNCHANGED <<mutexVars, queueVars, wchan, mutex_obj, will_sleep,
                   defer_waiters, cancelVars, cv, mp, recurse, timed, now>>

\* The deadline passed; a post may arrive just after, or just before a second
\* look at a relative deadline.
TimeOut(t) ==
    /\ pc[t] = "sleep"
    /\ defer_waiters[t] = <<>>
    /\ timed[t]
    /\ error' = [error EXCEPT ![t] = "ETIMEDOUT"]
    /\ Goto(t, "woken")
    /\ UNCHANGED <<mutexVars, queueVars, wchan, mutex_obj, will_sleep, wake_sema,
                   defer_waiters, cancelVars, cv, mp, recurse, timed, now>>

\* Taken off the queue by a signaller, whatever Sleep said.
RecheckSignalled(t) ==
    /\ pc[t] = "woken"
    /\ sq_lock[cv[t]] = NoThread
    /\ wchan[t] = NoCond
    /\ error' = [error EXCEPT ![t] = "0"]
    /\ mutex_obj' = [mutex_obj EXCEPT ![t] = NoMutex]
    /\ Goto(t, "relock")
    /\ UNCHANGED <<mutexVars, queueVars, wchan, will_sleep, defer_waiters,
                   wake_sema, cancelVars, cv, mp, recurse, timed, now>>

\* Mutant: a waiter that gives up stays on the queue.
RecheckGiveUpStays(t) ==
    /\ pc[t] = "woken"
    /\ sq_lock[cv[t]] = NoThread
    /\ wchan[t] # NoCond
    /\ ShouldCancel(t) \/ error[t] = "ETIMEDOUT"
    /\ error' = [error EXCEPT ![t] = IF ShouldCancel(t) THEN "ECANCELED" ELSE @]
    /\ mutex_obj' = [mutex_obj EXCEPT ![t] = NoMutex]
    /\ Goto(t, "relock")
    /\ UNCHANGED <<mutexVars, queueVars, wchan, will_sleep, defer_waiters, wake_sema,
                   cancelVars, cv, mp, recurse, timed, now>>

\* Still on the queue, and cancelled or timed out: it takes itself off.
RecheckGiveUp(t) ==
    /\ pc[t] = "woken"
    /\ sq_lock[cv[t]] = NoThread
    /\ wchan[t] # NoCond
    /\ ShouldCancel(t) \/ error[t] = "ETIMEDOUT"
    /\ error' = [error EXCEPT ![t] = IF ShouldCancel(t) THEN "ECANCELED" ELSE @]
    /\ SleepqRemove(cv[t], t)
    /\ mutex_obj' = [mutex_obj EXCEPT ![t] = NoMutex]
    /\ Goto(t, "relock")
    /\ UNCHANGED <<mutexVars, sq_lock, will_sleep, defer_waiters, wake_sema,
                   cancelVars, cv, mp, recurse, timed, now>>

\* A stale post: back to the loop's head, keeping the sleep-queue lock.
RecheckAgain(t) ==
    /\ pc[t] = "woken"
    /\ sq_lock[cv[t]] = NoThread
    /\ wchan[t] # NoCond
    /\ ~ShouldCancel(t)
    /\ error[t] # "ETIMEDOUT"
    /\ sq_lock' = [sq_lock EXCEPT ![cv[t]] = t]
    /\ wake_sema' = [wake_sema EXCEPT ![t] = 0]
    /\ Goto(t, "arm")
    /\ UNCHANGED <<mutexVars, sq_blocked, has_user_waiters, wchan, mutex_obj,
                   will_sleep, defer_waiters, cancelVars, waitVars, now>>

\* Mutant: the depth of a recursive mutex is not restored.
RelockForgetsDepth(t) ==
    LET m == mp[t]
    IN  /\ pc[t] = "relock"
        /\ m_owner[m] = NoThread
        /\ m_owner' = [m_owner EXCEPT ![m] = t]
        /\ cancelling' = [cancelling EXCEPT ![t] = error[t] = "ECANCELED"]
        /\ cv' = [cv EXCEPT ![t] = NoCond]
        /\ mp' = [mp EXCEPT ![t] = NoMutex]
        /\ recurse' = [recurse EXCEPT ![t] = 0]
        /\ timed' = [timed EXCEPT ![t] = FALSE]
        /\ error' = [error EXCEPT ![t] = "none"]
        /\ Goto(t, "run")
        /\ UNCHANGED <<m_count, m_deferred, queueVars, wchan, mutex_obj, will_sleep,
                       defer_waiters, wake_sema, cancel_pending, cancel_enable, now>>

\* CvLock, and the end of the call; a cancelled waiter exits here.
Relock(t) ==
    LET m == mp[t]
    IN  /\ pc[t] = "relock"
        /\ m_owner[m] = NoThread
        /\ m_owner' = [m_owner EXCEPT ![m] = t]
        /\ m_count' = [m_count EXCEPT ![m] = recurse[t]]
        /\ cancelling' = [cancelling EXCEPT ![t] = error[t] = "ECANCELED"]
        /\ cv' = [cv EXCEPT ![t] = NoCond]
        /\ mp' = [mp EXCEPT ![t] = NoMutex]
        /\ recurse' = [recurse EXCEPT ![t] = 0]
        /\ timed' = [timed EXCEPT ![t] = FALSE]
        /\ error' = [error EXCEPT ![t] = "none"]
        /\ Goto(t, "run")
        /\ UNCHANGED <<m_deferred, queueVars, wchan, mutex_obj, will_sleep,
                       defer_waiters, wake_sema, cancel_pending, cancel_enable, now>>

-------------------------------------------------------------------------------
(* PthreadCond::Signal and Broadcast *)

\* The body of Signal once td is chosen, under the sleep-queue lock.
Dequeue(t, c, td) ==
    /\ SleepqRemove(c, td)
    /\ IF m_owner[mutex_obj[td]] = t
       THEN /\ Defer(t, td, mutex_obj[td])
            /\ UNCHANGED <<pc, now>>
       ELSE /\ now' = [now EXCEPT ![t] = <<td>>]
            /\ Goto(t, "release")
            /\ UNCHANGED <<defer_waiters, wake_sema, m_deferred>>
    /\ UNCHANGED <<m_owner, m_count, sq_lock, mutex_obj, will_sleep, cancelVars, waitVars>>

Signal(t, c) ==
    /\ Running(t)
    /\ sq_lock[c] = NoThread
    /\ sq_blocked[c] # <<>>
    /\ Dequeue(t, c, Head(sq_blocked[c]))

\* pthread_cond_signalto_np
SignalTo(t, c, td) ==
    /\ Running(t)
    /\ sq_lock[c] = NoThread
    /\ td \in Range(sq_blocked[c])
    /\ Dequeue(t, c, td)

BroadcastBegin(t, c) ==
    /\ Running(t)
    /\ sq_lock[c] = NoThread
    /\ sq_blocked[c] # <<>>
    /\ sq_lock' = [sq_lock EXCEPT ![c] = t]
    /\ cv' = [cv EXCEPT ![t] = c]
    /\ Goto(t, "drop")
    /\ UNCHANGED <<mutexVars, sq_blocked, has_user_waiters, wchan, mutex_obj,
                   will_sleep, defer_waiters, wake_sema, cancelVars, mp, recurse,
                   timed, error, now>>

\* SleepqDrop calling drop_cb for one waiter; a full list of immediate posts
\* is posted first.
BroadcastDrop(t) ==
    LET c == cv[t]
        td == Head(sq_blocked[c])
    IN  /\ pc[t] = "drop"
        /\ sq_blocked[c] # <<>>
        /\ sq_blocked' = [sq_blocked EXCEPT ![c] = Tail(@)]
        /\ wchan' = [wchan EXCEPT ![td] = NoCond]
        /\ IF m_owner[mutex_obj[td]] = t
           THEN /\ Defer(t, td, mutex_obj[td])
                /\ UNCHANGED now
           ELSE /\ IF Len(now[t]) >= MaxDeferWaiters
                   THEN /\ wake_sema' = Released(now[t])
                        /\ now' = [now EXCEPT ![t] = <<td>>]
                   ELSE /\ now' = [now EXCEPT ![t] = Append(@, td)]
                        /\ UNCHANGED wake_sema
                /\ UNCHANGED <<defer_waiters, m_deferred>>
        /\ UNCHANGED <<m_owner, m_count, sq_lock, has_user_waiters, mutex_obj,
                       will_sleep, cancelVars, waitVars, pc>>

BroadcastEnd(t) ==
    LET c == cv[t]
    IN  /\ pc[t] = "drop"
        /\ sq_blocked[c] = <<>>
        /\ has_user_waiters' = [has_user_waiters EXCEPT ![c] = FALSE]
        /\ sq_lock' = [sq_lock EXCEPT ![c] = NoThread]
        /\ cv' = [cv EXCEPT ![t] = NoCond]
        /\ Goto(t, IF now[t] = <<>> THEN "run" ELSE "release")
        /\ UNCHANGED <<mutexVars, sq_blocked, wchan, mutex_obj, will_sleep,
                       defer_waiters, wake_sema, cancelVars, mp, recurse, timed,
                       error, now>>

\* The posts that were not deferred, after the sleep-queue lock is dropped.
Release(t) ==
    /\ pc[t] = "release"
    /\ LET u == Head(now[t])
       IN  wake_sema' = [wake_sema EXCEPT ![u] = @ + 1]
    /\ now' = [now EXCEPT ![t] = Tail(@)]
    /\ Goto(t, IF Len(now[t]) = 1 THEN "run" ELSE "release")
    /\ UNCHANGED <<mutexVars, queueVars, wchan, mutex_obj, will_sleep,
                   defer_waiters, cancelVars, waitVars>>

-------------------------------------------------------------------------------
(* Cancellation *)

\* posix_pthread_cancel the first time: the request is set, then posted.  now
\* holds the target in between.
CancelBegin(t, u) ==
    /\ Running(t)
    /\ u \in Cancellable
    /\ ~cancel_pending[u]
    /\ cancel_pending' = [cancel_pending EXCEPT ![u] = TRUE]
    /\ now' = [now EXCEPT ![t] = <<u>>]
    /\ Goto(t, "cancel")
    /\ UNCHANGED <<mutexVars, queueVars, wchan, mutex_obj, will_sleep,
                   defer_waiters, wake_sema, cancel_enable, cancelling, waitVars>>

CancelPost(t) ==
    /\ pc[t] = "cancel"
    /\ LET u == Head(now[t])
       IN  wake_sema' = [wake_sema EXCEPT ![u] = @ + 1]
    /\ now' = [now EXCEPT ![t] = <<>>]
    /\ Goto(t, "run")
    /\ UNCHANGED <<mutexVars, queueVars, wchan, mutex_obj, will_sleep,
                   defer_waiters, cancelVars, waitVars>>

\* setcancelstate; enabling is a cancellation test.
SetCancelState(t) ==
    /\ Running(t)
    /\ t \in Cancellable
    /\ cancel_enable' = [cancel_enable EXCEPT ![t] = ~@]
    /\ cancelling' = [cancelling EXCEPT ![t] = ~cancel_enable[t] /\ cancel_pending[t]]
    /\ UNCHANGED <<mutexVars, queueVars, wchan, mutex_obj, will_sleep, defer_waiters,
                   wake_sema, cancel_pending, waitVars, pc, now>>

\* pthread_testcancel, and the test at the head of Wait: pthread_exit begins.
TestCancel(t) ==
    /\ pc[t] = "run"
    /\ ShouldCancel(t)
    /\ cancelling' = [cancelling EXCEPT ![t] = TRUE]
    /\ UNCHANGED <<mutexVars, queueVars, wchan, mutex_obj, will_sleep, defer_waiters,
                   wake_sema, cancel_pending, cancel_enable, waitVars, pc, now>>

-------------------------------------------------------------------------------
\* What a thread does by itself once it is in a call.
Continue(t) ==
    \/ WakeAll(t) \/ WaitAdd(t) \/ WaitArm(t) \/ Acquire(t)
    \/ RecheckSignalled(t) \/ RecheckGiveUp(t) \/ RecheckAgain(t)
    \/ BroadcastDrop(t) \/ BroadcastEnd(t) \/ Release(t) \/ CancelPost(t)

Next ==
    \E t \in Threads :
        \/ Continue(t)
        \/ TimeOut(t) \/ Relock(t) \/ SetCancelState(t) \/ TestCancel(t)
        \/ \E m \in Mutexes : Lock(t, m) \/ Unlock(t, m)
        \/ \E c \in Conds :
              \/ \E m \in Mutexes, withTimeout \in Deadlines : WaitBegin(t, c, m, withTimeout)
              \/ Signal(t, c)
              \/ BroadcastBegin(t, c)
              \/ \E td \in Threads : SignalTo(t, c, td)
        \/ \E u \in Threads : CancelBegin(t, u)

Spec == Init /\ [][Next]_vars

\* Every thread in a call is scheduled; the spin lock of a sleep queue starves
\* nobody forever, so a step that needs it is strongly fair.  Nothing is assumed
\* of guests: whether a mutex is ever unlocked is up to them.
Fairness ==
    \A t \in Threads :
        /\ WF_vars(Continue(t))
        /\ SF_vars(RecheckSignalled(t) \/ RecheckGiveUp(t) \/ RecheckAgain(t))

FairSpec == Spec /\ Fairness

-------------------------------------------------------------------------------
(* Properties *)

\* A sleep queue holds exactly the threads whose wchan names it, once each, and
\* only threads inside Wait: the assertions "Thread was already on queue",
\* "Thread is missing from its sleep queue" and "... waiter has no sleep queue"
\* never fire.  has_user_waiters tells whether there are any whenever the lock of
\* the queue is free, which is what Wait sets it early for.
QueueMatchesWchan ==
    /\ TypeOK
    /\ \A c \in Conds, t \in Threads : t \in Range(sq_blocked[c]) <=> wchan[t] = c
    /\ \A c \in Conds : IsInjective(sq_blocked[c])
    /\ \A t \in Threads : wchan[t] # NoCond =>
          /\ pc[t] \in {"arm", "sleep", "woken"}
          /\ wchan[t] = cv[t]
          /\ mutex_obj[t] = mp[t]
    /\ \A c \in Conds : sq_lock[c] = NoThread => (has_user_waiters[c] <=> sq_blocked[c] # <<>>)

\* A post on its way to t: kept back by a signaller, or about to be made.
Owed(t) == \E s \in Threads : t \in Range(defer_waiters[s]) \cup Range(now[s])

\* No lost wakeup: a waiter that a signaller took off the queue, or that has to
\* act on a cancellation request, does not sleep without a post that is there or
\* on its way, though posts are cleared at the head of the wait loop.
WakeIsOwed ==
    \A t \in Threads :
        pc[t] = "sleep" /\ (wchan[t] = NoCond \/ ShouldCancel(t))
            => wake_sema[t] > 0 \/ Owed(t)

\* The posts a thread kept back are still going to be made: it owns a mutex whose
\* unlock makes them, or it is making them, or it is on its way to the Sleep that
\* makes them.
DeferredPostsHaveAnOwner ==
    \A s \in Threads : defer_waiters[s] # <<>> =>
        \/ pc[s] \in {"flush", "add", "arm", "sleep"}
        \/ /\ ~will_sleep[s]
           /\ \E m \in Mutexes : m_owner[m] = s /\ m_deferred[m]

\* A thread that goes for its mutex at the end of a wait has made the posts it
\* owed: "a cancellation point must finish its normal wake/relock path".
WaitFinishesItsPosts ==
    \A t \in Threads : pc[t] = "relock" => defer_waiters[t] = <<>>

\* A waiter asleep after a signaller took it off the queue gets up, unless some
\* mutex is never free again from some moment on.
SignalledWakes ==
    (\A m \in Mutexes : []<>(m_owner[m] = NoThread))
        => \A t \in Threads : (pc[t] = "sleep" /\ wchan[t] = NoCond) ~> pc[t] # "sleep"
===============================================================================
