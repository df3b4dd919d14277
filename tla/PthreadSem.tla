------------------------------ MODULE PthreadSem ------------------------------
(***************************************************************************)
(* A POSIX semaphore (threads/semaphore.cpp, PthreadSem).  The value is    *)
(* changed by compare-and-swap alone, outside wait_mutex; the mutex only   *)
(* orders publishing a waiter with waking the published ones.  Sleepers    *)
(* use the wake semaphore of their thread, which condition variables and   *)
(* cancellation post as well.                                              *)
(***************************************************************************)
EXTENDS Integers, FiniteSets

CONSTANTS
    Threads, NoThread,
    InitialValue,
    MaxValue,           \* ORBIS_KERNEL_SEM_VALUE_MAX
    Cancellable,        \* the threads somebody may call pthread_cancel on
    MaxStale,           \* bound on late posts by condition variables
    Deadlines           \* whether waits may have a deadline: a subset of BOOLEAN

ASSUME PthreadSemAssumption ==
    /\ NoThread \notin Threads
    /\ MaxValue \in Nat \ {0}
    /\ InitialValue \in 0 .. MaxValue
    /\ Cancellable \subseteq Threads
    /\ MaxStale \in Nat
    /\ Deadlines \subseteq BOOLEAN

VARIABLES
    value, wait_mutex, waiters,             \* PthreadSem
    wake_sema, cancel_pending, cancel_enable, cancelling,   \* Pthread
    pc, timed, woke, target,                \* the call a thread is in
    stale                                   \* late posts so far

semVars == <<value, wait_mutex, waiters>>
cancelVars == <<cancel_pending, cancel_enable, cancelling>>
callVars == <<timed, woke, target>>
vars == <<semVars, wake_sema, cancelVars, pc, callVars, stale>>

Steps == {"run", "try", "enter", "publish", "sleep", "leave", "retry", "notify", "cancel"}

TypeOK ==
    /\ value \in 0 .. MaxValue
    /\ wait_mutex \in Threads \cup {NoThread}
    /\ waiters \subseteq Threads
    /\ wake_sema \in [Threads -> Nat]
    /\ cancel_pending \in [Threads -> BOOLEAN]
    /\ cancel_enable \in [Threads -> BOOLEAN]
    /\ cancelling \in [Threads -> BOOLEAN]
    /\ pc \in [Threads -> Steps]
    /\ timed \in [Threads -> BOOLEAN]
    /\ woke \in [Threads -> BOOLEAN]
    /\ target \in [Threads -> Threads \cup {NoThread}]
    /\ stale \in 0 .. MaxStale

Init ==
    /\ value = InitialValue
    /\ wait_mutex = NoThread
    /\ waiters = {}
    /\ wake_sema = [t \in Threads |-> 0]
    /\ cancel_pending = [t \in Threads |-> FALSE]
    /\ cancel_enable = [t \in Threads |-> TRUE]
    /\ cancelling = [t \in Threads |-> FALSE]
    /\ pc = [t \in Threads |-> "run"]
    /\ timed = [t \in Threads |-> FALSE]
    /\ woke = [t \in Threads |-> FALSE]
    /\ target = [t \in Threads |-> NoThread]
    /\ stale = 0

Running(t) == pc[t] = "run" /\ ~cancelling[t]

Goto(t, step) == pc' = [pc EXCEPT ![t] = step]

ShouldCancel(t) == cancel_pending[t] /\ cancel_enable[t] /\ ~cancelling[t]

-------------------------------------------------------------------------------
(* PthreadSemWait *)

WaitBegin(t, withTimeout) ==
    /\ Running(t)
    /\ timed' = [timed EXCEPT ![t] = withTimeout]
    /\ Goto(t, "try")
    /\ UNCHANGED <<semVars, wake_sema, cancelVars, woke, target, stale>>

\* PthreadSemTryAcquire succeeds and the call ends, wherever it is made.
TryAcquire(t) ==
    /\ \/ pc[t] \in {"try", "retry"}
       \/ pc[t] = "enter" /\ wait_mutex = NoThread
    /\ value > 0
    /\ value' = value - 1
    /\ timed' = [timed EXCEPT ![t] = FALSE]
    /\ woke' = [woke EXCEPT ![t] = FALSE]
    /\ Goto(t, "run")
    /\ UNCHANGED <<wait_mutex, waiters, wake_sema, cancelVars, target, stale>>

\* posix_sem_trywait; when it fails nothing changes.
TryWait(t) ==
    /\ Running(t)
    /\ value > 0
    /\ value' = value - 1
    /\ UNCHANGED <<wait_mutex, waiters, wake_sema, cancelVars, pc, callVars, stale>>

\* No token: the cancellation test, then on to wait_mutex.
WaitTest(t) ==
    /\ pc[t] = "try"
    /\ value = 0
    /\ IF ShouldCancel(t)
       THEN /\ cancelling' = [cancelling EXCEPT ![t] = TRUE]
            /\ timed' = [timed EXCEPT ![t] = FALSE]
            /\ Goto(t, "run")
       ELSE Goto(t, "enter") /\ UNCHANGED <<cancelling, timed>>
    /\ UNCHANGED <<semVars, wake_sema, cancel_pending, cancel_enable, woke, target, stale>>

\* Mutant: no second look at the value under wait_mutex.
WaitEnterBlind(t) ==
    /\ pc[t] = "enter"
    /\ wait_mutex = NoThread
    /\ wait_mutex' = t
    /\ Goto(t, "publish")
    /\ UNCHANGED <<value, waiters, wake_sema, cancelVars, callVars, stale>>

\* Still no token under wait_mutex.
WaitEnter(t) ==
    /\ pc[t] = "enter"
    /\ wait_mutex = NoThread
    /\ value = 0
    /\ wait_mutex' = t
    /\ Goto(t, "publish")
    /\ UNCHANGED <<value, waiters, wake_sema, cancelVars, callVars, stale>>

\* Mutant: the waiter is published without a look at the cancellation request.
WaitPublishUnchecked(t) ==
    /\ pc[t] = "publish"
    /\ wake_sema' = [wake_sema EXCEPT ![t] = 0]
    /\ waiters' = waiters \cup {t}
    /\ Goto(t, "sleep")
    /\ wait_mutex' = NoThread
    /\ UNCHANGED <<value, cancelVars, callVars, stale>>

\* Stale posts are cleared; a request that is there by now ends the call.
WaitPublish(t) ==
    /\ pc[t] = "publish"
    /\ wake_sema' = [wake_sema EXCEPT ![t] = 0]
    /\ IF ShouldCancel(t)
       THEN /\ cancelling' = [cancelling EXCEPT ![t] = TRUE]
            /\ timed' = [timed EXCEPT ![t] = FALSE]
            /\ Goto(t, "run")
            /\ UNCHANGED waiters
       ELSE /\ waiters' = waiters \cup {t}
            /\ Goto(t, "sleep")
            /\ UNCHANGED <<cancelling, timed>>
    /\ wait_mutex' = NoThread
    /\ UNCHANGED <<value, cancel_pending, cancel_enable, woke, target, stale>>

Sleep(t) ==
    /\ pc[t] = "sleep"
    /\ \/ /\ wake_sema[t] > 0
          /\ wake_sema' = [wake_sema EXCEPT ![t] = @ - 1]
          /\ woke' = [woke EXCEPT ![t] = TRUE]
       \/ /\ timed[t]
          /\ woke' = [woke EXCEPT ![t] = FALSE]
          /\ UNCHANGED wake_sema
    /\ Goto(t, "leave")
    /\ UNCHANGED <<semVars, cancelVars, timed, target, stale>>

WaitLeave(t) ==
    /\ pc[t] = "leave"
    /\ wait_mutex = NoThread
    /\ waiters' = waiters \ {t}
    /\ Goto(t, "retry")
    /\ UNCHANGED <<value, wait_mutex, wake_sema, cancelVars, callVars, stale>>

\* No token after the sleep: cancelled, timed out, or once more.
WaitRetry(t) ==
    /\ pc[t] = "retry"
    /\ value = 0
    /\ cancelling' = [cancelling EXCEPT ![t] = ShouldCancel(t)]
    /\ IF ShouldCancel(t) \/ ~woke[t]
       THEN timed' = [timed EXCEPT ![t] = FALSE] /\ Goto(t, "run")
       ELSE UNCHANGED timed /\ Goto(t, "try")
    /\ woke' = [woke EXCEPT ![t] = FALSE]
    /\ UNCHANGED <<semVars, wake_sema, cancel_pending, cancel_enable, target, stale>>

-------------------------------------------------------------------------------
(* posix_sem_post *)

\* The compare-and-swap; at the maximum the call fails and changes nothing.
Post(t) ==
    /\ Running(t)
    /\ value < MaxValue
    /\ value' = value + 1
    /\ Goto(t, "notify")
    /\ UNCHANGED <<wait_mutex, waiters, wake_sema, cancelVars, callVars, stale>>

\* Every published waiter is woken; the value decides who returns.
PostNotify(t) ==
    /\ pc[t] = "notify"
    /\ wait_mutex = NoThread
    /\ wake_sema' = [u \in Threads |-> IF u \in waiters THEN wake_sema[u] + 1 ELSE wake_sema[u]]
    /\ waiters' = {}
    /\ Goto(t, "run")
    /\ UNCHANGED <<value, wait_mutex, cancelVars, callVars, stale>>

-------------------------------------------------------------------------------
(* Cancellation, and what else posts the wake semaphore *)

CancelBegin(t, u) ==
    /\ Running(t)
    /\ u \in Cancellable
    /\ ~cancel_pending[u]
    /\ cancel_pending' = [cancel_pending EXCEPT ![u] = TRUE]
    /\ target' = [target EXCEPT ![t] = u]
    /\ Goto(t, "cancel")
    /\ UNCHANGED <<semVars, wake_sema, cancel_enable, cancelling, timed, woke, stale>>

CancelPost(t) ==
    /\ pc[t] = "cancel"
    /\ wake_sema' = [wake_sema EXCEPT ![target[t]] = @ + 1]
    /\ target' = [target EXCEPT ![t] = NoThread]
    /\ Goto(t, "run")
    /\ UNCHANGED <<semVars, cancelVars, timed, woke, stale>>

SetCancelState(t) ==
    /\ Running(t)
    /\ t \in Cancellable
    /\ cancel_enable' = [cancel_enable EXCEPT ![t] = ~@]
    /\ cancelling' = [cancelling EXCEPT ![t] = ~cancel_enable[t] /\ cancel_pending[t]]
    /\ UNCHANGED <<semVars, wake_sema, cancel_pending, pc, callVars, stale>>

\* A deferred post of a condition variable reaches a thread that is past it.
StalePost(u) ==
    /\ stale < MaxStale
    /\ stale' = stale + 1
    /\ wake_sema' = [wake_sema EXCEPT ![u] = @ + 1]
    /\ UNCHANGED <<semVars, cancelVars, pc, callVars>>

-------------------------------------------------------------------------------
\* What a thread does by itself once it is in a call.
Continue(t) ==
    \/ TryAcquire(t) \/ WaitTest(t) \/ WaitEnter(t) \/ WaitPublish(t) \/ Sleep(t)
    \/ WaitLeave(t) \/ WaitRetry(t) \/ PostNotify(t) \/ CancelPost(t)

Next ==
    \E t \in Threads :
        \/ Continue(t)
        \/ TryWait(t) \/ Post(t) \/ SetCancelState(t) \/ StalePost(t)
        \/ \E withTimeout \in Deadlines : WaitBegin(t, withTimeout)
        \/ \E u \in Threads : CancelBegin(t, u)

Spec == Init /\ [][Next]_vars

\* Threads in a call are scheduled, and wait_mutex starves none of them.
Fairness == \A t \in Threads : SF_vars(Continue(t))

FairSpec == Spec /\ Fairness

-------------------------------------------------------------------------------
\* No idle token: while a waiter is published and a token is there, some post has
\* still to wake the published waiters, though the value changes outside the mutex
\* under which they are published.
NoIdleToken ==
    value > 0 /\ waiters # {} => \E s \in Threads : pc[s] = "notify"

\* A sleeper that is no longer published, or has to act on a cancellation request,
\* has a post to wake it or one on its way.  Only threads in the sleeping part of the
\* wait are published, so no post goes to a thread that has left, or is gone.
SleeperIsWoken ==
    /\ \A t \in waiters : pc[t] \in {"sleep", "leave"}
    /\ \A t \in Threads : pc[t] = "sleep" =>
        /\ t \notin waiters => wake_sema[t] > 0
        /\ ShouldCancel(t) => wake_sema[t] > 0
                              \/ \E s \in Threads : pc[s] = "cancel" /\ target[s] = t

\* PthreadSemWait loses no wake-up, of a token or of a cancellation.
SemSafe == TypeOK /\ NoIdleToken /\ SleeperIsWoken

\* A sleeper does not sleep through tokens: either it gets up or others take them.
TokenOrSleeperMoves ==
    \A t \in Threads : (pc[t] = "sleep" /\ value > 0) ~> (pc[t] # "sleep" \/ value = 0)
===============================================================================
