------------------------------ MODULE OrbisSem ------------------------------
(***************************************************************************)
(* The kernel semaphore of the guest (class OrbisSem and the sceKernel*Sema *)
(* calls, src/core/libraries/kernel/threads/semaphore.cpp).                 *)
(*                                                                          *)
(* Every member function runs under the mutex of the object, except that a  *)
(* blocked waiter gives it up while it sleeps on a binary semaphore of its  *)
(* own.  The loop of Signal is modelled one iteration per step, with the    *)
(* mutex held, so that its effect is a consequence of the model and not a   *)
(* definition.  Delays are nondeterministic: a waiter with a timeout may    *)
(* give up at any moment.                                                   *)
(***************************************************************************)
EXTENDS Lists

CONSTANTS
    Threads,      \* guest threads
    NoThread,     \* the mutex is free
    Prio,         \* attr.prio of a thread; a smaller number is more urgent
    InitCounts,   \* initCount arguments of sceKernelCreateSema
    MaxCounts,    \* maxCount arguments of sceKernelCreateSema
    NeedCounts,   \* needCount arguments of Wait and Poll
    SignalCounts, \* signalCount arguments
    SetCounts     \* setCount arguments of Cancel, negative ones included

ASSUME ThreadsAssumption == NoThread \notin Threads
ASSUME PrioAssumption == Prio \in [Threads -> Nat]
ASSUME CountAssumption ==
    /\ InitCounts \subseteq Int
    /\ MaxCounts \subseteq Int
    /\ NeedCounts \subseteq Nat
    /\ SignalCounts \subseteq Nat
    /\ SetCounts \subseteq Int

VARIABLES
    state,       \* "absent", "live" or "erased": the slot of orbis_sems
    init_count, max_count, is_fifo,
    token_count,
    wait_list,   \* sequence of threads, most urgent first
    mutex,       \* the signaller that holds the mutex, or NoThread
    cursor,      \* position of the iterator of the signaller
    pc,          \* where each thread is
    need_count,  \* need_count of its WaitingThread
    timed,       \* it waits with a timeout
    was,         \* was_signaled / was_deleted / was_canceled
    sem,         \* permits of the waiter's binary semaphore
    ret          \* result of the last call of the thread

vars == <<state, init_count, max_count, is_fifo, token_count, wait_list, mutex,
          cursor, pc, need_count, timed, was, sem, ret>>
object == <<state, init_count, max_count, is_fifo>>
scan == <<mutex, cursor>>
waiter == <<need_count, timed, was, sem>>

Results == {"none", "OK", "EBUSY", "ETIMEDOUT", "EACCES", "ECANCELED", "ESRCH", "EINVAL"}

Init ==
    /\ state = "absent"
    /\ init_count = 0 /\ max_count = 0 /\ is_fifo = TRUE
    /\ token_count = 0
    /\ wait_list = <<>>
    /\ mutex = NoThread /\ cursor = 0
    /\ pc = [t \in Threads |-> "idle"]
    /\ need_count = [t \in Threads |-> 0]
    /\ timed = [t \in Threads |-> FALSE]
    /\ was = [t \in Threads |-> "none"]
    /\ sem = [t \in Threads |-> 0]
    /\ ret = [t \in Threads |-> "none"]

\* A thread outside every call of this file.
Idle(t) == pc[t] = "idle"

\* The handle is allocated and the calling thread gets the mutex.
Enter(t) ==
    /\ Idle(t)
    /\ state = "live"
    /\ mutex = NoThread

Return(t, r) == ret' = [ret EXCEPT ![t] = r]

sceKernelCreateSema(t) ==
    /\ Idle(t)
    /\ state = "absent"
    /\ \E initCount \in InitCounts, maxCount \in MaxCounts, fifo \in BOOLEAN :
        IF initCount < 0 \/ maxCount <= 0 \/ initCount > maxCount
        THEN /\ Return(t, "EINVAL")
             /\ UNCHANGED <<object, token_count>>
        ELSE /\ state' = "live"
             /\ init_count' = initCount
             /\ max_count' = maxCount
             /\ is_fifo' = fifo
             /\ token_count' = initCount
             /\ Return(t, "OK")
    /\ UNCHANGED <<wait_list, scan, pc, waiter>>

\* Every call on a handle that is not allocated.
BadHandle(t) ==
    /\ Idle(t)
    /\ state # "live"
    /\ Return(t, "ESRCH")
    /\ UNCHANGED <<object, token_count, wait_list, scan, pc, waiter>>

\* Wait and Poll when the tokens are there.
Take(t) ==
    /\ Enter(t)
    /\ \E n \in NeedCounts :
        /\ token_count >= n
        /\ token_count' = token_count - n
    /\ Return(t, "OK")
    /\ UNCHANGED <<object, wait_list, scan, pc, waiter>>

\* Wait and Poll when they are not: Poll and a zero timeout do not block.
Refuse(t) ==
    /\ Enter(t)
    /\ \E n \in NeedCounts : token_count < n
    /\ \E r \in {"EBUSY", "ETIMEDOUT"} : Return(t, r)
    /\ UNCHANGED <<object, token_count, wait_list, scan, pc, waiter>>

Priority(t) == IF is_fifo THEN 0 ELSE Prio[t]

\* AddWaiter: before the first waiter that is less urgent.
InsertPosition(t) ==
    CHOOSE k \in 1 .. Len(wait_list) + 1 :
        /\ \A j \in 1 .. k - 1 : Priority(wait_list[j]) <= Priority(t)
        /\ k <= Len(wait_list) => Priority(wait_list[k]) > Priority(t)

\* Wait when it blocks: join the list and give the mutex up.
Block(t) ==
    /\ Enter(t)
    /\ \E n \in NeedCounts, hasTimeout \in BOOLEAN :
        /\ token_count < n
        /\ need_count' = [need_count EXCEPT ![t] = n]
        /\ timed' = [timed EXCEPT ![t] = hasTimeout]
    /\ wait_list' = ListInsert(wait_list, InsertPosition(t), t)
    /\ pc' = [pc EXCEPT ![t] = "asleep"]
    /\ Return(t, "none")
    /\ UNCHANGED <<object, token_count, scan, was, sem>>

\* sem.acquire() or try_acquire_for() gets the permit ...
Acquire(t) ==
    /\ pc[t] = "asleep"
    /\ sem[t] > 0
    /\ sem' = [sem EXCEPT ![t] = sem[t] - 1]
    /\ pc' = [pc EXCEPT ![t] = "awake"]
    /\ UNCHANGED <<object, token_count, wait_list, scan, need_count, timed, was, ret>>

\* ... or try_acquire_for() runs out of time.
Expire(t) ==
    /\ pc[t] = "asleep"
    /\ timed[t]
    /\ pc' = [pc EXCEPT ![t] = "awake"]
    /\ UNCHANGED <<object, token_count, wait_list, scan, waiter, ret>>

GetResult(t) ==
    CASE was[t] = "signaled" -> "OK"
      [] was[t] = "deleted" -> "EACCES"
      [] was[t] = "canceled" -> "ECANCELED"
      [] was[t] = "none" -> "ETIMEDOUT"

\* Mutant: a waiter that timed out stays in the list.
ResumeKeepsEntry(t) ==
    /\ pc[t] = "awake"
    /\ mutex = NoThread
    /\ pc' = [pc EXCEPT ![t] = "idle"]
    /\ Return(t, GetResult(t))
    /\ need_count' = [need_count EXCEPT ![t] = 0]
    /\ timed' = [timed EXCEPT ![t] = FALSE]
    /\ was' = [was EXCEPT ![t] = "none"]
    /\ sem' = [sem EXCEPT ![t] = 0]
    /\ UNCHANGED <<object, token_count, wait_list, scan>>

\* The waiter locks the mutex again, takes its result and, when it timed out,
\* leaves the list; its WaitingThread is a local of Wait.  After erase() the mutex is freed memory; the outcome
\* modelled here is the one in which it still locks.
Resume(t) ==
    /\ pc[t] = "awake"
    /\ mutex = NoThread
    /\ pc' = [pc EXCEPT ![t] = "idle"]
    /\ Return(t, GetResult(t))
    /\ wait_list' = IF GetResult(t) = "ETIMEDOUT"
                    THEN ListErase(wait_list, CHOOSE i \in 1 .. Len(wait_list) : wait_list[i] = t)
                    ELSE wait_list
    /\ need_count' = [need_count EXCEPT ![t] = 0]
    /\ timed' = [timed EXCEPT ![t] = FALSE]
    /\ was' = [was EXCEPT ![t] = "none"]
    /\ sem' = [sem EXCEPT ![t] = 0]
    /\ UNCHANGED <<object, token_count, scan>>

\* Mutant: the scan starts at the second waiter.
SignalStartOffByOne(t) ==
    /\ Enter(t)
    /\ \E n \in SignalCounts :
        /\ token_count + n <= max_count
        /\ token_count' = token_count + n
    /\ mutex' = t
    /\ cursor' = 2
    /\ pc' = [pc EXCEPT ![t] = "signal"]
    /\ UNCHANGED <<object, wait_list, waiter, ret>>

\* Signal: refused above max_count, else the tokens are added and the scan starts.
SignalStart(t) ==
    /\ Enter(t)
    /\ \E n \in SignalCounts :
        IF token_count + n > max_count
        THEN /\ Return(t, "EINVAL")
             /\ UNCHANGED <<token_count, scan, pc>>
        ELSE /\ token_count' = token_count + n
             /\ mutex' = t
             /\ cursor' = 1
             /\ pc' = [pc EXCEPT ![t] = "signal"]
             /\ UNCHANGED ret
    /\ UNCHANGED <<object, wait_list, waiter>>

\* Mutant: the scan stops at the first waiter it cannot serve.
SignalSkipStops(t) ==
    /\ pc[t] = "signal"
    /\ cursor <= Len(wait_list)
    /\ need_count[wait_list[cursor]] > token_count
    /\ cursor' = Len(wait_list) + 1
    /\ UNCHANGED <<object, token_count, wait_list, mutex, pc, waiter, ret>>

\* One iteration that leaves the waiter in the list.
SignalSkip(t) ==
    /\ pc[t] = "signal"
    /\ cursor <= Len(wait_list)
    /\ need_count[wait_list[cursor]] > token_count
    /\ cursor' = cursor + 1
    /\ UNCHANGED <<object, token_count, wait_list, mutex, pc, waiter, ret>>

\* Mutant: the tokens given to a waiter stay in the count.
SignalGrantKeepsTokens(t) ==
    /\ pc[t] = "signal"
    /\ cursor <= Len(wait_list)
    /\ LET w == wait_list[cursor] IN
        /\ need_count[w] <= token_count
        /\ wait_list' = ListErase(wait_list, cursor)
        /\ was' = [was EXCEPT ![w] = "signaled"]
        /\ sem' = [sem EXCEPT ![w] = sem[w] + 1]
    /\ UNCHANGED <<object, scan, pc, token_count, need_count, timed, ret>>

\* One iteration that serves the waiter.
SignalGrant(t) ==
    /\ pc[t] = "signal"
    /\ cursor <= Len(wait_list)
    /\ LET w == wait_list[cursor] IN
        /\ need_count[w] <= token_count
        /\ wait_list' = ListErase(wait_list, cursor)
        /\ token_count' = token_count - need_count[w]
        /\ was' = [was EXCEPT ![w] = "signaled"]
        /\ sem' = [sem EXCEPT ![w] = sem[w] + 1]
    /\ UNCHANGED <<object, scan, pc, need_count, timed, ret>>

SignalEnd(t) ==
    /\ pc[t] = "signal"
    /\ cursor > Len(wait_list)
    /\ mutex' = NoThread
    /\ cursor' = 0
    /\ pc' = [pc EXCEPT ![t] = "idle"]
    /\ Return(t, "OK")
    /\ UNCHANGED <<object, token_count, wait_list, waiter>>

\* The loop of Cancel and Delete: mark and release every waiter, then clear.
WakeAll(mark) ==
    LET queued == Range(wait_list) IN
    /\ was' = [u \in Threads |-> IF u \in queued THEN mark ELSE was[u]]
    /\ sem' = [u \in Threads |-> IF u \in queued THEN sem[u] + 1 ELSE sem[u]]
    /\ wait_list' = <<>>

Cancel(t) ==
    /\ Enter(t)
    /\ WakeAll("canceled")
    /\ \E n \in SetCounts : token_count' = IF n < 0 THEN init_count ELSE n
    /\ Return(t, "OK")
    /\ UNCHANGED <<object, scan, pc, need_count, timed>>

sceKernelDeleteSema(t) ==
    /\ Enter(t)
    /\ WakeAll("deleted")
    /\ state' = "erased"
    /\ Return(t, "OK")
    /\ UNCHANGED <<init_count, max_count, is_fifo, token_count, scan, pc, need_count, timed>>

Next ==
    \E t \in Threads :
        \/ sceKernelCreateSema(t)
        \/ BadHandle(t)
        \/ Take(t)
        \/ Refuse(t)
        \/ Block(t)
        \/ Acquire(t)
        \/ Expire(t)
        \/ Resume(t)
        \/ SignalStart(t)
        \/ SignalSkip(t)
        \/ SignalGrant(t)
        \/ SignalEnd(t)
        \/ Cancel(t)
        \/ sceKernelDeleteSema(t)

Spec == Init /\ [][Next]_vars

-----------------------------------------------------------------------------
\* The positions, and the threads, of the wait list.
Positions == 1 .. Len(wait_list)
Queued(t) == t \in Range(wait_list)

\* A thread between Block and Resume.
Waiting(t) == pc[t] \in {"asleep", "awake"}

\* Every variable keeps its type; in particular the token count of the object
\* never becomes negative, whatever the order of takes, grants and cancels.
TypeOK ==
    /\ state \in {"absent", "live", "erased"}
    /\ init_count \in Nat /\ max_count \in Nat /\ is_fifo \in BOOLEAN
    /\ token_count \in Nat
    /\ wait_list \in Seq(Threads)
    /\ mutex \in Threads \cup {NoThread} /\ cursor \in Nat
    /\ pc \in [Threads -> {"idle", "asleep", "awake", "signal"}]
    /\ need_count \in [Threads -> Nat]
    /\ timed \in [Threads -> BOOLEAN]
    /\ was \in [Threads -> {"none", "signaled", "canceled", "deleted"}]
    /\ sem \in [Threads -> Nat]
    /\ ret \in [Threads -> Results]

\* The list holds exactly the waiters nobody has released, each once.  The raw
\* WaitingThread pointers of the list are stack objects of Wait: an entry that
\* outlived its call would be dangling.
ListMatchesWaiters ==
    /\ \A t \in Threads : Queued(t) <=> (Waiting(t) /\ was[t] = "none")
    /\ IsInjective(wait_list)

\* A waiter is released at most once, so its BinarySemaphore never exceeds one
\* permit, and a permit is only there for a waiter that has been marked.
ReleasedOnce == \A t \in Threads : sem[t] <= 1 /\ (sem[t] = 1 => was[t] # "none")

\* Outside the scan of Signal no waiter is left in the list that the tokens
\* would serve: no combination of Signal, Wait, Poll, Cancel and timeouts
\* strands a waiter.  During the scan it holds of the part already visited.
NoServableWaiter ==
    \A i \in Positions :
        (mutex = NoThread \/ i < cursor) => need_count[wait_list[i]] > token_count

\* The list stays ordered by urgency through insertions, grants and timeouts.
UrgencyOrder ==
    \A i, j \in Positions :
        i < j => Priority(wait_list[i]) <= Priority(wait_list[j])

\* The list through all calls and timeouts: the tokens never become negative, the
\* entries are the unreleased waiters of Wait, in the order AddWaiter promises,
\* and no waiter is released twice.
ListSound == TypeOK /\ ListMatchesWaiters /\ ReleasedOnce /\ UrgencyOrder

\* Signal serves a waiter ahead of an earlier one only when the earlier one
\* asked for more tokens.
Overtakes ==
    \A i, j \in Positions :
        (i < j /\ was[wait_list[j]] = "none" /\ was'[wait_list[j]] = "signaled")
            => \/ was'[wait_list[i]] = "signaled"
               \/ need_count[wait_list[i]] > need_count[wait_list[j]]
NoOvertaking == [][Overtakes]_vars
=============================================================================
