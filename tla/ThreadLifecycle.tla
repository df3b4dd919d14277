--------------------------- MODULE ThreadLifecycle ---------------------------
(***************************************************************************)
(* Creation, exit, join, detach and garbage collection of guest threads    *)
(* (threads/pthread.cpp, threads/thread_state.cpp).  A slot is the memory  *)
(* of one Pthread object: it moves between the heap, the cache of freed    *)
(* objects, the thread list and the garbage list, and is used again for    *)
(* later threads.  A thread is named by the slot it runs on.               *)
(*                                                                         *)
(* Main is the initial thread; it never calls pthread_exit (ExitThread     *)
(* asserts that another thread is active).  Programs whose threads join    *)
(* each other in a circle are left out, see JoinsInCircle.                 *)
(***************************************************************************)
EXTENDS Integers, FiniteSets

CONSTANTS
    Slots, NoSlot, Main,
    GcThreshold,        \* garbage that makes a create collect it
    MaxCachedThreads,   \* freed objects that are kept
    MaxTail,            \* bound on exits of one slot that have still to notify
    TimedJoins,         \* whether joins have a deadline
    EarlyCollect        \* whether a collector may overtake the unlock that ends TryCollect

ASSUME LifecycleAssumption ==
    /\ IsFiniteSet(Slots)
    /\ Main \in Slots
    /\ NoSlot \notin Slots
    /\ GcThreshold \in Nat \ {0}
    /\ MaxCachedThreads \in Nat
    /\ MaxTail \in Nat \ {0}
    /\ TimedJoins \in BOOLEAN
    /\ EarlyCollect \in BOOLEAN

VARIABLES
    heap, free_threads, threads, gc_list,           \* where the slots are
    total_threads, active_threads, thread_list_lock,
    tid, lock, state, refcount, detached, joiner, join_target, \* Pthread
    cancel_pending, cancelling,
    pc, op, arg, work,                              \* the call a thread is in
    tail                                            \* exits that have still to notify

placeVars == <<heap, free_threads, threads, gc_list>>
countVars == <<total_threads, active_threads>>
joinVars == <<joiner, join_target>>
cancelVars == <<cancel_pending, cancelling>>
objVars == <<tid, lock, state, refcount, detached, joinVars, cancelVars>>
callVars == <<pc, op, arg, work>>
vars == <<placeVars, countVars, thread_list_lock, objVars, callVars, tail>>

Steps == {"none", "run", "find", "join_target", "join_test", "join_check", "join_sleep",
          "join_timeout", "join_done", "join_reap", "backout", "unjoin", "cancel", "ref",
          "tc_list", "tc_lock", "tc_unlock", "exit", "terminate",
          "collect", "free", "alloc", "heap", "construct", "link", "start"}
Operations == {"none", "join", "detach", "cancel", "ref"}

TypeOK ==
    /\ heap \subseteq Slots /\ free_threads \subseteq Slots
    /\ threads \subseteq Slots /\ gc_list \subseteq Slots
    /\ total_threads \in Nat /\ active_threads \in Nat
    /\ thread_list_lock \in Slots \cup {NoSlot}
    /\ tid \in [Slots -> {"live", "terminated"}]
    /\ lock \in [Slots -> Slots \cup {NoSlot}]
    /\ state \in [Slots -> {"running", "dead"}]
    /\ refcount \in [Slots -> Nat]
    /\ detached \in [Slots -> BOOLEAN]
    /\ joiner \in [Slots -> Slots \cup {NoSlot}]
    /\ join_target \in [Slots -> Slots \cup {NoSlot}]
    /\ cancel_pending \in [Slots -> BOOLEAN]
    /\ cancelling \in [Slots -> BOOLEAN]
    /\ pc \in [Slots -> Steps]
    /\ op \in [Slots -> Operations]
    /\ arg \in [Slots -> Slots \cup {NoSlot}]
    /\ work \in [Slots -> SUBSET Slots]
    /\ tail \in [Slots -> Nat]

\* The initial thread is allocated, linked and running.
Init ==
    /\ heap = Slots \ {Main}
    /\ free_threads = {}
    /\ threads = {Main}
    /\ gc_list = {}
    /\ total_threads = 1
    /\ active_threads = 1
    /\ thread_list_lock = NoSlot
    /\ tid = [x \in Slots |-> "live"]
    /\ lock = [x \in Slots |-> NoSlot]
    /\ state = [x \in Slots |-> "running"]
    /\ refcount = [x \in Slots |-> IF x = Main THEN 1 ELSE 0]
    /\ detached = [x \in Slots |-> FALSE]
    /\ joiner = [x \in Slots |-> NoSlot]
    /\ join_target = [x \in Slots |-> NoSlot]
    /\ cancel_pending = [x \in Slots |-> FALSE]
    /\ cancelling = [x \in Slots |-> FALSE]
    /\ pc = [x \in Slots |-> IF x = Main THEN "run" ELSE "none"]
    /\ op = [x \in Slots |-> "none"]
    /\ arg = [x \in Slots |-> NoSlot]
    /\ work = [x \in Slots |-> {}]
    /\ tail = [x \in Slots |-> 0]

Goto(s, step) == pc' = [pc EXCEPT ![s] = step]

\* The call of s is over.
Return(s) ==
    /\ Goto(s, "run")
    /\ op' = [op EXCEPT ![s] = "none"]
    /\ arg' = [arg EXCEPT ![s] = NoSlot]

ShouldCancel(s) == cancel_pending[s] /\ ~cancelling[s]

-------------------------------------------------------------------------------
(* TryCollect(x), entered by s with x's lock *)

\* ShouldCollect with the values the caller has just written.
ShouldCollect(refs, st, det) == refs = 0 /\ st = "dead" /\ det

\* What follows TryCollect: a thread that is exiting goes on to do so.
AfterCollect(s, st) ==
    IF st = "dead" THEN Goto(s, "terminate") /\ UNCHANGED <<op, arg>> ELSE Return(s)

\* The first test, and the reference that keeps x while its lock is given up.
TryCollect(s, x, refs, st, det) ==
    /\ IF ShouldCollect(refs, st, det)
       THEN /\ refcount' = [refcount EXCEPT ![x] = refs + 1]
            /\ Goto(s, "tc_list")
            /\ arg' = [arg EXCEPT ![s] = x]
            /\ UNCHANGED op
       ELSE /\ refcount' = [refcount EXCEPT ![x] = refs]
            /\ AfterCollect(s, IF s = x THEN st ELSE state[s])
    /\ detached' = [detached EXCEPT ![x] = det]

TryCollectList(s) ==
    /\ pc[s] = "tc_list"
    /\ thread_list_lock = NoSlot
    /\ thread_list_lock' = s
    /\ Goto(s, "tc_lock")
    /\ UNCHANGED <<placeVars, countVars, objVars, op, arg, work, tail>>

\* Both locks are held again; the list lock goes first.
TryCollectMove(s) ==
    /\ pc[s] = "tc_lock"
    /\ LET x == arg[s] IN
       /\ lock[x] = NoSlot
       /\ lock' = [lock EXCEPT ![x] = s]
       /\ refcount' = [refcount EXCEPT ![x] = @ - 1]
       /\ IF ShouldCollect(refcount[x] - 1, state[x], detached[x])
          THEN threads' = threads \ {x} /\ gc_list' = gc_list \cup {x}
          ELSE UNCHANGED <<threads, gc_list>>
    /\ thread_list_lock' = NoSlot
    /\ Goto(s, "tc_unlock")
    /\ UNCHANGED <<heap, free_threads, countVars, tid, state, detached, joinVars, cancelVars, op,
                   arg, work, tail>>

\* By now x may have been collected: the unlock then frees whatever mutex is there.
TryCollectUnlock(s) ==
    /\ pc[s] = "tc_unlock"
    /\ lock' = [lock EXCEPT ![arg[s]] = NoSlot]
    /\ IF state[s] = "dead"
       THEN Goto(s, "terminate") /\ arg' = [arg EXCEPT ![s] = NoSlot] /\ UNCHANGED op
       ELSE Return(s)
    /\ UNCHANGED <<placeVars, countVars, thread_list_lock, tid, state, refcount, detached, joinVars,
                   cancelVars, work, tail>>

-------------------------------------------------------------------------------
(* FindThread(x) and what its callers do with x's lock held *)

\* Some threads would wait for each other: s joins x, which waits for s.
JoinsInCircle(s, x) ==
    \E ring \in SUBSET Slots :
        {s, x} \subseteq ring /\ \A u \in ring \ {s} : op[u] = "join" /\ arg[u] \in ring

FindBegin(s, x, o) ==
    /\ pc[s] = "run"
    /\ o = "join" => s # x /\ ~JoinsInCircle(s, x)
    /\ o = "cancel" => x # Main
    /\ x \in threads
    /\ thread_list_lock = NoSlot
    /\ thread_list_lock' = s
    /\ Goto(s, "find")
    /\ op' = [op EXCEPT ![s] = o]
    /\ arg' = [arg EXCEPT ![s] = x]
    /\ UNCHANGED <<placeVars, countVars, objVars, work, tail>>

Found(s, o) ==
    /\ pc[s] = "find"
    /\ op[s] = o
    /\ lock[arg[s]] = NoSlot
    /\ thread_list_lock' = NoSlot

Joinable(x) == ~detached[x] /\ joiner[x] = NoSlot

\* The caller finds x unsuitable: already joined, detached, or dead.
Refuse(s) ==
    /\ \/ Found(s, "join") /\ ~Joinable(arg[s])
       \/ Found(s, "detach") /\ ~Joinable(arg[s])
       \/ Found(s, "cancel") /\ (state[arg[s]] = "dead" \/ cancel_pending[arg[s]])
       \/ Found(s, "ref") /\ state[arg[s]] = "dead"
    /\ Return(s)
    /\ UNCHANGED <<placeVars, countVars, objVars, work, tail>>

\* Mutant: a thread that is being joined may be detached.
DetachJoined(s) ==
    /\ Found(s, "detach")
    /\ ~detached[arg[s]]
    /\ TryCollect(s, arg[s], refcount[arg[s]], state[arg[s]], TRUE)
    /\ UNCHANGED <<placeVars, countVars, tid, lock, state, joinVars, cancelVars, work, tail>>

Detach(s) ==
    /\ Found(s, "detach")
    /\ Joinable(arg[s])
    /\ TryCollect(s, arg[s], refcount[arg[s]], state[arg[s]], TRUE)
    /\ UNCHANGED <<placeVars, countVars, tid, lock, state, joinVars, cancelVars, work, tail>>

\* RefAdd, and RefDelete when the caller is done with x.
RefAdd(s) ==
    /\ Found(s, "ref")
    /\ state[arg[s]] # "dead"
    /\ refcount' = [refcount EXCEPT ![arg[s]] = @ + 1]
    /\ Goto(s, "ref")
    /\ UNCHANGED <<placeVars, countVars, tid, lock, state, detached, joinVars, cancelVars, op, arg,
                   work, tail>>

\* Mutant: the last reference goes without a try to collect.
RefDeleteOnly(s) ==
    /\ pc[s] = "ref"
    /\ lock[arg[s]] = NoSlot
    /\ refcount' = [refcount EXCEPT ![arg[s]] = @ - 1]
    /\ Return(s)
    /\ UNCHANGED <<placeVars, countVars, thread_list_lock, tid, lock, state, detached, joinVars,
                   cancelVars, work, tail>>

RefDelete(s) ==
    /\ pc[s] = "ref"
    /\ lock[arg[s]] = NoSlot
    /\ TryCollect(s, arg[s], refcount[arg[s]] - 1, state[arg[s]], detached[arg[s]])
    /\ UNCHANGED <<placeVars, countVars, thread_list_lock, tid, lock, state, joinVars, cancelVars,
                   work, tail>>

\* posix_pthread_cancel: the request, under the join mutex of x's target ...
Cancel(s) ==
    /\ Found(s, "cancel")
    /\ state[arg[s]] # "dead"
    /\ ~cancel_pending[arg[s]]
    /\ cancel_pending' = [cancel_pending EXCEPT ![arg[s]] = TRUE]
    /\ lock' = [lock EXCEPT ![arg[s]] = s]
    /\ Goto(s, "cancel")
    /\ UNCHANGED <<placeVars, countVars, tid, state, refcount, detached, joinVars, cancelling, op,
                   arg, work, tail>>

\* Mutant: the joiner is not notified.
CancelSilently(s) ==
    /\ pc[s] = "cancel"
    /\ Return(s)
    /\ lock' = [lock EXCEPT ![arg[s]] = NoSlot]
    /\ UNCHANGED <<placeVars, countVars, thread_list_lock, tid, state, refcount, detached, joinVars,
                   cancelVars, work, tail>>

\* ... and the notification of x when it sleeps in a join.
CancelNotify(s) ==
    /\ pc[s] = "cancel"
    /\ LET x == arg[s] IN
       /\ pc' = [pc EXCEPT ![s] = "run",
                           ![x] = IF join_target[x] # NoSlot /\ @ = "join_sleep"
                                  THEN "join_check"
                                  ELSE IF x = s THEN "run" ELSE @]
       /\ lock' = [lock EXCEPT ![x] = NoSlot]
    /\ op' = [op EXCEPT ![s] = "none"]
    /\ arg' = [arg EXCEPT ![s] = NoSlot]
    /\ UNCHANGED <<placeVars, countVars, thread_list_lock, tid, state, refcount, detached, joinVars,
                   cancelVars, work, tail>>

-------------------------------------------------------------------------------
(* JoinThread *)

\* The joiner is entered in x; s keeps x's lock and goes for its own.
JoinBegin(s) ==
    /\ Found(s, "join")
    /\ Joinable(arg[s])
    /\ joiner' = [joiner EXCEPT ![arg[s]] = s]
    /\ lock' = [lock EXCEPT ![arg[s]] = s]
    /\ Goto(s, "join_target")
    /\ UNCHANGED <<placeVars, countVars, tid, state, refcount, detached, join_target, cancelVars, op,
                   arg, work, tail>>

\* Mutant: the target's lock is kept during the wait.
JoinTargetKeepsLock(s) ==
    /\ pc[s] = "join_target"
    /\ lock[s] = NoSlot
    /\ join_target' = [join_target EXCEPT ![s] = arg[s]]
    /\ Goto(s, "join_test")
    /\ UNCHANGED <<placeVars, countVars, thread_list_lock, tid, lock, state, refcount, detached, joiner,
                   cancelVars, op, arg, work, tail>>

JoinTarget(s) ==
    /\ pc[s] = "join_target"
    /\ lock[s] = NoSlot
    /\ join_target' = [join_target EXCEPT ![s] = arg[s]]
    /\ lock' = [lock EXCEPT ![arg[s]] = NoSlot]
    /\ Goto(s, "join_test")
    /\ UNCHANGED <<placeVars, countVars, thread_list_lock, tid, state, refcount, detached, joiner,
                   cancelVars, op, arg, work, tail>>

\* A pending request ends the join and the thread: backout_join runs on the way.
JoinCancelled(s) ==
    /\ \/ pc[s] = "join_test"
       \/ pc[s] = "join_check" /\ tid[arg[s]] # "terminated"
    /\ ShouldCancel(s)
    /\ cancelling' = [cancelling EXCEPT ![s] = TRUE]
    /\ Goto(s, "backout")
    /\ UNCHANGED <<placeVars, countVars, thread_list_lock, tid, lock, state, refcount, detached,
                   joinVars, cancel_pending, op, arg, work, tail>>

JoinTest(s) ==
    /\ pc[s] = "join_test"
    /\ ~ShouldCancel(s)
    /\ Goto(s, "join_check")
    /\ UNCHANGED <<placeVars, countVars, thread_list_lock, objVars, op, arg, work, tail>>

\* Under the join mutex: finished, or asleep until notified.
JoinCheck(s) ==
    /\ pc[s] = "join_check"
    /\ \/ tid[arg[s]] = "terminated" /\ Goto(s, "join_done")
       \/ tid[arg[s]] # "terminated" /\ ~ShouldCancel(s) /\ Goto(s, "join_sleep")
    /\ UNCHANGED <<placeVars, countVars, thread_list_lock, objVars, op, arg, work, tail>>

\* The deadline passes and the condition does not hold.
JoinTimeOut(s) ==
    /\ TimedJoins
    /\ pc[s] = "join_sleep"
    /\ tid[arg[s]] # "terminated"
    /\ ~ShouldCancel(s)
    /\ Goto(s, "join_timeout")
    /\ UNCHANGED <<placeVars, countVars, thread_list_lock, objVars, op, arg, work, tail>>

ClearTarget(s, from, to) ==
    /\ pc[s] = from
    /\ lock[s] = NoSlot
    /\ join_target' = [join_target EXCEPT ![s] = NoSlot]
    /\ Goto(s, to)
    /\ UNCHANGED <<placeVars, countVars, thread_list_lock, tid, lock, state, refcount, detached,
                   joiner, cancelVars, op, arg, work, tail>>

\* The thread's own entry is cleared: at the end of the wait, and in backout_join.
JoinClear(s) ==
    \/ ClearTarget(s, "join_done", "join_reap")
    \/ ClearTarget(s, "join_timeout", "backout")
    \/ ClearTarget(s, "backout", "unjoin")

\* The end of backout_join; a cancelled joiner goes on to exit.
Unjoin(s) ==
    /\ pc[s] = "unjoin"
    /\ lock[arg[s]] = NoSlot
    /\ joiner' = [joiner EXCEPT ![arg[s]] = NoSlot]
    /\ Goto(s, IF cancelling[s] THEN "exit" ELSE "run")
    /\ op' = [op EXCEPT ![s] = "none"]
    /\ arg' = [arg EXCEPT ![s] = NoSlot]
    /\ UNCHANGED <<placeVars, countVars, thread_list_lock, tid, lock, state, refcount, detached,
                   join_target, cancelVars, work, tail>>

\* The thread is finished: it becomes detached and is collected.
JoinReap(s) ==
    /\ pc[s] = "join_reap"
    /\ lock[arg[s]] = NoSlot
    /\ joiner' = [joiner EXCEPT ![arg[s]] = NoSlot]
    /\ TryCollect(s, arg[s], refcount[arg[s]], state[arg[s]], TRUE)
    /\ UNCHANGED <<placeVars, countVars, thread_list_lock, tid, lock, state, join_target, cancelVars,
                   work, tail>>

-------------------------------------------------------------------------------
(* posix_pthread_exit and ExitThread *)

ExitBegin(s) ==
    /\ pc[s] = "run"
    /\ s # Main
    /\ cancelling' = [cancelling EXCEPT ![s] = TRUE]
    /\ Goto(s, "exit")
    /\ UNCHANGED <<placeVars, countVars, thread_list_lock, tid, lock, state, refcount, detached,
                   joinVars, cancel_pending, op, arg, work, tail>>

\* The thread dies and drops the reference it was created with.
ExitThread(s) ==
    /\ pc[s] = "exit"
    /\ lock[s] = NoSlot
    /\ active_threads' = active_threads - 1
    /\ state' = [state EXCEPT ![s] = "dead"]
    /\ TryCollect(s, s, refcount[s] - 1, "dead", detached[s])
    /\ UNCHANGED <<placeVars, total_threads, thread_list_lock, tid, lock, joinVars, cancelVars, work,
                   tail>>

\* From here on the slot may be collected, though the thread has still to notify.
Terminate(s) ==
    /\ pc[s] = "terminate"
    /\ tail[s] < MaxTail
    /\ tid' = [tid EXCEPT ![s] = "terminated"]
    /\ Goto(s, "none")
    /\ tail' = [tail EXCEPT ![s] = @ + 1]
    /\ UNCHANGED <<placeVars, countVars, thread_list_lock, lock, state, refcount, detached, joinVars,
                   cancelVars, op, arg, work>>

ExitNotify(s) ==
    /\ tail[s] > 0
    /\ tail' = [tail EXCEPT ![s] = @ - 1]
    /\ pc' = [u \in Slots |-> IF pc[u] = "join_sleep" /\ arg[u] = s THEN "join_check" ELSE pc[u]]
    /\ UNCHANGED <<placeVars, countVars, thread_list_lock, objVars, op, arg, work>>

-------------------------------------------------------------------------------
(* posix_pthread_create_name_np, with Alloc, Collect and Free *)

CreateBegin(s) ==
    /\ pc[s] = "run"
    /\ Goto(s, IF Cardinality(gc_list) >= GcThreshold THEN "collect" ELSE "alloc")
    /\ UNCHANGED <<placeVars, countVars, thread_list_lock, objVars, op, arg, work, tail>>

\* The unlock that ends a TryCollect of x has still to happen.
BeingUnlocked(x) == \E u \in Slots : pc[u] = "tc_unlock" /\ arg[u] = x

\* Mutant: the garbage stays on the list.
CollectKeeps(s) ==
    /\ pc[s] = "collect"
    /\ thread_list_lock = NoSlot
    /\ LET dead == {x \in gc_list : tid[x] = "terminated" /\ (EarlyCollect \/ ~BeingUnlocked(x))} IN
       work' = [work EXCEPT ![s] = dead]
    /\ Goto(s, "free")
    /\ UNCHANGED <<placeVars, countVars, thread_list_lock, objVars, op, arg, tail>>

Collect(s) ==
    /\ pc[s] = "collect"
    /\ thread_list_lock = NoSlot
    /\ LET dead == {x \in gc_list : tid[x] = "terminated" /\ (EarlyCollect \/ ~BeingUnlocked(x))} IN
       /\ work' = [work EXCEPT ![s] = dead]
       /\ gc_list' = gc_list \ dead
    /\ Goto(s, "free")
    /\ UNCHANGED <<heap, free_threads, threads, countVars, thread_list_lock, objVars, op, arg, tail>>

\* An object is destroyed and kept for the next create, or given back.
Free(x) ==
    IF Cardinality(free_threads) >= MaxCachedThreads
    THEN heap' = heap \cup {x} /\ total_threads' = total_threads - 1 /\ UNCHANGED free_threads
    ELSE free_threads' = free_threads \cup {x} /\ UNCHANGED <<heap, total_threads>>

FreeWork(s) ==
    /\ pc[s] = "free"
    /\ \/ \E x \in work[s] : Free(x) /\ work' = [work EXCEPT ![s] = @ \ {x}] /\ UNCHANGED pc
       \/ /\ work[s] = {}
          /\ Goto(s, "alloc")
          /\ UNCHANGED <<heap, free_threads, total_threads, work>>
    /\ UNCHANGED <<threads, gc_list, active_threads, thread_list_lock, objVars, op, arg, tail>>

\* A cached object, or else one from the heap, which holds MaxThreads of them.
AllocCached(s) ==
    /\ pc[s] = "alloc"
    /\ \E x \in free_threads : /\ free_threads' = free_threads \ {x}
                               /\ arg' = [arg EXCEPT ![s] = x]
    /\ Goto(s, "construct")
    /\ UNCHANGED <<heap, threads, gc_list, countVars, thread_list_lock, objVars, op, work, tail>>

AllocCount(s) ==
    /\ pc[s] = "alloc"
    /\ free_threads = {}
    /\ IF total_threads > Cardinality(Slots)
       THEN Goto(s, "run") /\ UNCHANGED total_threads
       ELSE Goto(s, "heap") /\ total_threads' = total_threads + 1
    /\ UNCHANGED <<placeVars, active_threads, thread_list_lock, objVars, op, arg, work, tail>>

AllocHeap(s) ==
    /\ pc[s] = "heap"
    /\ \/ \E x \in heap : /\ heap' = heap \ {x}
                          /\ arg' = [arg EXCEPT ![s] = x]
                          /\ Goto(s, "construct")
                          /\ UNCHANGED total_threads
       \/ /\ heap = {}
          /\ total_threads' = total_threads - 1
          /\ Goto(s, "run")
          /\ UNCHANGED <<heap, arg>>
    /\ UNCHANGED <<free_threads, threads, gc_list, active_threads, thread_list_lock, objVars, op,
                   work, tail>>

\* The object starts afresh.
Construct(s, det) ==
    /\ pc[s] = "construct"
    /\ LET x == arg[s] IN
       /\ tid' = [tid EXCEPT ![x] = "live"]
       /\ lock' = [lock EXCEPT ![x] = NoSlot]
       /\ state' = [state EXCEPT ![x] = "running"]
       /\ refcount' = [refcount EXCEPT ![x] = 1]
       /\ detached' = [detached EXCEPT ![x] = det]
       /\ joiner' = [joiner EXCEPT ![x] = NoSlot]
       /\ join_target' = [join_target EXCEPT ![x] = NoSlot]
       /\ cancel_pending' = [cancel_pending EXCEPT ![x] = FALSE]
       /\ cancelling' = [cancelling EXCEPT ![x] = FALSE]
    /\ Goto(s, "link")
    /\ UNCHANGED <<placeVars, countVars, thread_list_lock, op, arg, work, tail>>

\* No TCB: back to the heap.  No stack: Free.
ConstructFails(s) ==
    /\ pc[s] = "construct"
    /\ \/ heap' = heap \cup {arg[s]} /\ total_threads' = total_threads - 1 /\ UNCHANGED free_threads
       \/ Free(arg[s])
    /\ Return(s)
    /\ UNCHANGED <<threads, gc_list, active_threads, thread_list_lock, objVars, work, tail>>

Link(s) ==
    /\ pc[s] = "link"
    /\ thread_list_lock = NoSlot
    /\ threads' = threads \cup {arg[s]}
    /\ Goto(s, "start")
    /\ UNCHANGED <<heap, free_threads, gc_list, countVars, thread_list_lock, objVars, op, arg, work,
                   tail>>

Start(s) ==
    /\ pc[s] = "start"
    /\ active_threads' = active_threads + 1
    /\ pc' = [pc EXCEPT ![s] = "run", ![arg[s]] = "run"]
    /\ arg' = [arg EXCEPT ![s] = NoSlot]
    /\ UNCHANGED <<placeVars, total_threads, thread_list_lock, objVars, op, work, tail>>

-------------------------------------------------------------------------------
\* What a thread does by itself once it is in a call.
Continue(s) ==
    \/ Refuse(s) \/ Detach(s) \/ RefAdd(s) \/ RefDelete(s) \/ Cancel(s) \/ CancelNotify(s)
    \/ JoinBegin(s) \/ JoinTarget(s) \/ JoinCancelled(s) \/ JoinTest(s) \/ JoinCheck(s)
    \/ JoinClear(s) \/ Unjoin(s) \/ JoinReap(s)
    \/ TryCollectList(s) \/ TryCollectMove(s) \/ TryCollectUnlock(s)
    \/ ExitThread(s) \/ Terminate(s) \/ ExitNotify(s)
    \/ Collect(s) \/ FreeWork(s) \/ AllocCached(s) \/ AllocCount(s) \/ AllocHeap(s)
    \/ (\E det \in BOOLEAN : Construct(s, det)) \/ ConstructFails(s) \/ Link(s) \/ Start(s)

Next ==
    \E s \in Slots :
        \/ Continue(s)
        \/ JoinTimeOut(s) \/ ExitBegin(s) \/ CreateBegin(s)
        \/ \E x \in Slots, o \in Operations \ {"none"} : FindBegin(s, x, o)

Spec == Init /\ [][Next]_vars

-------------------------------------------------------------------------------
Waiting == {"join_target", "join_test", "join_check", "join_sleep", "join_timeout", "join_done",
            "join_reap", "backout", "unjoin"}

\* The places a slot can be in.
InCreation == {arg[s] : s \in {u \in Slots : pc[u] \in {"construct", "link"}}}
BeingFreed == UNION {work[s] : s \in Slots}

\* Every slot is in one place: it is not freed twice, not lost, and not used for two
\* threads; total_threads counts the slots that are not in the heap.
SlotsConserved ==
    /\ TypeOK
    /\ \A x \in Slots :
        Cardinality({p \in 1 .. 6 :
            x \in CASE p = 1 -> heap [] p = 2 -> free_threads [] p = 3 -> threads
                    [] p = 4 -> gc_list [] p = 5 -> InCreation [] OTHER -> BeingFreed}) = 1
    /\ total_threads = Cardinality(Slots \ heap) + Cardinality({s \in Slots : pc[s] = "heap"})

\* A thread uses another's Pthread in a join, with a reference, under its lock or on
\* the way through TryCollect only while that object has not been taken for freeing.
\* A joiner entry names a thread inside JoinThread for that slot: nobody notifies, or
\* refuses to join or detach for the sake of, a thread that has left.  The object of a
\* thread that still executes its own code is not freed either.
NoUseAfterFree ==
    /\ \A s \in Slots : pc[s] # "none" => s \in threads \cup gc_list
    /\ \A s \in Slots : pc[s] \in Waiting \cup {"ref", "cancel", "find", "tc_list", "tc_lock"} =>
          arg[s] \in threads
    /\ \A x \in threads \cup gc_list : joiner[x] # NoSlot =>
          pc[joiner[x]] \in Waiting /\ arg[joiner[x]] = x

\* No finished, detached and unreferenced thread is left on the thread list: whoever
\* made the last of these true moves it to the garbage list.
GarbageIsCollected ==
    \A x \in threads : ~ShouldCollect(refcount[x], state[x], detached[x])

\* TryCollect ends with "thread lock released": the lock it releases is the one it took.
TryCollectHoldsLock ==
    \A s \in Slots : pc[s] = "tc_unlock" => lock[arg[s]] = s /\ arg[s] \in threads \cup gc_list

\* A joiner sleeps neither through the end of its target nor through its own
\* cancellation: whoever caused it has still to notify.
SleepingJoinerIsTold ==
    \A s \in Slots : pc[s] = "join_sleep" =>
        /\ tid[arg[s]] = "terminated" => tail[arg[s]] > 0
        /\ ShouldCancel(s) => \E u \in Slots : pc[u] = "cancel" /\ arg[u] = s

\* s cannot go on before u does something: u has a lock that s wants, or s joins u.
WaitsFor(s, u) ==
    \/ pc[s] \in {"find", "tc_lock", "ref", "unjoin", "join_reap"} /\ lock[arg[s]] = u
    \/ pc[s] \in {"join_target", "join_done", "join_timeout", "backout", "exit"} /\ lock[s] = u
    \/ pc[s] \in {"tc_list", "collect", "link"} /\ thread_list_lock = u
    \/ pc[s] = "join_sleep" /\ arg[s] = u /\ tid[u] # "terminated"

\* There is no circle of waits: FindThread and TryCollect wait for a thread's lock with
\* the list lock, JoinThread for its own lock with that of its target.
NoCircularWait ==
    \A ring \in SUBSET Slots : ring # {} => \E s \in ring : \A u \in ring : ~WaitsFor(s, u)
===============================================================================
