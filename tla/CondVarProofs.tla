----------------------------- MODULE CondVarProofs -----------------------------
(***************************************************************************)
(* Theorems about CondVar, for any number of threads, mutexes and          *)
(* conditions: the invariants that follow from IInv, and that CondVar      *)
(* implements Monitor.  Only WaitBegin, the signals, BroadcastBegin, the   *)
(* end of a wait, the mutex operations and the start of a cancellation are *)
(* seen by a guest; everything between them is a stutter of the monitor.   *)
(***************************************************************************)
EXTENDS CondVarInvariant, CondVarMonitor, FiniteSetTheorems

\* The positions of a thread on a list are finitely many.
LEMMA Counted == EntriesAreCounted
<1> SUFFICES ASSUME NEW s \in Seq(Threads), NEW u \in Threads
             PROVE  LET n == Cardinality({i \in DOMAIN s : s[i] = u})
                    IN  n \in Nat /\ (u \in Range(s) => n > 0)
  BY DEF EntriesAreCounted
<1> DEFINE At == {i \in DOMAIN s : s[i] = u}
<1>1. DOMAIN s = 1 .. Len(s) /\ Len(s) \in Nat
  OBVIOUS
<1>2. IsFiniteSet(1 .. Len(s))
  BY <1>1, FS_Interval
<1>3. IsFiniteSet(At)
  BY <1>1, <1>2, FS_Subset
<1>4. Cardinality(At) \in Nat /\ (Cardinality(At) = 0 <=> At = {})
  BY <1>3, FS_CardinalityType, FS_EmptySet, Zenon
<1>5. u \in Range(s) => At # {}
  BY DEF Range
<1> QED BY <1>4, <1>5

\* The invariant holds of every state of every behaviour.
LEMMA Invariance == Spec => []IInv
<1>1. IInv /\ [Next]_vars => IInv'
  BY Counted, Inductive
<1> QED BY <1>1, InitIInv, PTL DEF Spec

-------------------------------------------------------------------------------
\* The sleep queues and the wchan of the threads always agree, so that none of the
\* assertions of sleepq.cpp and condvar.cpp about them fires.
THEOREM QueuesAgree == Spec => []QueueMatchesWchan
<1>1. IInv => QueueMatchesWchan
  BY DEF IInv
<1> QED BY <1>1, Invariance, PTL

\* No wakeup is lost, whatever is cancelled and however posts are deferred.
THEOREM NoLostWakeup == Spec => []WakeIsOwed
<1>1. IInv => WakeIsOwed
  BY DEF IInv
<1> QED BY <1>1, Invariance, PTL

\* A thread that nobody cancels makes the posts it keeps back, although others are
\* cancelled: there is always an unlock or a Sleep ahead of it that makes them.
THEOREM UncancelledPost == Spec => []PostsKept
<1>1. IInv => PostsKept
  BY DEF IInv
<1> QED BY <1>1, Invariance, PTL

\* Without cancellation no post stays with its signaller.
THEOREM DeferredPostsAreMade ==
    ASSUME Cancellable = {}
    PROVE  Spec => []DeferredPostsHaveAnOwner
<1>1. PostsKept => DeferredPostsHaveAnOwner
  BY DEF PostsKept, DeferredPostsHaveAnOwner
<1> QED BY <1>1, UncancelledPost, PTL

-------------------------------------------------------------------------------
(* The refinement: what is seen of queues, threads and waits *)

Blocked == {"arm", "sleep", "woken"}
Outside == {"run", "flush", "drop", "release", "cancel"}

\* What a step leaves alone of the monitor, state by state.
SameQueues == \A c \in Conds : QueueOf(c)' = QueueOf(c)
SamePhases == \A t \in Threads : PhaseOf(t)' = PhaseOf(t)
SameWaits == \A t \in Threads : WaitOf(t)' = WaitOf(t)

\* What it leaves alone of a thread.
SameCall(u) == cv'[u] = cv[u] /\ mp'[u] = mp[u] /\ recurse'[u] = recurse[u] /\ timed'[u] = timed[u]
SameThread(u) ==
    /\ SameCall(u)
    /\ pc'[u] = pc[u] /\ wchan'[u] = wchan[u] /\ error'[u] = error[u]
    /\ cancelling'[u] = cancelling[u]

\* Equal state by state is equal.
LEMMA SameBars ==
    /\ SameQueues => UNCHANGED queueBar
    /\ SamePhases => UNCHANGED phaseBar
    /\ SameWaits => UNCHANGED waitBar
BY DEF SameQueues, SamePhases, SameWaits, queueBar, phaseBar, waitBar

\* A step that changes nothing seen is a stutter of the monitor.
LEMMA Stutter ==
    ASSUME SameQueues, SamePhases, SameWaits, UNCHANGED <<m_owner, m_count, cancel_pending>>
    PROVE  UNCHANGED Promise!monitorVars
BY SameBars DEF Promise!monitorVars

\* One queue, one thread or one wait changes.
LEMMA BarSteps ==
    /\ \A c \in Conds : queueBar[c] = QueueOf(c)
    /\ \A t \in Threads : phaseBar[t] = PhaseOf(t) /\ waitBar[t] = WaitOf(t)
    /\ \A c \in Conds : \A q :
          QueueOf(c)' = q /\ (\A d \in Conds \ {c} : QueueOf(d)' = QueueOf(d))
             => queueBar' = [queueBar EXCEPT ![c] = q]
    /\ \A t \in Threads : \A p :
          PhaseOf(t)' = p /\ (\A u \in Threads \ {t} : PhaseOf(u)' = PhaseOf(u))
             => phaseBar' = [phaseBar EXCEPT ![t] = p]
    /\ \A t \in Threads : \A w :
          WaitOf(t)' = w /\ (\A u \in Threads \ {t} : WaitOf(u)' = WaitOf(u))
             => waitBar' = [waitBar EXCEPT ![t] = w]
<1>1. \A c \in Conds : \A q :
         QueueOf(c)' = q /\ (\A d \in Conds \ {c} : QueueOf(d)' = QueueOf(d))
            => queueBar' = [queueBar EXCEPT ![c] = q]
  BY Zenon DEF queueBar
<1>2. \A t \in Threads : \A p :
         PhaseOf(t)' = p /\ (\A u \in Threads \ {t} : PhaseOf(u)' = PhaseOf(u))
            => phaseBar' = [phaseBar EXCEPT ![t] = p]
  BY Zenon DEF phaseBar
<1>3. \A t \in Threads : \A w :
         WaitOf(t)' = w /\ (\A u \in Threads \ {t} : WaitOf(u)' = WaitOf(u))
            => waitBar' = [waitBar EXCEPT ![t] = w]
  BY Zenon DEF waitBar
<1> QED BY <1>1, <1>2, <1>3, Zenon DEF queueBar, phaseBar, waitBar

\* What is seen of a queue, by the step of whoever has its lock.
LEMMA QueueTable ==
    \A c :
        /\ sq_lock[c] = NoThread => QueueOf(c) = sq_blocked[c] /\ ~Dropped(c)
        /\ \A t : sq_lock[c] = t /\ t # NoThread =>
              /\ pc[t] = "arm" => QueueOf(c) = sq_blocked[c] /\ ~Dropped(c)
              /\ pc[t] = "add" => QueueOf(c) = Append(sq_blocked[c], t) /\ ~Dropped(c)
              /\ pc[t] = "drop" => QueueOf(c) = <<>> /\ Dropped(c)
BY DEF QueueOf, Dropped

\* The same after a step.
LEMMA QueueTableNext ==
    \A c :
        /\ sq_lock'[c] = NoThread => QueueOf(c)' = sq_blocked'[c] /\ ~Dropped(c)'
        /\ \A t : sq_lock'[c] = t /\ t # NoThread =>
              /\ pc'[t] = "arm" => QueueOf(c)' = sq_blocked'[c] /\ ~Dropped(c)'
              /\ pc'[t] = "add" => QueueOf(c)' = Append(sq_blocked'[c], t) /\ ~Dropped(c)'
              /\ pc'[t] = "drop" => QueueOf(c)' = <<>> /\ Dropped(c)'
BY DEF QueueOf, Dropped

\* What is seen of a thread, by its step.
LEMMA PhaseTable ==
    \A u :
        /\ pc[u] = "add" => PhaseOf(u) = "waiting"
        /\ pc[u] \in Blocked /\ wchan[u] = NoCond => PhaseOf(u) = "signalled"
        /\ \A c : pc[u] \in Blocked /\ wchan[u] # NoCond /\ cv[u] = c =>
              PhaseOf(u) = IF Dropped(c) THEN "signalled" ELSE "waiting"
        /\ pc[u] = "relock" =>
              PhaseOf(u) = IF error[u] = "ETIMEDOUT" THEN "timedout"
                           ELSE IF error[u] = "ECANCELED" THEN "cancelled" ELSE "signalled"
        /\ pc[u] \in Outside => PhaseOf(u) = IF cancelling[u] THEN "gone" ELSE "run"
BY DEF PhaseOf, Blocked, Outside

\* The same after a step.
LEMMA PhaseTableNext ==
    \A u :
        /\ pc'[u] = "add" => PhaseOf(u)' = "waiting"
        /\ pc'[u] \in Blocked /\ wchan'[u] = NoCond => PhaseOf(u)' = "signalled"
        /\ \A c : pc'[u] \in Blocked /\ wchan'[u] # NoCond /\ cv'[u] = c =>
              PhaseOf(u)' = IF Dropped(c)' THEN "signalled" ELSE "waiting"
        /\ pc'[u] = "relock" =>
              PhaseOf(u)' = IF error'[u] = "ETIMEDOUT" THEN "timedout"
                            ELSE IF error'[u] = "ECANCELED" THEN "cancelled" ELSE "signalled"
        /\ pc'[u] \in Outside => PhaseOf(u)' = IF cancelling'[u] THEN "gone" ELSE "run"
BY DEF PhaseOf, Blocked, Outside, Dropped

\* What is seen of a wait.
LEMMA WaitTable ==
    \A u :
        /\ mp[u] = NoMutex => WaitOf(u) = Promise!NoWait
        /\ mp'[u] = NoMutex => WaitOf(u)' = Promise!NoWait
        /\ mp[u] # NoMutex => WaitOf(u) =
              [cond |-> cv[u], mutex |-> mp[u], depth |-> recurse[u], timed |-> timed[u]]
        /\ mp'[u] # NoMutex => WaitOf(u)' =
              [cond |-> cv'[u], mutex |-> mp'[u], depth |-> recurse'[u], timed |-> timed'[u]]
        /\ SameCall(u) => WaitOf(u)' = WaitOf(u)
BY DEF WaitOf, Promise!NoWait, SameCall

\* The monitor takes a waiter off its queue as SleepqRemove does.
LEMMA SameLists ==
    /\ \A q, u : Promise!Without(q, u) = ListErase(q, Position(q, u))
    /\ \A q : Promise!Range(q) = Range(q)
<1>1. \A q, i : Promise!ListErase(q, i) = ListErase(q, i)
  BY DEF Promise!ListErase, ListErase
<1>2. \A q, u : Promise!Without(q, u) = ListErase(q, Position(q, u))
  BY <1>1, ZenonT(30) DEF Promise!Without, Position
<1> QED BY <1>2 DEF Promise!Range, Range

\* A monitor nobody uses.
LEMMA InitRefines == Init => Promise!Init
<1> SUFFICES ASSUME Init PROVE Promise!Init
  OBVIOUS
<1>1. \A c \in Conds : QueueOf(c) = <<>>
  BY DEF Init, QueueOf, Dropped
<1>2. \A t \in Threads : PhaseOf(t) = "run"
  BY DEF Init, PhaseOf
<1>3. \A t \in Threads : WaitOf(t) = Promise!NoWait
  BY DEF Init, WaitOf, Promise!NoWait
<1> QED BY <1>1, <1>2, <1>3, ZenonT(30) DEF Init, Promise!Init, queueBar, phaseBar, waitBar

-------------------------------------------------------------------------------
(* The refinement: what a step does to what is seen *)

\* The variables the refinement reads are functions, and who has a lock is in a call.
LEMMA FunctionTypes ==
    ASSUME IInv
    PROVE  /\ pc \in [Threads -> Steps]
           /\ m_count \in [Mutexes -> 0..MaxRecursion]
           /\ sq_lock \in [Conds -> Threads \cup {NoThread}]
           /\ sq_blocked \in [Conds -> Seq(Threads)]
           /\ wchan \in [Threads -> Conds \cup {NoCond}]
           /\ cancelling \in [Threads -> BOOLEAN]
           /\ cv \in [Threads -> Conds \cup {NoCond}]
           /\ mp \in [Threads -> Mutexes \cup {NoMutex}]
           /\ recurse \in [Threads -> 0..MaxRecursion]
           /\ timed \in [Threads -> BOOLEAN]
           /\ error \in [Threads -> Errors]
BY Zenon DEF IInv, QueueMatchesWchan, TypeOK

\* A thread and its condition, by its step.
LEMMA Calls ==
    ASSUME IInv, NEW t \in Threads
    PROVE  /\ pc[t] \in InWait => cv[t] \in Conds /\ mp[t] \in Mutexes
           /\ pc[t] = "drop" => cv[t] \in Conds
           /\ pc[t] \notin InWait => mp[t] = NoMutex
           /\ pc[t] \in WithLock => sq_lock[cv[t]] = t
           /\ \A c \in Conds : sq_lock[c] = t => pc[t] \in WithLock /\ cv[t] = c
           /\ wchan[t] # NoCond => pc[t] \in Blocked /\ cv[t] = wchan[t]
           /\ pc[t] = "arm" => wchan[t] = cv[t]
<1>1. CallMatches /\ LockMatches /\ QueueMatchesWchan /\ ArmedIsQueued
  BY Zenon DEF IInv
<1>2. /\ pc[t] \in InWait => cv[t] \in Conds /\ mp[t] \in Mutexes
      /\ pc[t] = "drop" => cv[t] \in Conds
      /\ pc[t] \notin InWait => mp[t] = NoMutex
  BY <1>1, Zenon DEF CallMatches
<1>3. pc[t] \in WithLock => cv[t] \in Conds
  BY <1>2 DEF WithLock, InWait
<1>4. \A c \in Conds : sq_lock[c] = t <=> pc[t] \in WithLock /\ cv[t] = c
  BY <1>1, Zenon DEF LockMatches
<1>5. wchan[t] # NoCond => pc[t] \in Blocked /\ cv[t] = wchan[t]
  BY <1>1, Zenon DEF QueueMatchesWchan, Blocked
<1>6. pc[t] = "arm" => wchan[t] = cv[t]
  BY <1>1, Zenon DEF ArmedIsQueued
<1> QED BY <1>2, <1>3, <1>4, <1>5, <1>6, Zenon

\* A queue whose lock t has neither before nor after is seen as before.
LEMMA OtherQueues ==
    ASSUME IInv, NEW t \in Threads, \A u \in Threads \ {t} : pc'[u] = pc[u],
           NEW d \in Conds, sq_lock[d] # t, sq_lock'[d] = sq_lock[d], sq_blocked'[d] = sq_blocked[d]
    PROVE  QueueOf(d)' = QueueOf(d) /\ (Dropped(d)' <=> Dropped(d))
<1>1. sq_lock[d] # NoThread => pc'[sq_lock[d]] = pc[sq_lock[d]]
  <2>1. sq_lock[d] \in Threads \cup {NoThread}
    BY FunctionTypes, ZenonT(30)
  <2> QED BY <2>1
<1> QED BY <1>1, Zenon DEF QueueOf, Dropped

\* A thread that does not move is seen as before unless a broadcast on the condition it
\* waits for begins or ends.
LEMMA OtherThreads ==
    ASSUME IInv, NEW u \in Threads, SameThread(u),
           \A d \in Conds : wchan[u] = d => (Dropped(d)' <=> Dropped(d))
    PROVE  PhaseOf(u)' = PhaseOf(u) /\ WaitOf(u)' = WaitOf(u)
<1>1. WaitOf(u)' = WaitOf(u)
  BY WaitTable, Zenon DEF SameThread
<1>2. /\ pc'[u] = pc[u] /\ wchan'[u] = wchan[u] /\ cv'[u] = cv[u] /\ error'[u] = error[u]
      /\ cancelling'[u] = cancelling[u]
  BY Zenon DEF SameThread, SameCall
<1>3. CASE pc[u] \in Blocked
  <2>1. CASE wchan[u] = NoCond
    BY <1>1, <1>2, <1>3, <2>1, PhaseTable, PhaseTableNext, Zenon
  <2>2. CASE wchan[u] # NoCond
    <3>1. PICK c \in Conds : cv[u] = c /\ wchan[u] = c
      BY <2>2, Calls, FunctionTypes, SMTT(20)
    <3>2. PhaseOf(u) = IF Dropped(c) THEN "signalled" ELSE "waiting"
      BY <1>3, <2>2, <3>1, PhaseTable, Zenon
    <3>3. PhaseOf(u)' = IF Dropped(c)' THEN "signalled" ELSE "waiting"
      BY <1>2, <1>3, <2>2, <3>1, PhaseTableNext, Zenon
    <3>4. Dropped(c)' <=> Dropped(c)
      BY <3>1, ZenonT(30)
    <3> QED BY <1>1, <3>2, <3>3, <3>4, ZenonT(30)
  <2> QED BY <2>1, <2>2, Zenon
<1>4. CASE pc[u] = "add" \/ pc[u] = "relock"
  BY <1>1, <1>2, <1>4, PhaseTable, PhaseTableNext, Zenon
<1>5. CASE pc[u] \in Outside
  BY <1>1, <1>2, <1>5, PhaseTable, PhaseTableNext, Zenon
<1>6. pc[u] \in Steps
  BY FunctionTypes
<1> QED BY <1>3, <1>4, <1>5, <1>6, ZenonT(30) DEF Steps, Blocked, Outside

-------------------------------------------------------------------------------
(* The refinement: the steps of a wait *)

\* Between the mutex given up and the sleep nothing is seen: the waiter counts as queued.
LEMMA AddRefines ==
    ASSUME IInv, NEW t \in Threads, WaitAdd(t)
    PROVE  UNCHANGED Promise!monitorVars
<1>1. PICK c \in Conds : /\ cv[t] = c /\ pc[t] = "add" /\ sq_lock[c] = t
                        /\ \A d \in Conds \ {c} : sq_lock[d] # t
  BY Calls DEF WaitAdd, InWait, WithLock
<1>2. /\ sq_blocked' = [sq_blocked EXCEPT ![cv[t]] = Append(@, t)]
      /\ wchan' = [wchan EXCEPT ![t] = cv[t]]
      /\ pc' = [pc EXCEPT ![t] = "arm"]
      /\ UNCHANGED <<m_owner, m_count, sq_lock, cancel_pending, cancelling, cv, mp, recurse,
                     timed, error>>
  BY Zenon DEF WaitAdd, SleepqAdd, Goto, mutexVars, cancelVars, waitVars
<1>3. /\ pc'[t] = "arm" /\ wchan'[t] = c /\ cv'[t] = c /\ t # NoThread /\ c # NoCond
      /\ sq_lock'[c] = t /\ sq_blocked'[c] = Append(sq_blocked[c], t)
      /\ \A d \in Conds \ {c} : sq_lock'[d] = sq_lock[d] /\ sq_blocked'[d] = sq_blocked[d]
  BY <1>1, <1>2, FunctionTypes, ConstantsAssumption, ZenonT(30)
<1>4. \A u \in Threads \ {t} : SameThread(u) /\ pc'[u] = pc[u]
  BY <1>2, FunctionTypes, ZenonT(30) DEF SameThread, SameCall
<1>5. QueueOf(c)' = QueueOf(c) /\ ~Dropped(c) /\ ~Dropped(c)'
  BY <1>1, <1>3, QueueTable, QueueTableNext, SMTT(20)
<1>6. \A d \in Conds : QueueOf(d)' = QueueOf(d) /\ (Dropped(d)' <=> Dropped(d))
  BY <1>1, <1>3, <1>4, <1>5, OtherQueues
<1>7. PhaseOf(t) = "waiting" /\ PhaseOf(t)' = "waiting"
  BY <1>1, <1>3, <1>5, PhaseTable, PhaseTableNext, ZenonT(30) DEF Blocked
<1>8. WaitOf(t)' = WaitOf(t)
  BY <1>2, WaitTable, Zenon DEF SameCall
<1>9. \A u \in Threads \ {t} : PhaseOf(u)' = PhaseOf(u) /\ WaitOf(u)' = WaitOf(u)
  BY <1>4, <1>6, OtherThreads, ZenonT(30)
<1> QED BY <1>2, <1>6, <1>7, <1>8, <1>9, Stutter, Zenon DEF SameQueues, SamePhases, SameWaits

\* So is falling asleep, whether or not a request is there.
LEMMA ArmRefines ==
    ASSUME IInv, NEW t \in Threads, WaitArm(t)
    PROVE  UNCHANGED Promise!monitorVars
<1>1. PICK c \in Conds : /\ cv[t] = c /\ pc[t] = "arm" /\ sq_lock[c] = t /\ wchan[t] = c
                        /\ \A d \in Conds \ {c} : sq_lock[d] # t
  BY Calls DEF WaitArm, InWait, WithLock
<1>2. /\ sq_lock' = [sq_lock EXCEPT ![cv[t]] = NoThread]
      /\ pc' = [pc EXCEPT ![t] = "woken"] \/ pc' = [pc EXCEPT ![t] = "sleep"]
      /\ error' = error \/ error' = [error EXCEPT ![t] = "0"]
      /\ UNCHANGED <<m_owner, m_count, sq_blocked, wchan, cancel_pending, cancelling, cv, mp,
                     recurse, timed>>
  BY Zenon DEF WaitArm, Goto, mutexVars, cancelVars
<1>3. /\ pc'[t] \in Blocked /\ wchan'[t] = c /\ cv'[t] = c /\ t # NoThread /\ c # NoCond
      /\ sq_lock'[c] = NoThread /\ sq_blocked'[c] = sq_blocked[c]
      /\ \A d \in Conds \ {c} : sq_lock'[d] = sq_lock[d] /\ sq_blocked'[d] = sq_blocked[d]
  BY <1>1, <1>2, FunctionTypes, ConstantsAssumption, ZenonT(30) DEF Blocked
<1>4. \A u \in Threads \ {t} : SameThread(u) /\ pc'[u] = pc[u]
  BY <1>2, FunctionTypes, ZenonT(30) DEF SameThread, SameCall
<1>5. QueueOf(c)' = QueueOf(c) /\ ~Dropped(c) /\ ~Dropped(c)'
  BY <1>1, <1>3, QueueTable, QueueTableNext, SMTT(20)
<1>6. \A d \in Conds : QueueOf(d)' = QueueOf(d) /\ (Dropped(d)' <=> Dropped(d))
  BY <1>1, <1>3, <1>4, <1>5, OtherQueues, ZenonT(30)
<1>7. PhaseOf(t) = "waiting" /\ PhaseOf(t)' = "waiting"
  <2>1. pc[t] \in Blocked /\ cv[t] = c
    BY <1>1 DEF Blocked
  <2> QED BY <1>1, <1>3, <1>5, <2>1, PhaseTable, PhaseTableNext, ZenonT(30)
<1>8. WaitOf(t)' = WaitOf(t)
  BY <1>2, WaitTable, Zenon DEF SameCall
<1>9. \A u \in Threads \ {t} : PhaseOf(u)' = PhaseOf(u) /\ WaitOf(u)' = WaitOf(u)
  BY <1>4, <1>6, OtherThreads
<1> QED BY <1>2, <1>6, <1>7, <1>8, <1>9, Stutter, Zenon DEF SameQueues, SamePhases, SameWaits

\* A waiter that was taken off the queue learns of it: it was signalled before.
LEMMA SignalledRefines ==
    ASSUME IInv, NEW t \in Threads, RecheckSignalled(t)
    PROVE  UNCHANGED Promise!monitorVars
<1>1. /\ pc[t] = "woken" /\ wchan[t] = NoCond
      /\ pc' = [pc EXCEPT ![t] = "relock"] /\ error' = [error EXCEPT ![t] = "0"]
      /\ UNCHANGED <<m_owner, m_count, sq_lock, sq_blocked, wchan, cancel_pending, cancelling,
                     cv, mp, recurse, timed>>
  BY Zenon DEF RecheckSignalled, Goto, mutexVars, cancelVars, queueVars
<1>2. \A d \in Conds : sq_lock[d] # t
  BY <1>1, Calls, ZenonT(30) DEF WithLock
<1>3. pc'[t] = "relock" /\ error'[t] = "0" /\ pc[t] \in Blocked
  BY <1>1, FunctionTypes, ZenonT(30) DEF Blocked
<1>4. \A u \in Threads \ {t} : SameThread(u) /\ pc'[u] = pc[u]
  BY <1>1, FunctionTypes, ZenonT(30) DEF SameThread, SameCall
<1>6. \A d \in Conds : QueueOf(d)' = QueueOf(d) /\ (Dropped(d)' <=> Dropped(d))
  BY <1>1, <1>2, <1>4, OtherQueues, ZenonT(30)
<1>7. PhaseOf(t) = "signalled" /\ PhaseOf(t)' = "signalled"
  BY <1>1, <1>3, PhaseTable, PhaseTableNext, ZenonT(30)
<1>8. WaitOf(t)' = WaitOf(t)
  BY <1>1, WaitTable, Zenon DEF SameCall
<1>9. \A u \in Threads \ {t} : PhaseOf(u)' = PhaseOf(u) /\ WaitOf(u)' = WaitOf(u)
  BY <1>4, <1>6, OtherThreads, ZenonT(30)
<1> QED BY <1>1, <1>6, <1>7, <1>8, <1>9, Stutter, Zenon DEF SameQueues, SamePhases, SameWaits

\* A waiter that nobody woke for a reason goes back to the head of the loop.
LEMMA AgainRefines ==
    ASSUME IInv, NEW t \in Threads, RecheckAgain(t)
    PROVE  UNCHANGED Promise!monitorVars
<1>1. PICK c \in Conds : /\ cv[t] = c /\ pc[t] = "woken" /\ sq_lock[c] = NoThread /\ wchan[t] = c
                        /\ \A d \in Conds : sq_lock[d] # t
  <2>1. pc[t] = "woken" /\ sq_lock[cv[t]] = NoThread /\ wchan[t] # NoCond
    BY Zenon DEF RecheckAgain
  <2> QED BY <2>1, Calls, ZenonT(30) DEF InWait, WithLock
<1>2. /\ sq_lock' = [sq_lock EXCEPT ![cv[t]] = t]
      /\ pc' = [pc EXCEPT ![t] = "arm"]
      /\ UNCHANGED <<m_owner, m_count, sq_blocked, wchan, cancel_pending, cancelling, cv, mp,
                     recurse, timed, error>>
  BY Zenon DEF RecheckAgain, Goto, mutexVars, cancelVars, waitVars
<1>3. /\ pc'[t] = "arm" /\ wchan'[t] = c /\ cv'[t] = c /\ t # NoThread /\ c # NoCond
      /\ sq_lock'[c] = t /\ sq_blocked'[c] = sq_blocked[c]
      /\ \A d \in Conds \ {c} : sq_lock'[d] = sq_lock[d] /\ sq_blocked'[d] = sq_blocked[d]
  BY <1>1, <1>2, FunctionTypes, ConstantsAssumption, ZenonT(30)
<1>4. \A u \in Threads \ {t} : SameThread(u) /\ pc'[u] = pc[u]
  BY <1>2, FunctionTypes, ZenonT(30) DEF SameThread, SameCall
<1>5. QueueOf(c)' = QueueOf(c) /\ ~Dropped(c) /\ ~Dropped(c)'
  BY <1>1, <1>3, QueueTable, QueueTableNext, SMTT(20)
<1>6. \A d \in Conds : QueueOf(d)' = QueueOf(d) /\ (Dropped(d)' <=> Dropped(d))
  BY <1>1, <1>3, <1>4, <1>5, OtherQueues, ZenonT(30)
<1>7. PhaseOf(t) = "waiting" /\ PhaseOf(t)' = "waiting"
  <2>1. pc[t] \in Blocked /\ pc'[t] \in Blocked /\ cv[t] = c
    BY <1>1, <1>3, ZenonT(30) DEF Blocked
  <2> QED BY <1>1, <1>3, <1>5, <2>1, PhaseTable, PhaseTableNext, ZenonT(30)
<1>8. WaitOf(t)' = WaitOf(t)
  BY <1>2, WaitTable, Zenon DEF SameCall
<1>9. \A u \in Threads \ {t} : PhaseOf(u)' = PhaseOf(u) /\ WaitOf(u)' = WaitOf(u)
  BY <1>4, <1>6, OtherThreads
<1> QED BY <1>2, <1>6, <1>7, <1>8, <1>9, Stutter, Zenon DEF SameQueues, SamePhases, SameWaits

\* A waiter still on the queue leaves it by itself, cancelled or timed out.
LEMMA GiveUpRefines ==
    ASSUME IInv, NEW t \in Threads, RecheckGiveUp(t)
    PROVE  Promise!Next
<1>1. PICK c \in Conds : /\ cv[t] = c /\ pc[t] = "woken" /\ sq_lock[c] = NoThread /\ wchan[t] = c
                        /\ \A d \in Conds : sq_lock[d] # t
                        /\ mp[t] \in Mutexes
  <2>1. pc[t] = "woken" /\ sq_lock[cv[t]] = NoThread /\ wchan[t] # NoCond
    BY Zenon DEF RecheckGiveUp
  <2> QED BY <2>1, Calls, ZenonT(30) DEF InWait, WithLock
<1> DEFINE r == ListErase(sq_blocked[c], Position(sq_blocked[c], t))
<1>2. /\ sq_blocked' = [sq_blocked EXCEPT ![c] = r]
      /\ wchan' = [wchan EXCEPT ![t] = NoCond]
      /\ pc' = [pc EXCEPT ![t] = "relock"]
      /\ UNCHANGED <<m_owner, m_count, sq_lock, cancel_pending, cancelling, cv, mp, recurse, timed>>
  BY <1>1 DEF RecheckGiveUp, SleepqRemove, Goto, mutexVars, cancelVars
<1>3. /\ ShouldCancel(t) \/ error[t] = "ETIMEDOUT"
      /\ error' = [error EXCEPT ![t] = IF ShouldCancel(t) THEN "ECANCELED" ELSE @]
  BY Zenon DEF RecheckGiveUp
<1>4. r = Promise!Without(sq_blocked[c], t)
  BY SameLists, Zenon
<1> HIDE DEF r
<1>5. /\ pc'[t] = "relock" /\ c # NoCond /\ pc[t] \in Blocked
      /\ sq_lock'[c] = NoThread /\ sq_blocked'[c] = r
      /\ \A d \in Conds \ {c} : sq_lock'[d] = sq_lock[d] /\ sq_blocked'[d] = sq_blocked[d]
  BY <1>1, <1>2, FunctionTypes, ConstantsAssumption, ZenonT(30) DEF Blocked
<1>6. error'[t] = IF ShouldCancel(t) THEN "ECANCELED" ELSE "ETIMEDOUT"
  BY <1>3, FunctionTypes, ZenonT(30)
<1>7. \A u \in Threads \ {t} : SameThread(u) /\ pc'[u] = pc[u]
  BY <1>2, <1>3, FunctionTypes, ZenonT(30) DEF SameThread, SameCall
<1>8. QueueOf(c) = sq_blocked[c] /\ QueueOf(c)' = r /\ ~Dropped(c) /\ ~Dropped(c)'
  BY <1>1, <1>5, QueueTable, QueueTableNext, ZenonT(30)
<1>9. \A d \in Conds \ {c} : QueueOf(d)' = QueueOf(d) /\ (Dropped(d)' <=> Dropped(d))
  BY <1>1, <1>5, <1>7, OtherQueues, ZenonT(30)
<1>10. \A d \in Conds : Dropped(d)' <=> Dropped(d)
  BY <1>8, <1>9, ZenonT(30)
<1>11. \A u \in Threads \ {t} : PhaseOf(u)' = PhaseOf(u) /\ WaitOf(u)' = WaitOf(u)
  BY <1>7, <1>10, OtherThreads, ZenonT(30)
<1>12. WaitOf(t)' = WaitOf(t)
  BY <1>2, WaitTable, Zenon DEF SameCall
<1>13. /\ PhaseOf(t) = "waiting"
       /\ PhaseOf(t)' = IF ShouldCancel(t) THEN "cancelled" ELSE "timedout"
  BY <1>1, <1>5, <1>6, <1>8, PhaseTable, PhaseTableNext, ZenonT(30)
<1>14. queueBar' = [queueBar EXCEPT ![c] = r] /\ queueBar[c] = sq_blocked[c]
  BY <1>8, <1>9, BarSteps, SMTT(20)
<1>15. queueBar' = [queueBar EXCEPT ![c] = Promise!Without(@, t)]
  BY <1>4, <1>14, ZenonT(30)
<1>16. phaseBar[t] = "waiting" /\ UNCHANGED waitBar
  BY <1>11, <1>12, <1>13, BarSteps, SameBars, ZenonT(30) DEF SameWaits
<1>17. waitBar[t].cond = c /\ waitBar[t].timed = timed[t]
  <2>1. mp[t] # NoMutex
    BY <1>1, ConstantsAssumption, ZenonT(30)
  <2>2. waitBar[t] = [cond |-> cv[t], mutex |-> mp[t], depth |-> recurse[t], timed |-> timed[t]]
    BY <2>1, WaitTable, BarSteps, ZenonT(30)
  <2> QED BY <1>1, <2>2, SMTT(20)
<1>18. CASE ShouldCancel(t)
  <2>1. phaseBar' = [phaseBar EXCEPT ![t] = "cancelled"]
    BY <1>11, <1>13, <1>18, BarSteps, SMTT(20)
  <2>2. cancel_pending[t]
    BY <1>18, ZenonT(30) DEF ShouldCancel
  <2>3. Promise!BeCancelled(t)
    BY <1>2, <1>15, <1>16, <1>17, <2>1, <2>2, ZenonT(30) DEF Promise!BeCancelled, Promise!Leave
  <2> QED BY <2>3, ZenonT(30) DEF Promise!Next
<1>19. CASE ~ShouldCancel(t)
  <2>1. phaseBar' = [phaseBar EXCEPT ![t] = "timedout"]
    BY <1>11, <1>13, <1>19, BarSteps, SMTT(20)
  <2>2. timed[t]
    BY <1>1, <1>3, <1>19, ZenonT(30) DEF IInv, CallMatches
  <2>3. Promise!TimeOut(t)
    BY <1>2, <1>15, <1>16, <1>17, <2>1, <2>2, ZenonT(30) DEF Promise!TimeOut, Promise!Leave
  <2> QED BY <2>3, ZenonT(30) DEF Promise!Next
<1> QED BY <1>18, <1>19, Zenon

\* The end of a wait takes the mutex at the depth it was given up with.
LEMMA RelockRefines ==
    ASSUME IInv, NEW t \in Threads, Relock(t)
    PROVE  Promise!Next
<1>1. pc[t] = "relock"
  BY Zenon DEF Relock
<1>2. PICK m \in Mutexes : mp[t] = m
  BY <1>1, Calls, ZenonT(30) DEF InWait
<1>3. /\ m_owner[m] = NoThread
      /\ m_owner' = [m_owner EXCEPT ![m] = t]
      /\ m_count' = [m_count EXCEPT ![m] = recurse[t]]
      /\ UNCHANGED <<sq_lock, sq_blocked, wchan, cancel_pending>>
  BY <1>2, ZenonT(30) DEF Relock, queueVars
<1>4. /\ cancelling' = [cancelling EXCEPT ![t] = error[t] = "ECANCELED"]
      /\ cv' = [cv EXCEPT ![t] = NoCond]
      /\ mp' = [mp EXCEPT ![t] = NoMutex]
      /\ recurse' = [recurse EXCEPT ![t] = 0]
      /\ timed' = [timed EXCEPT ![t] = FALSE]
      /\ error' = [error EXCEPT ![t] = "none"]
      /\ pc' = [pc EXCEPT ![t] = "run"]
  BY Zenon DEF Relock, Goto
<1>5. pc'[t] \in Outside /\ mp'[t] = NoMutex /\ (cancelling'[t] <=> error[t] = "ECANCELED")
  BY <1>4, FunctionTypes, Zenon DEF Outside
<1>6. \A u \in Threads \ {t} : SameThread(u) /\ pc'[u] = pc[u]
  BY <1>3, <1>4, FunctionTypes, ZenonT(30) DEF SameThread, SameCall
<1>7. \A d \in Conds : sq_lock[d] # t
  BY <1>1, Calls, ZenonT(30) DEF WithLock
<1>8. \A d \in Conds : QueueOf(d)' = QueueOf(d) /\ (Dropped(d)' <=> Dropped(d))
  BY <1>3, <1>6, <1>7, OtherQueues, ZenonT(30)
<1>9. \A u \in Threads \ {t} : PhaseOf(u)' = PhaseOf(u) /\ WaitOf(u)' = WaitOf(u)
  BY <1>6, <1>8, OtherThreads, ZenonT(30)
<1>10. /\ PhaseOf(t) \in {"signalled", "timedout", "cancelled"}
       /\ PhaseOf(t) = "cancelled" <=> error[t] = "ECANCELED"
  BY <1>1, PhaseTable, ZenonT(30)
<1>11. PhaseOf(t)' = IF PhaseOf(t) = "cancelled" THEN "gone" ELSE "run"
  BY <1>5, <1>10, PhaseTableNext, ZenonT(30)
<1>12. /\ phaseBar[t] \in {"signalled", "timedout", "cancelled"}
       /\ phaseBar' = [phaseBar EXCEPT ![t] = IF @ = "cancelled" THEN "gone" ELSE "run"]
  BY <1>9, <1>10, <1>11, BarSteps, SMTT(20)
<1>13. waitBar' = [waitBar EXCEPT ![t] = Promise!NoWait]
  BY <1>5, <1>9, WaitTable, BarSteps, SMTT(20)
<1>14. waitBar[t].mutex = m /\ waitBar[t].depth = recurse[t]
  <2>1. mp[t] # NoMutex
    BY <1>2, ConstantsAssumption, ZenonT(30)
  <2>2. waitBar[t] = [cond |-> cv[t], mutex |-> mp[t], depth |-> recurse[t], timed |-> timed[t]]
    BY <2>1, WaitTable, BarSteps, ZenonT(30)
  <2> QED BY <1>2, <2>2
<1>15. UNCHANGED queueBar
  BY <1>8, SameBars, ZenonT(30) DEF SameQueues
<1>16. Promise!Resume(t)
  BY <1>3, <1>12, <1>13, <1>14, <1>15, ZenonT(30) DEF Promise!Resume
<1> QED BY <1>16, ZenonT(30) DEF Promise!Next

-------------------------------------------------------------------------------
(* The refinement: waiting, signalling and broadcasting *)

\* Where a thread is that begins one of these calls.
LEMMA Begins ==
    ASSUME IInv, NEW t \in Threads, NEW c \in Conds, pc[t] = "run", ~cancelling[t],
           sq_lock[c] = NoThread
    PROVE  /\ \A d \in Conds : sq_lock[d] # t
           /\ mp[t] = NoMutex
           /\ QueueOf(c) = sq_blocked[c] /\ ~Dropped(c)
           /\ PhaseOf(t) = "run"
           /\ wchan[t] = NoCond
           /\ phaseBar[t] = "run" /\ queueBar[c] = sq_blocked[c]
<1>1. (\A d \in Conds : sq_lock[d] # t) /\ mp[t] = NoMutex /\ wchan[t] = NoCond
  BY Calls, ZenonT(30) DEF WithLock, InWait, Blocked
<1>2. QueueOf(c) = sq_blocked[c] /\ ~Dropped(c)
  BY QueueTable, ZenonT(30)
<1>3. PhaseOf(t) = "run"
  BY PhaseTable, ZenonT(30) DEF Outside
<1> QED BY <1>1, <1>2, <1>3, BarSteps, Zenon

\* Waiting is atomic: the mutex is given up and the thread queued in one step.
LEMMA WaitRefines ==
    ASSUME IInv, NEW t \in Threads, NEW c \in Conds, NEW m \in Mutexes, NEW b \in Deadlines,
           WaitBegin(t, c, m, b)
    PROVE  Promise!Next
<1>1. pc[t] = "run" /\ ~cancelling[t] /\ sq_lock[c] = NoThread /\ m_owner[m] = t
  BY Zenon DEF WaitBegin, Running
<1>2. /\ m_owner' = [m_owner EXCEPT ![m] = NoThread]
      /\ m_count' = [m_count EXCEPT ![m] = 0]
      /\ sq_lock' = [sq_lock EXCEPT ![c] = t]
      /\ UNCHANGED <<sq_blocked, wchan, cancel_pending, cancelling, error>>
  BY Zenon DEF WaitBegin, cancelVars
<1>3. /\ recurse' = [recurse EXCEPT ![t] = m_count[m]]
      /\ cv' = [cv EXCEPT ![t] = c]
      /\ mp' = [mp EXCEPT ![t] = m]
      /\ timed' = [timed EXCEPT ![t] = b]
      /\ pc' = [pc EXCEPT ![t] = "add"]
  BY Zenon DEF WaitBegin, Goto
<1>4. /\ pc'[t] = "add" /\ sq_lock'[c] = t /\ t # NoThread /\ sq_blocked'[c] = sq_blocked[c]
      /\ \A d \in Conds \ {c} : sq_lock'[d] = sq_lock[d] /\ sq_blocked'[d] = sq_blocked[d]
  BY <1>2, <1>3, FunctionTypes, ConstantsAssumption, ZenonT(30)
<1>5. \A u \in Threads \ {t} : SameThread(u) /\ pc'[u] = pc[u]
  BY <1>2, <1>3, FunctionTypes, ZenonT(30) DEF SameThread, SameCall
<1>6. QueueOf(c)' = Append(sq_blocked[c], t) /\ ~Dropped(c)'
  BY <1>4, QueueTableNext, ZenonT(30)
<1>7. /\ ~Dropped(c) /\ \A d \in Conds : sq_lock[d] # t
      /\ phaseBar[t] = "run" /\ queueBar[c] = sq_blocked[c]
  BY <1>1, Begins, Zenon
<1>8. \A d \in Conds \ {c} : QueueOf(d)' = QueueOf(d) /\ (Dropped(d)' <=> Dropped(d))
  BY <1>4, <1>5, <1>7, OtherQueues, ZenonT(30)
<1>9. \A d \in Conds : Dropped(d)' <=> Dropped(d)
  BY <1>6, <1>7, <1>8, ZenonT(30)
<1>10. \A u \in Threads \ {t} : PhaseOf(u)' = PhaseOf(u) /\ WaitOf(u)' = WaitOf(u)
  BY <1>5, <1>9, OtherThreads, ZenonT(30)
<1>11. PhaseOf(t)' = "waiting"
  BY <1>4, PhaseTableNext, ZenonT(30)
<1> DEFINE w == [cond |-> c, mutex |-> m, depth |-> m_count[m], timed |-> b]
<1>12. WaitOf(t)' = w
  <2>1. /\ mp'[t] = m /\ m # NoMutex
        /\ cv'[t] = c /\ recurse'[t] = m_count[m] /\ timed'[t] = b
    BY <1>3, FunctionTypes, ConstantsAssumption, ZenonT(30)
  <2> QED BY <2>1, WaitTable, ZenonT(30)
<1>13. queueBar' = [queueBar EXCEPT ![c] = Append(@, t)]
  BY <1>6, <1>7, <1>8, BarSteps, ZenonT(30)
<1>14. phaseBar' = [phaseBar EXCEPT ![t] = "waiting"]
  BY <1>10, <1>11, BarSteps, ZenonT(30)
<1>15. waitBar' = [waitBar EXCEPT ![t] = w]
  <2> HIDE DEF w
  <2> QED BY <1>10, <1>12, BarSteps, ZenonT(30)
<1>16. Promise!Wait(t, c, m, b)
  BY <1>1, <1>2, <1>7, <1>13, <1>14, <1>15, ZenonT(30) DEF Promise!Wait
<1>17. b \in BOOLEAN
  BY ConstantsAssumption, ZenonT(30)
<1> QED BY <1>16, <1>17, ZenonT(30) DEF Promise!Next

\* A signal takes one waiter off the queue.
LEMMA TakenRefines ==
    ASSUME IInv, NEW t \in Threads, NEW c \in Conds, NEW td \in Threads, Taken(t, c, td)
    PROVE  Promise!Next
<1>1. pc[t] = "run" /\ ~cancelling[t] /\ sq_lock[c] = NoThread /\ wchan[td] = c
  BY Zenon DEF Taken, Running
<1>2. TypeOK /\ QueueMatchesWchan
  BY Zenon DEF IInv, QueueMatchesWchan
<1>3. td \in Range(sq_blocked[c])
  BY <1>1, <1>2, Zenon DEF QueueMatchesWchan
<1> DEFINE r == ListErase(sq_blocked[c], Position(sq_blocked[c], td))
<1>4. /\ sq_blocked' = [sq_blocked EXCEPT ![c] = r]
      /\ wchan' = [wchan EXCEPT ![td] = NoCond]
  BY Zenon DEF Taken, Dequeue, SleepqRemove
<1>5. /\ UNCHANGED <<m_owner, m_count, sq_lock, cancel_pending, cancelling, cv, mp, recurse,
                     timed, error>>
      /\ pc'[t] \in {"run", "release"} /\ \A u \in Threads \ {t} : pc'[u] = pc[u]
  BY <1>2, TakenFacts, Zenon DEF Moves, cancelVars, waitVars
<1>6. r = Promise!Without(sq_blocked[c], td)
  BY SameLists, Zenon
<1> HIDE DEF r
<1>7. /\ ~Dropped(c) /\ \A d \in Conds : sq_lock[d] # t
      /\ queueBar[c] = sq_blocked[c] /\ PhaseOf(t) = "run" /\ wchan[t] = NoCond
  BY <1>1, Begins, Zenon
<1>8. td # t /\ pc[td] \in Blocked
  BY <1>1, <1>7, Calls, ConstantsAssumption, ZenonT(30)
<1>9. /\ wchan'[td] = NoCond /\ pc'[td] \in Blocked /\ sq_blocked'[c] = r /\ sq_lock'[c] = NoThread
      /\ \A d \in Conds \ {c} : sq_blocked'[d] = sq_blocked[d]
      /\ \A u \in Threads \ {td} : wchan'[u] = wchan[u]
  BY <1>1, <1>4, <1>5, <1>8, FunctionTypes, ZenonT(30)
<1>10. QueueOf(c)' = r /\ ~Dropped(c)'
  BY <1>9, QueueTableNext, ZenonT(30)
<1>11. \A d \in Conds \ {c} : QueueOf(d)' = QueueOf(d) /\ (Dropped(d)' <=> Dropped(d))
  BY <1>5, <1>7, <1>9, OtherQueues, ZenonT(30)
<1>12. \A d \in Conds : Dropped(d)' <=> Dropped(d)
  BY <1>7, <1>10, <1>11, ZenonT(30)
<1>13. \A u \in Threads : WaitOf(u)' = WaitOf(u)
  BY <1>5, WaitTable, Zenon DEF SameCall
<1>14. \A u \in Threads \ {t, td} : PhaseOf(u)' = PhaseOf(u)
  <2>1. \A u \in Threads \ {t, td} : SameThread(u)
    BY <1>5, <1>9, ZenonT(30) DEF SameThread, SameCall
  <2> QED BY <1>12, <2>1, OtherThreads, ZenonT(30)
<1>15. PhaseOf(t)' = "run"
  <2>1. pc'[t] \in Outside /\ ~cancelling'[t]
    BY <1>1, <1>5, ZenonT(30) DEF Outside
  <2> QED BY <2>1, PhaseTableNext, ZenonT(30)
<1>16. PhaseOf(td)' = "signalled"
  BY <1>9, PhaseTableNext, ZenonT(30)
<1>17. phaseBar' = [phaseBar EXCEPT ![td] = "signalled"]
  BY <1>7, <1>14, <1>15, <1>16, BarSteps, SMTT(20)
<1>18. queueBar' = [queueBar EXCEPT ![c] = Promise!Without(@, td)]
  <2>1. queueBar' = [queueBar EXCEPT ![c] = r]
    BY <1>10, <1>11, BarSteps, SMTT(20)
  <2> QED BY <1>6, <1>7, <2>1, ZenonT(30)
<1>19. UNCHANGED waitBar
  BY <1>13, SameBars, Zenon DEF SameWaits
<1>20. td \in Promise!Range(queueBar[c])
  BY <1>3, <1>7, SameLists, Zenon
<1>21. Promise!SignalTo(c, td)
  BY <1>5, <1>17, <1>18, <1>19, <1>20, ZenonT(30) DEF Promise!SignalTo, Promise!Leave
<1> QED BY <1>21 DEF Promise!Next

\* A broadcast is seen to take all waiters when it takes the lock of the queue.
LEMMA BroadcastRefines ==
    ASSUME IInv, NEW t \in Threads, NEW c \in Conds, BroadcastBegin(t, c)
    PROVE  Promise!Next
<1>1. pc[t] = "run" /\ ~cancelling[t] /\ sq_lock[c] = NoThread /\ sq_blocked[c] # <<>>
  BY Zenon DEF BroadcastBegin, Running
<1>2. /\ sq_lock' = [sq_lock EXCEPT ![c] = t]
      /\ cv' = [cv EXCEPT ![t] = c]
      /\ pc' = [pc EXCEPT ![t] = "drop"]
      /\ UNCHANGED <<m_owner, m_count, sq_blocked, wchan, cancel_pending, cancelling, mp,
                     recurse, timed, error>>
  BY Zenon DEF BroadcastBegin, Goto, mutexVars, cancelVars
<1>3. /\ pc'[t] = "drop" /\ sq_lock'[c] = t /\ t # NoThread /\ ~cancelling'[t]
      /\ \A d \in Conds \ {c} : sq_lock'[d] = sq_lock[d] /\ sq_blocked'[d] = sq_blocked[d]
  BY <1>1, <1>2, FunctionTypes, ConstantsAssumption, ZenonT(30)
<1>4. \A u \in Threads \ {t} : SameThread(u) /\ pc'[u] = pc[u]
  BY <1>2, FunctionTypes, ZenonT(30) DEF SameThread, SameCall
<1>5. /\ \A d \in Conds : sq_lock[d] # t
      /\ mp[t] = NoMutex /\ PhaseOf(t) = "run" /\ wchan[t] = NoCond /\ queueBar[c] = sq_blocked[c]
  BY <1>1, Begins, Zenon
<1>6. QueueOf(c)' = <<>> /\ Dropped(c)'
  BY <1>3, QueueTableNext, ZenonT(30)
<1>7. \A d \in Conds \ {c} : QueueOf(d)' = QueueOf(d) /\ (Dropped(d)' <=> Dropped(d))
  BY <1>3, <1>4, <1>5, OtherQueues, ZenonT(30)
<1>8. \A u \in Threads : u \in Range(sq_blocked[c]) <=> wchan[u] = c
  BY Zenon DEF IInv, QueueMatchesWchan
<1>9. PhaseOf(t)' = "run" /\ wchan[t] # c
  <2>1. pc'[t] \in Outside
    BY <1>3, ZenonT(30) DEF Outside
  <2> QED BY <1>3, <1>5, <2>1, PhaseTableNext, ConstantsAssumption, ZenonT(30)
<1>10. ASSUME NEW u \in Threads \ {t}, wchan[u] = c PROVE PhaseOf(u)' = "signalled"
  <2>1. pc'[u] \in Blocked /\ cv'[u] = c /\ wchan'[u] # NoCond
    <3>1. pc[u] \in Blocked /\ cv[u] = c /\ c # NoCond
      BY <1>10, Calls, ConstantsAssumption, ZenonT(30)
    <3> QED BY <1>4, <1>10, <3>1, Zenon DEF SameThread, SameCall
  <2> QED BY <1>6, <2>1, PhaseTableNext, ZenonT(30)
<1>11. ASSUME NEW u \in Threads \ {t}, wchan[u] # c PROVE PhaseOf(u)' = PhaseOf(u)
  <2>1. SameThread(u) /\ \A d \in Conds : wchan[u] = d => (Dropped(d)' <=> Dropped(d))
    BY <1>4, <1>7, <1>11, ZenonT(30)
  <2> QED BY <2>1, OtherThreads, ZenonT(30)
<1>12. \A u \in Threads : PhaseOf(u)' = IF u \in Range(sq_blocked[c]) THEN "signalled" ELSE PhaseOf(u)
  BY <1>5, <1>8, <1>9, <1>10, <1>11, ZenonT(30)
<1>13. phaseBar' = [u \in Threads |-> IF u \in Promise!Range(queueBar[c]) THEN "signalled" ELSE phaseBar[u]]
  <2>1. Promise!Range(queueBar[c]) = Range(sq_blocked[c])
    BY <1>5, SameLists, ZenonT(30)
  <2>2. \A u \in Threads : phaseBar[u] = PhaseOf(u)
    BY BarSteps, ZenonT(30)
  <2> QED BY <1>12, <2>1, <2>2, ZenonT(30) DEF phaseBar
<1>14. queueBar' = [queueBar EXCEPT ![c] = <<>>]
  BY <1>6, <1>7, BarSteps, SMTT(20)
<1>15. UNCHANGED waitBar
  <2>1. \A u \in Threads \ {t} : WaitOf(u)' = WaitOf(u)
    BY <1>4, WaitTable, Zenon DEF SameThread
  <2>2. WaitOf(t)' = WaitOf(t)
    BY <1>2, <1>5, WaitTable, ZenonT(30)
  <2> QED BY <2>1, <2>2, SameBars, ZenonT(30) DEF SameWaits
<1>16. Promise!Broadcast(c)
  BY <1>1, <1>2, <1>5, <1>13, <1>14, <1>15, ZenonT(30) DEF Promise!Broadcast
<1> QED BY <1>16, ZenonT(30) DEF Promise!Next

\* Taking the waiters off one by one is not seen: they were signalled when it began.
LEMMA DropRefines ==
    ASSUME IInv, NEW t \in Threads, BroadcastDrop(t)
    PROVE  UNCHANGED Promise!monitorVars
<1>1. PICK c \in Conds : cv[t] = c /\ pc[t] = "drop" /\ sq_lock[c] = t
  BY Calls, ZenonT(30) DEF BroadcastDrop, WithLock
<1>2. sq_blocked[c] \in Seq(Threads) /\ sq_blocked[c] # <<>>
  BY <1>1, FunctionTypes, ZenonT(30) DEF BroadcastDrop
<1>3. PICK td \in Threads : td = Head(sq_blocked[c]) /\ td \in Range(sq_blocked[c])
  BY <1>2, Popped, ZenonT(30)
<1>4. /\ sq_blocked' = [sq_blocked EXCEPT ![c] = Tail(@)]
      /\ wchan' = [wchan EXCEPT ![td] = NoCond]
      /\ UNCHANGED <<m_owner, m_count, sq_lock, cancel_pending, cancelling, cv, mp, recurse,
                     timed, error, pc>>
  BY <1>1, <1>3, ZenonT(30) DEF BroadcastDrop, cancelVars, waitVars
<1>5. wchan[td] = c /\ c # NoCond
  BY <1>3, ConstantsAssumption, ZenonT(30) DEF IInv, QueueMatchesWchan
<1>6. /\ pc[td] \in Blocked /\ cv[td] = c /\ wchan'[td] = NoCond
      /\ \A d \in Conds \ {c} : sq_blocked'[d] = sq_blocked[d]
      /\ \A u \in Threads \ {td} : SameThread(u)
  <2>1. pc[td] \in Blocked /\ cv[td] = c
    BY <1>5, Calls, ZenonT(30)
  <2> QED BY <1>4, <2>1, FunctionTypes, ZenonT(30) DEF SameThread, SameCall
<1>7. QueueOf(c) = <<>> /\ Dropped(c) /\ QueueOf(c)' = <<>> /\ Dropped(c)'
  <2>1. t # NoThread
    BY ConstantsAssumption, ZenonT(30)
  <2> QED BY <1>1, <1>4, <2>1, QueueTable, QueueTableNext, ZenonT(30)
<1>8. \A d \in Conds \ {c} : QueueOf(d)' = QueueOf(d) /\ (Dropped(d)' <=> Dropped(d))
  <2>1. \A d \in Conds \ {c} : sq_lock[d] # t
    BY <1>1, Calls, ZenonT(30)
  <2> QED BY <1>4, <1>6, <2>1, OtherQueues, ZenonT(30)
<1>9. \A d \in Conds : QueueOf(d)' = QueueOf(d) /\ (Dropped(d)' <=> Dropped(d))
  BY <1>7, <1>8, ZenonT(30)
<1>10. \A u \in Threads \ {td} : PhaseOf(u)' = PhaseOf(u)
  BY <1>6, <1>9, OtherThreads, ZenonT(30)
<1>11. PhaseOf(td) = "signalled" /\ PhaseOf(td)' = "signalled"
  BY <1>4, <1>5, <1>6, <1>7, PhaseTable, PhaseTableNext, ZenonT(30)
<1>12. \A u \in Threads : WaitOf(u)' = WaitOf(u)
  BY <1>4, WaitTable, Zenon DEF SameCall
<1> QED BY <1>4, <1>9, <1>10, <1>11, <1>12, Stutter, Zenon DEF SameQueues, SamePhases, SameWaits

\* Nor is its end, when the queue is empty.
LEMMA DroppedRefines ==
    ASSUME IInv, NEW t \in Threads, BroadcastEnd(t)
    PROVE  UNCHANGED Promise!monitorVars
<1>1. PICK c \in Conds : cv[t] = c /\ pc[t] = "drop" /\ sq_lock[c] = t
  BY Calls, ZenonT(30) DEF BroadcastEnd, WithLock
<1>2. /\ sq_blocked[c] = <<>>
      /\ sq_lock' = [sq_lock EXCEPT ![c] = NoThread]
      /\ cv' = [cv EXCEPT ![t] = NoCond]
      /\ pc' = [pc EXCEPT ![t] = "run"] \/ pc' = [pc EXCEPT ![t] = "release"]
      /\ UNCHANGED <<m_owner, m_count, sq_blocked, wchan, cancel_pending, cancelling, mp,
                     recurse, timed, error>>
  BY <1>1, ZenonT(30) DEF BroadcastEnd, Goto, mutexVars, cancelVars
<1>3. /\ pc'[t] \in Outside /\ sq_lock'[c] = NoThread /\ t # NoThread
      /\ \A d \in Conds \ {c} : sq_lock'[d] = sq_lock[d] /\ sq_blocked'[d] = sq_blocked[d]
  BY <1>2, FunctionTypes, ConstantsAssumption, ZenonT(30) DEF Outside
<1>4. \A u \in Threads \ {t} : SameThread(u) /\ pc'[u] = pc[u]
  BY <1>2, FunctionTypes, ZenonT(30) DEF SameThread, SameCall
<1>5. \A u \in Threads : wchan[u] # c
  <2>1. \A u \in Threads : u \in Range(sq_blocked[c]) <=> wchan[u] = c
    BY Zenon DEF IInv, QueueMatchesWchan
  <2> QED BY <1>2, <2>1, Short, Zenon
<1>6. QueueOf(c) = <<>> /\ QueueOf(c)' = <<>> /\ Dropped(c) /\ ~Dropped(c)'
  BY <1>1, <1>2, <1>3, QueueTable, QueueTableNext, ZenonT(30)
<1>7. \A d \in Conds \ {c} : QueueOf(d)' = QueueOf(d) /\ (Dropped(d)' <=> Dropped(d))
  <2>1. \A d \in Conds \ {c} : sq_lock[d] # t
    BY <1>1, Calls, ZenonT(30)
  <2> QED BY <1>3, <1>4, <2>1, OtherQueues, ZenonT(30)
<1>8. mp[t] = NoMutex /\ PhaseOf(t)' = PhaseOf(t)
  <2>1. pc[t] \in Outside /\ cancelling'[t] = cancelling[t]
    BY <1>1, <1>2, ZenonT(30) DEF Outside
  <2>2. mp[t] = NoMutex
    BY <1>1, Calls, ZenonT(30) DEF InWait
  <2> QED BY <1>3, <2>1, <2>2, PhaseTable, PhaseTableNext, ZenonT(30)
<1>9. ASSUME NEW u \in Threads \ {t} PROVE PhaseOf(u)' = PhaseOf(u)
  <2>1. SameThread(u) /\ \A d \in Conds : wchan[u] = d => (Dropped(d)' <=> Dropped(d))
    BY <1>4, <1>5, <1>7, ZenonT(30)
  <2> QED BY <2>1, OtherThreads, ZenonT(30)
<1>10. \A u \in Threads : WaitOf(u)' = WaitOf(u)
  <2>1. \A u \in Threads \ {t} : WaitOf(u)' = WaitOf(u)
    BY <1>4, WaitTable, Zenon DEF SameThread
  <2>2. WaitOf(t)' = WaitOf(t)
    BY <1>2, <1>8, WaitTable, ZenonT(30)
  <2> QED BY <2>1, <2>2, ZenonT(30)
<1>11. \A d \in Conds : QueueOf(d)' = QueueOf(d)
  BY <1>6, <1>7, ZenonT(30)
<1> QED BY <1>2, <1>8, <1>9, <1>10, <1>11, Stutter, Zenon DEF SameQueues, SamePhases, SameWaits

-------------------------------------------------------------------------------
(* The refinement: the other steps *)

\* Posts, flags and the steps between them are not seen.
LEMMA Unseen ==
    ASSUME IInv, NEW t \in Threads,
           UNCHANGED <<sq_lock, sq_blocked, wchan, cv, mp, recurse, timed, cancelling>>,
           \A u \in Threads \ {t} : pc'[u] = pc[u] /\ error'[u] = error[u],
           \/ pc'[t] = pc[t] /\ error'[t] = error[t]
           \/ pc[t] \in Outside \ {"drop"} /\ pc'[t] \in Outside \ {"drop"}
           \/ pc[t] = "sleep" /\ pc'[t] = "woken"
    PROVE  SameQueues /\ SamePhases /\ SameWaits
<1>1. \A d \in Conds : QueueOf(d)' = QueueOf(d) /\ (Dropped(d)' <=> Dropped(d))
  <2>1. ASSUME NEW d \in Conds, sq_lock[d] # t
        PROVE  QueueOf(d)' = QueueOf(d) /\ (Dropped(d)' <=> Dropped(d))
    BY <2>1, OtherQueues, ZenonT(30)
  <2>2. ASSUME NEW d \in Conds, sq_lock[d] = t
        PROVE  QueueOf(d)' = QueueOf(d) /\ (Dropped(d)' <=> Dropped(d))
    <3>1. pc[t] \in WithLock
      BY <2>2, Calls, ZenonT(30)
    <3>2. pc'[t] = pc[t]
      BY <3>1 DEF WithLock, Outside
    <3> QED BY <2>2, <3>2, Zenon DEF QueueOf, Dropped
  <2> QED BY <2>1, <2>2, Zenon
<1>2. \A u \in Threads : WaitOf(u)' = WaitOf(u)
  BY WaitTable, Zenon DEF SameCall
<1>3. \A u \in Threads \ {t} : PhaseOf(u)' = PhaseOf(u)
  <2>1. \A u \in Threads \ {t} : SameThread(u)
    BY Zenon DEF SameThread, SameCall
  <2> QED BY <1>1, <2>1, OtherThreads, ZenonT(30)
<1>4. PhaseOf(t)' = PhaseOf(t)
  <2>1. CASE pc'[t] = pc[t] /\ error'[t] = error[t]
    <3>1. SameThread(t)
      BY <2>1, Zenon DEF SameThread, SameCall
    <3> QED BY <1>1, <3>1, OtherThreads, ZenonT(30)
  <2>2. CASE pc[t] \in Outside /\ pc'[t] \in Outside
    BY <2>2, PhaseTable, PhaseTableNext, ZenonT(30)
  <2>3. CASE pc[t] = "sleep" /\ pc'[t] = "woken"
    <3>1. pc[t] \in Blocked /\ pc'[t] \in Blocked
      BY <2>3, ZenonT(30) DEF Blocked
    <3>2. CASE wchan[t] = NoCond
      BY <3>1, <3>2, PhaseTable, PhaseTableNext, ZenonT(30)
    <3>3. CASE wchan[t] # NoCond
      <4>1. PICK c \in Conds : cv[t] = c
        BY <3>3, Calls, FunctionTypes
      <4>2. Dropped(c)' <=> Dropped(c)
        BY <1>1, ZenonT(30)
      <4> QED BY <3>1, <3>3, <4>1, <4>2, PhaseTable, PhaseTableNext, ZenonT(30)
    <3> QED BY <3>2, <3>3, Zenon
  <2> QED BY <2>1, <2>2, <2>3, ZenonT(30)
<1> QED BY <1>1, <1>2, <1>3, <1>4, Zenon DEF SameQueues, SamePhases, SameWaits

\* The steps at which posts are made and the sleep ends.
LEMMA PostRefines ==
    ASSUME IInv, NEW t \in Threads,
           WakeAll(t) \/ Acquire(t) \/ TimeOut(t) \/ Release(t) \/ CancelPost(t)
    PROVE  UNCHANGED Promise!monitorVars
<1>1. UNCHANGED <<m_owner, m_count, sq_lock, sq_blocked, wchan, cv, mp, recurse, timed,
                  cancel_pending, cancelling>>
  BY Zenon DEF WakeAll, Acquire, TimeOut, Release, CancelPost, mutexVars, queueVars, cancelVars, waitVars
<1>2. CASE Acquire(t) \/ TimeOut(t)
  <2>1. /\ pc[t] = "sleep" /\ pc' = [pc EXCEPT ![t] = "woken"]
        /\ error' = [error EXCEPT ![t] = "0"] \/ error' = [error EXCEPT ![t] = "ETIMEDOUT"]
    BY <1>2, Zenon DEF Acquire, TimeOut, Goto
  <2>2. pc'[t] = "woken" /\ \A u \in Threads \ {t} : pc'[u] = pc[u] /\ error'[u] = error[u]
    BY <2>1, FunctionTypes, ZenonT(30)
  <2> QED BY <1>1, <2>1, <2>2, Unseen, Stutter, ZenonT(30)
<1>3. CASE WakeAll(t)
  <2>1. /\ pc' = pc \/ (pc[t] = "flush" /\ pc' = [pc EXCEPT ![t] = "run"])
        /\ UNCHANGED error
    BY <1>3, ZenonT(30) DEF WakeAll, waitVars
  <2>2. /\ pc'[t] = pc[t] \/ (pc[t] \in Outside \ {"drop"} /\ pc'[t] \in Outside \ {"drop"})
        /\ \A u \in Threads \ {t} : pc'[u] = pc[u]
    BY <2>1, FunctionTypes, ZenonT(30) DEF Outside
  <2> QED BY <1>1, <2>1, <2>2, Unseen, Stutter, ZenonT(30)
<1>4. CASE Release(t) \/ CancelPost(t)
  <2>1. /\ pc[t] \in {"release", "cancel"}
        /\ pc' = [pc EXCEPT ![t] = "run"] \/ pc' = [pc EXCEPT ![t] = "release"]
        /\ UNCHANGED error
    BY <1>4, ZenonT(30) DEF Release, CancelPost, Goto, waitVars
  <2>2. /\ pc[t] \in Outside \ {"drop"} /\ pc'[t] \in Outside \ {"drop"}
        /\ \A u \in Threads \ {t} : pc'[u] = pc[u]
    BY <2>1, FunctionTypes, ZenonT(30) DEF Outside
  <2> QED BY <1>1, <2>1, <2>2, Unseen, Stutter, ZenonT(30)
<1> QED BY <1>2, <1>3, <1>4, Zenon

\* A thread that acts on a request goes away.
LEMMA CancelRefines ==
    ASSUME IInv, NEW t \in Threads, SetCancelState(t) \/ TestCancel(t)
    PROVE  Promise!Next \/ UNCHANGED Promise!monitorVars
<1>1. pc[t] = "run" /\ ~cancelling[t]
  BY Zenon DEF SetCancelState, TestCancel, Running, ShouldCancel
<1>2. UNCHANGED <<m_owner, m_count, sq_lock, sq_blocked, wchan, cancel_pending, cv, mp, recurse,
                  timed, error, pc>>
  BY Zenon DEF SetCancelState, TestCancel, mutexVars, queueVars, waitVars
<1>3. \/ cancelling' = [cancelling EXCEPT ![t] = ~cancel_enable[t] /\ cancel_pending[t]]
      \/ cancel_pending[t] /\ cancelling' = [cancelling EXCEPT ![t] = TRUE]
  BY Zenon DEF SetCancelState, TestCancel, ShouldCancel
<1>4. /\ \A u \in Threads \ {t} : cancelling'[u] = cancelling[u]
      /\ cancelling'[t] => cancel_pending[t]
  BY <1>3, FunctionTypes, ZenonT(30)
<1>5. \A u \in Threads \ {t} : SameThread(u)
  BY <1>2, <1>4, Zenon DEF SameThread, SameCall
<1>6. \A d \in Conds : QueueOf(d)' = QueueOf(d) /\ (Dropped(d)' <=> Dropped(d))
  BY <1>2, Zenon DEF QueueOf, Dropped
<1>7. \A u \in Threads : WaitOf(u)' = WaitOf(u)
  BY <1>2, WaitTable, Zenon DEF SameCall
<1>8. \A u \in Threads \ {t} : PhaseOf(u)' = PhaseOf(u)
  BY <1>5, <1>6, OtherThreads, ZenonT(30)
<1>9. PhaseOf(t) = "run" /\ PhaseOf(t)' = IF cancelling'[t] THEN "gone" ELSE "run"
  <2>1. pc[t] \in Outside /\ pc'[t] \in Outside
    BY <1>1, <1>2, ZenonT(30) DEF Outside
  <2> QED BY <1>1, <2>1, PhaseTable, PhaseTableNext, ZenonT(30)
<1>10. CASE cancelling'[t]
  <2>1. phaseBar[t] = "run" /\ phaseBar' = [phaseBar EXCEPT ![t] = "gone"]
    BY <1>8, <1>9, <1>10, BarSteps, ZenonT(30)
  <2>2. UNCHANGED <<queueBar, waitBar>>
    BY <1>6, <1>7, SameBars, ZenonT(30) DEF SameQueues, SameWaits
  <2>3. Promise!Die(t)
    BY <1>2, <1>4, <1>10, <2>1, <2>2, ZenonT(30) DEF Promise!Die
  <2> QED BY <2>3, ZenonT(30) DEF Promise!Next
<1>11. CASE ~cancelling'[t]
  BY <1>2, <1>6, <1>7, <1>8, <1>9, <1>11, Stutter, ZenonT(30) DEF SameQueues, SamePhases, SameWaits
<1> QED BY <1>10, <1>11, Zenon

\* Mutexes are locked and unlocked as the monitor's.
LEMMA MutexRefines ==
    ASSUME IInv, NEW t \in Threads, NEW m \in Mutexes, Lock(t, m) \/ Unlock(t, m)
    PROVE  Promise!Next
<1>1. /\ pc[t] = "run" /\ pc'[t] \in {"run", "flush"} /\ \A u \in Threads \ {t} : pc'[u] = pc[u]
      /\ UNCHANGED <<sq_lock, sq_blocked, wchan, cv, mp, recurse, timed, error, cancel_pending,
                     cancelling>>
  <2>1. TypeOK
    BY Zenon DEF IInv, QueueMatchesWchan
  <2> QED BY <2>1, MutexFacts, Zenon DEF Moves, queueVars, cancelVars, waitVars
<1>2. pc[t] \in Outside \ {"drop"} /\ pc'[t] \in Outside \ {"drop"}
  BY <1>1, ZenonT(30) DEF Outside
<1>3. UNCHANGED <<queueBar, phaseBar, waitBar>>
  BY <1>1, <1>2, Unseen, SameBars, ZenonT(30)
<1>4. phaseBar[t] = IF cancelling[t] THEN "gone" ELSE "run"
  BY <1>2, PhaseTable, BarSteps, ZenonT(30)
<1>5. CASE Lock(t, m)
  <2>1. /\ ~cancelling[t]
        /\ \/ m_owner[m] = NoThread /\ m_owner' = [m_owner EXCEPT ![m] = t] /\ UNCHANGED m_count
           \/ /\ m_owner[m] = t /\ m \in Recursive /\ m_count[m] + 1 <= MaxRecursion
              /\ m_count' = [m_count EXCEPT ![m] = @ + 1]
              /\ UNCHANGED m_owner
    BY <1>5, Zenon DEF Lock, Running
  <2>2. m_count[m] + 1 <= MaxRecursion => m_count[m] < MaxRecursion
    <3>1. m_count[m] \in Nat /\ MaxRecursion \in Nat
      BY FunctionTypes, ConstantsAssumption, SMTT(20)
    <3> QED BY <3>1
  <2>3. Promise!Lock(t, m)
    BY <1>1, <1>3, <1>4, <2>1, <2>2, ZenonT(30) DEF Promise!Lock
  <2> QED BY <2>3, ZenonT(30) DEF Promise!Next
<1>6. CASE Unlock(t, m)
  <2>1. /\ m_owner[m] = t
        /\ IF m \in Recursive /\ m_count[m] > 0
           THEN m_count' = [m_count EXCEPT ![m] = @ - 1] /\ UNCHANGED m_owner
           ELSE m_owner' = [m_owner EXCEPT ![m] = NoThread] /\ UNCHANGED m_count
    BY <1>6, ZenonT(30) DEF Unlock
  <2>2. m_count[m] > 0 => m \in Recursive
    BY Zenon DEF IInv, DepthMatches
  <2>3. Promise!Unlock(t, m)
    BY <1>1, <1>3, <1>4, <2>1, <2>2, ZenonT(30) DEF Promise!Unlock
  <2> QED BY <2>3, ZenonT(30) DEF Promise!Next
<1> QED BY <1>5, <1>6, Zenon

\* A request is made.
LEMMA RequestRefines ==
    ASSUME IInv, NEW t \in Threads, NEW u \in Threads, CancelBegin(t, u)
    PROVE  Promise!Next
<1>1. /\ UNCHANGED <<m_owner, m_count, sq_lock, sq_blocked, wchan, cv, mp, recurse, timed,
                     cancelling, error>>
      /\ pc[t] = "run" /\ pc' = [pc EXCEPT ![t] = "cancel"]
      /\ ~cancel_pending[u] /\ cancel_pending' = [cancel_pending EXCEPT ![u] = TRUE]
  BY Zenon DEF CancelBegin, Running, Goto, mutexVars, queueVars, waitVars
<1>2. /\ pc[t] \in Outside \ {"drop"} /\ pc'[t] \in Outside \ {"drop"}
      /\ \A v \in Threads \ {t} : pc'[v] = pc[v]
  BY <1>1, FunctionTypes, ZenonT(30) DEF Outside
<1>3. UNCHANGED <<queueBar, phaseBar, waitBar>>
  BY <1>1, <1>2, Unseen, SameBars, ZenonT(30)
<1>4. Promise!Request(u)
  BY <1>1, <1>3, ZenonT(30) DEF Promise!Request
<1> QED BY <1>4, ZenonT(30) DEF Promise!Next

\* Every step of the code is a step of the monitor, or is not seen.
LEMMA StepRefines ==
    ASSUME IInv, [Next]_vars
    PROVE  Promise!Next \/ UNCHANGED Promise!monitorVars
<1>1. ASSUME NEW t \in Threads, Continue(t)
      PROVE  Promise!Next \/ UNCHANGED Promise!monitorVars
  BY <1>1, AddRefines, ArmRefines, SignalledRefines, GiveUpRefines, AgainRefines, DropRefines,
     DroppedRefines, PostRefines, Zenon DEF Continue
<1>2. CASE UNCHANGED vars
  <2>1. UNCHANGED <<m_owner, m_count, sq_lock, sq_blocked, wchan, cv, mp, recurse, timed, error,
                    cancel_pending, cancelling, pc>>
    BY <1>2, Zenon DEF vars, mutexVars, queueVars, cancelVars, waitVars
  <2>2. SameQueues /\ SamePhases /\ SameWaits
    BY <2>1, Zenon DEF SameQueues, SamePhases, SameWaits, QueueOf, PhaseOf, WaitOf, Dropped
  <2> QED BY <2>1, <2>2, Stutter, Zenon
<1>3. QueueMatchesWchan
  BY Zenon DEF IInv
<1> QED BY <1>1, <1>2, <1>3, NextCases, PostRefines, RelockRefines, CancelRefines, MutexRefines,
           WaitRefines, TakenRefines, BroadcastRefines, RequestRefines, Zenon

\* Condition variables and mutexes implement the monitor for any number of threads,
\* mutexes and conditions: waiting is atomic, and a wait returns with its mutex.
THEOREM CondVarsImplementMonitor == Spec => ImplementsMonitor
<1>1. IInv /\ [Next]_vars => [Promise!Next]_(Promise!monitorVars)
  BY StepRefines
<1> QED BY <1>1, InitRefines, Invariance, PTL DEF Spec, ImplementsMonitor, Promise!Spec
===============================================================================
