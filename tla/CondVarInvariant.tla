--------------------------- MODULE CondVarInvariant ---------------------------
(***************************************************************************)
(* IInv is inductive: the sleep queues, the posts that are owed and the    *)
(* posts that are kept back, and the combination with CondVarTypes.        *)
(***************************************************************************)
EXTENDS CondVarTypes

\* The four parts of QueueMatchesWchan.
Queued == \A c \in Conds, t \in Threads : t \in Range(sq_blocked[c]) <=> wchan[t] = c
Once == \A c \in Conds : IsInjective(sq_blocked[c])
Inside ==
    \A t \in Threads : wchan[t] # NoCond =>
        /\ pc[t] \in {"arm", "sleep", "woken"}
        /\ wchan[t] = cv[t]
        /\ mutex_obj[t] = mp[t]
Flag ==
    \A c \in Conds : sq_lock[c] = NoThread => (has_user_waiters[c] <=> sq_blocked[c] # <<>>)

\* A thread goes on a queue in its own Wait and is taken off it under the queue's lock.
LEMMA QueueStep ==
    QueueMatchesWchan /\ CallMatches /\ LockMatches /\ ArmedIsQueued /\ TypeOK' /\ [Next]_vars
        => QueueMatchesWchan' /\ ArmedIsQueued'
<1> SUFFICES ASSUME QueueMatchesWchan, CallMatches, LockMatches, ArmedIsQueued, TypeOK',
                    [Next]_vars
             PROVE  QueueMatchesWchan' /\ ArmedIsQueued'
  OBVIOUS
<1>0. TypeOK /\ Queued /\ Once /\ Inside /\ Flag
  BY DEF QueueMatchesWchan, Queued, Once, Inside, Flag
<1> DEFINE Goal == Queued' /\ Once' /\ Inside' /\ Flag' /\ ArmedIsQueued'
<1>a. SUFFICES Goal
  BY DEF QueueMatchesWchan, Queued, Once, Inside, Flag
<1>b. /\ UNCHANGED <<sq_blocked, wchan>> => Queued' /\ Once'
      /\ \A t \in Threads, c \in Conds : wchan[t] = c => sq_blocked[c] # <<>>
  BY <1>0, Short DEF Queued, Once
<1>t. /\ pc \in [Threads -> Steps] /\ cv \in [Threads -> Conds \cup {NoCond}]
      /\ mp \in [Threads -> Mutexes \cup {NoMutex}]
      /\ mutex_obj \in [Threads -> Mutexes \cup {NoMutex}]
      /\ wchan \in [Threads -> Conds \cup {NoCond}]
      /\ sq_lock \in [Conds -> Threads \cup {NoThread}]
      /\ sq_blocked \in [Conds -> Seq(Threads)] /\ has_user_waiters \in [Conds -> BOOLEAN]
  BY <1>0, Zenon DEF TypeOK
<1> USE <1>0, <1>t, <1>b, ConstantsAssumption
    DEF Inside, Flag, mutexVars, queueVars, cancelVars, waitVars, Goto, Running
<1>1. ASSUME NEW t \in Threads, Continue(t) PROVE Goal
  <2>1. CASE WakeAll(t) \/ Release(t) \/ CancelPost(t) \/ Acquire(t)
    <3>1. UNCHANGED <<sq_blocked, wchan, sq_lock, has_user_waiters, cv, mp, mutex_obj>>
      BY <2>1 DEF WakeAll, Release, CancelPost, Acquire
    <3>2. \/ pc[t] \in {"flush", "release", "cancel"} /\ Moves(t, {"flush", "release", "run"})
          \/ pc[t] = "sleep" /\ Moves(t, {"sleep", "woken"})
      <4>1. CASE WakeAll(t)
        BY <4>1, ZenonT(30) DEF WakeAll, Moves
      <4>2. CASE Release(t) \/ CancelPost(t)
        BY <4>2 DEF Release, CancelPost, Moves
      <4>3. CASE Acquire(t)
        BY <4>3 DEF Acquire, Moves
      <4> QED BY <2>1, <4>1, <4>2, <4>3, Zenon
    <3>3. Inside' /\ Flag'
      BY <3>1, <3>2 DEF Moves
    <3>4. ArmedIsQueued'
      BY <3>1, <3>2 DEF Moves, ArmedIsQueued
    <3> QED BY <3>1, <3>3, <3>4, Zenon
  <2>2. CASE WaitAdd(t)
    <3>1. /\ cv[t] \in Conds /\ wchan[t] = NoCond /\ sq_lock[cv[t]] = t
          /\ sq_blocked[cv[t]] \in Seq(Threads)
      BY <2>2, SMTT(20) DEF WaitAdd, CallMatches, InWait, LockMatches, WithLock
    <3> DEFINE r == Append(sq_blocked[cv[t]], t)
    <3>2. t \notin Range(sq_blocked[cv[t]]) /\ IsInjective(sq_blocked[cv[t]])
      BY <3>1 DEF Queued, Once
    <3>3. IsInjective(r) /\ Range(r) = Range(sq_blocked[cv[t]]) \cup {t}
      BY <3>1, <3>2, Appended
    <3>4. /\ sq_blocked' = [sq_blocked EXCEPT ![cv[t]] = r]
          /\ wchan' = [wchan EXCEPT ![t] = cv[t]]
          /\ mutex_obj' = [mutex_obj EXCEPT ![t] = mp[t]]
          /\ pc[t] = "add" /\ pc' = [pc EXCEPT ![t] = "arm"]
          /\ UNCHANGED <<sq_lock, has_user_waiters, cv, mp>>
      BY <2>2 DEF WaitAdd, SleepqAdd
    <3> HIDE DEF r
    <3>5. Queued' /\ Once'
      BY <3>1, <3>3, <3>4 DEF Queued, Once
    <3>6. Inside' /\ ArmedIsQueued'
      BY <3>1, <3>4 DEF ArmedIsQueued
    <3>7. Flag'
      BY <3>1, <3>4
    <3> QED BY <3>5, <3>6, <3>7, Zenon
  <2>3. CASE WaitArm(t)
    <3>1. /\ cv[t] \in Conds /\ wchan[t] = cv[t] /\ has_user_waiters[cv[t]]
          /\ sq_blocked[cv[t]] # <<>>
      BY <2>3 DEF WaitArm, CallMatches, InWait, ArmedIsQueued
    <3>2. /\ UNCHANGED <<sq_blocked, wchan, has_user_waiters, cv, mp, mutex_obj>>
          /\ sq_lock' = [sq_lock EXCEPT ![cv[t]] = NoThread]
          /\ pc[t] = "arm" /\ Moves(t, {"woken", "sleep"})
      BY <2>3 DEF WaitArm, Moves
    <3>3. Inside' /\ Flag'
      BY <3>1, <3>2, ZenonT(30) DEF Moves
    <3>4. ArmedIsQueued'
      BY <3>1, <3>2 DEF Moves, ArmedIsQueued
    <3> QED BY <3>2, <3>3, <3>4, Zenon
  <2>4. CASE RecheckSignalled(t)
    <3>1. /\ pc[t] = "woken" /\ wchan[t] = NoCond
          /\ UNCHANGED <<sq_blocked, wchan, sq_lock, has_user_waiters, cv, mp>>
          /\ mutex_obj' = [mutex_obj EXCEPT ![t] = NoMutex]
          /\ pc' = [pc EXCEPT ![t] = "relock"]
      BY <2>4 DEF RecheckSignalled
    <3> QED BY <3>1 DEF ArmedIsQueued
  <2>5. CASE RecheckGiveUp(t)
    <3>1. cv[t] \in Conds /\ wchan[t] = cv[t] /\ sq_lock[cv[t]] = NoThread /\ pc[t] = "woken"
      BY <2>5 DEF RecheckGiveUp
    <3>2. /\ wchan' = [wchan EXCEPT ![t] = NoCond]
          /\ has_user_waiters' = [has_user_waiters EXCEPT ![cv[t]] = sq_blocked'[cv[t]] # <<>>]
          /\ Queued' /\ Once'
          /\ \A d \in Conds \ {cv[t]} : sq_blocked'[d] = sq_blocked[d]
      BY <2>5, <3>1, Unqueued, Zenon DEF RecheckGiveUp, Queued, Once
    <3>3. /\ UNCHANGED <<sq_lock, cv, mp>>
          /\ mutex_obj' = [mutex_obj EXCEPT ![t] = NoMutex]
          /\ pc' = [pc EXCEPT ![t] = "relock"]
      BY <2>5 DEF RecheckGiveUp
    <3>4. \A u \in Threads : pc[u] \in {"add", "arm"} => cv[u] # cv[t]
      BY <3>1 DEF LockMatches, WithLock
    <3>5. Inside' /\ Flag'
      BY <3>1, <3>2, <3>3, ZenonT(40)
    <3>6. ArmedIsQueued'
      BY <3>1, <3>2, <3>3, <3>4 DEF ArmedIsQueued, CallMatches, InWait
    <3> QED BY <3>2, <3>5, <3>6, Zenon
  <2>6. CASE RecheckAgain(t)
    <3>1. /\ cv[t] \in Conds /\ wchan[t] = cv[t] /\ sq_lock[cv[t]] = NoThread
          /\ has_user_waiters[cv[t]]
      BY <2>6 DEF RecheckAgain
    <3>2. /\ UNCHANGED <<sq_blocked, wchan, has_user_waiters, cv, mp, mutex_obj>>
          /\ sq_lock' = [sq_lock EXCEPT ![cv[t]] = t]
          /\ pc' = [pc EXCEPT ![t] = "arm"]
      BY <2>6 DEF RecheckAgain
    <3> QED BY <3>1, <3>2 DEF ArmedIsQueued
  <2>7. CASE BroadcastDrop(t)
    <3> DEFINE c == cv[t]
               td == Head(sq_blocked[c])
    <3>1. /\ pc[t] = "drop" /\ c \in Conds /\ sq_lock[c] = t
          /\ sq_blocked[c] \in Seq(Threads) /\ sq_blocked[c] # <<>>
          /\ IsInjective(sq_blocked[c])
      BY <2>7 DEF BroadcastDrop, CallMatches, LockMatches, WithLock, Once
    <3>2. /\ td \in Threads /\ td \in Range(sq_blocked[c])
          /\ IsInjective(Tail(sq_blocked[c]))
          /\ Range(Tail(sq_blocked[c])) = Range(sq_blocked[c]) \ {td}
      BY <3>1, Popped, SMTT(20)
    <3>3. /\ sq_blocked' = [sq_blocked EXCEPT ![c] = Tail(sq_blocked[c])]
          /\ wchan' = [wchan EXCEPT ![td] = NoCond]
          /\ UNCHANGED <<sq_lock, has_user_waiters, mutex_obj, cv, mp, pc>>
      BY <2>7 DEF BroadcastDrop
    <3> HIDE DEF c, td
    <3>4. wchan[td] = c
      BY <3>1, <3>2, ZenonT(30) DEF Queued
    <3>5. Queued' /\ Once'
      BY <3>1, <3>2, <3>3, <3>4 DEF Queued, Once
    <3>6. Inside' /\ Flag'
      BY <3>1, <3>2, <3>3
    <3>7. pc[td] # "arm"
      BY <3>1, <3>2, <3>4 DEF LockMatches, WithLock
    <3> QED BY <3>2, <3>3, <3>5, <3>6, <3>7, ZenonT(40) DEF ArmedIsQueued
  <2>8. CASE BroadcastEnd(t)
    <3>1. /\ pc[t] = "drop" /\ cv[t] \in Conds /\ sq_lock[cv[t]] = t
          /\ sq_blocked[cv[t]] = <<>>
      BY <2>8 DEF BroadcastEnd, CallMatches, LockMatches, WithLock
    <3>2. \A u \in Threads : pc[u] \in {"add", "arm"} => cv[u] # cv[t]
      BY <3>1, ZenonT(30) DEF LockMatches, WithLock
    <3>3. /\ has_user_waiters' = [has_user_waiters EXCEPT ![cv[t]] = FALSE]
          /\ sq_lock' = [sq_lock EXCEPT ![cv[t]] = NoThread]
          /\ cv' = [cv EXCEPT ![t] = NoCond]
          /\ Moves(t, {"run", "release"})
          /\ UNCHANGED <<sq_blocked, wchan, mutex_obj, mp>>
      BY <2>8, ZenonT(30) DEF BroadcastEnd, Moves
    <3>4. Inside' /\ Flag'
      BY <3>1, <3>3, SMTT(20) DEF Moves
    <3>5. ArmedIsQueued'
      BY <3>1, <3>2, <3>3 DEF Moves, ArmedIsQueued, CallMatches, InWait
    <3> QED BY <3>3, <3>4, <3>5, Zenon
  <2> QED BY <1>1, <2>1, <2>2, <2>3, <2>4, <2>5, <2>6, <2>7, <2>8 DEF Continue
<1>2. ASSUME NEW t \in Threads, TimeOut(t) \/ Relock(t) \/ SetCancelState(t) \/ TestCancel(t)
      PROVE  Goal
  <2>1. CASE TimeOut(t)
    <3>1. /\ UNCHANGED <<sq_blocked, wchan, sq_lock, has_user_waiters, cv, mp, mutex_obj>>
          /\ pc[t] = "sleep" /\ pc' = [pc EXCEPT ![t] = "woken"]
      BY <2>1 DEF TimeOut
    <3> QED BY <3>1, ZenonT(30) DEF ArmedIsQueued
  <2>2. CASE Relock(t)
    <3>1. /\ UNCHANGED <<sq_blocked, wchan, sq_lock, has_user_waiters, mutex_obj>>
          /\ pc[t] = "relock" /\ pc' = [pc EXCEPT ![t] = "run"]
          /\ cv' = [cv EXCEPT ![t] = NoCond] /\ mp' = [mp EXCEPT ![t] = NoMutex]
      BY <2>2 DEF Relock
    <3> QED BY <3>1, ZenonT(30) DEF ArmedIsQueued
  <2>3. CASE SetCancelState(t) \/ TestCancel(t)
    <3>1. UNCHANGED <<sq_blocked, wchan, sq_lock, has_user_waiters, cv, mp, mutex_obj, pc>>
      BY <2>3, ZenonT(30) DEF SetCancelState, TestCancel
    <3> QED BY <3>1, ZenonT(30) DEF ArmedIsQueued
  <2> QED BY <1>2, <2>1, <2>2, <2>3, Zenon
<1>3. ASSUME NEW t \in Threads, NEW m \in Mutexes, Lock(t, m) \/ Unlock(t, m) PROVE Goal
  <2>1. /\ UNCHANGED <<sq_blocked, wchan, sq_lock, has_user_waiters, cv, mp, mutex_obj>>
        /\ pc[t] = "run" /\ Moves(t, {"run", "flush"})
    BY <1>3, MutexFacts
  <2> QED BY <2>1, ZenonT(30) DEF Moves, ArmedIsQueued
<1>4. ASSUME NEW t \in Threads, NEW c \in Conds, NEW m \in Mutexes, NEW b \in Deadlines,
             WaitBegin(t, c, m, b)
      PROVE  Goal
  <2>1. /\ UNCHANGED <<sq_blocked, wchan, mutex_obj>>
        /\ pc[t] = "run" /\ pc' = [pc EXCEPT ![t] = "add"]
        /\ cv' = [cv EXCEPT ![t] = c] /\ mp' = [mp EXCEPT ![t] = m]
        /\ sq_lock' = [sq_lock EXCEPT ![c] = t]
        /\ has_user_waiters' = [has_user_waiters EXCEPT ![c] = TRUE]
    BY <1>4, ZenonT(30) DEF WaitBegin
  <2>2. Inside' /\ Flag'
    BY <2>1, ZenonT(30)
  <2>3. ArmedIsQueued'
    BY <2>1 DEF ArmedIsQueued
  <2> QED BY <2>1, <2>2, <2>3, Zenon
<1>5. ASSUME NEW t \in Threads, NEW c \in Conds, NEW td \in Threads, Taken(t, c, td)
      PROVE  Goal
  <2>1. wchan[td] = c /\ sq_lock[c] = NoThread /\ pc[t] = "run"
    BY <1>5, ZenonT(30) DEF Taken
  <2>2. /\ wchan' = [wchan EXCEPT ![td] = NoCond]
        /\ has_user_waiters' = [has_user_waiters EXCEPT ![c] = sq_blocked'[c] # <<>>]
        /\ Queued' /\ Once'
        /\ \A d \in Conds \ {c} : sq_blocked'[d] = sq_blocked[d]
    BY <1>5, <2>1, Unqueued, ZenonT(30) DEF Taken, Dequeue, Queued, Once
  <2>3. /\ UNCHANGED <<sq_lock, cv, mp, mutex_obj>>
        /\ Moves(t, {"run", "release"})
    BY <1>5, TakenFacts, ZenonT(30)
  <2>4. \A u \in Threads : pc[u] \in {"add", "arm"} => cv[u] # c
    BY <2>1 DEF LockMatches, WithLock
  <2>5. Inside' /\ Flag'
    <3>1. ASSUME NEW u \in Threads, wchan'[u] # NoCond
          PROVE  wchan'[u] = wchan[u] /\ u # t /\ pc'[u] = pc[u]
      BY <2>1, <2>2, <2>3, <3>1, Zenon DEF Moves
    <3>2. Inside'
      BY <2>3, <3>1
    <3>3. Flag'
      BY <2>2, <2>3, Zenon
    <3> QED BY <3>2, <3>3, Zenon
  <2>6. ArmedIsQueued'
    BY <2>1, <2>2, <2>3, <2>4, SMTT(20) DEF Moves, ArmedIsQueued, CallMatches, InWait
  <2> QED BY <2>2, <2>5, <2>6, Zenon
<1>6. ASSUME NEW t \in Threads, NEW c \in Conds, BroadcastBegin(t, c) PROVE Goal
  <2>1. /\ UNCHANGED <<sq_blocked, wchan, has_user_waiters, mp, mutex_obj>>
        /\ pc[t] = "run" /\ pc' = [pc EXCEPT ![t] = "drop"]
        /\ cv' = [cv EXCEPT ![t] = c] /\ sq_lock' = [sq_lock EXCEPT ![c] = t]
    BY <1>6, ZenonT(30) DEF BroadcastBegin
  <2> QED BY <2>1, SMTT(20) DEF ArmedIsQueued
<1>7. ASSUME NEW t \in Threads, NEW u \in Threads, CancelBegin(t, u) PROVE Goal
  <2>1. /\ UNCHANGED <<sq_blocked, wchan, sq_lock, has_user_waiters, cv, mp, mutex_obj>>
        /\ pc[t] = "run" /\ pc' = [pc EXCEPT ![t] = "cancel"]
    BY <1>7, ZenonT(30) DEF CancelBegin
  <2> QED BY <2>1, ZenonT(30) DEF ArmedIsQueued
<1>8. CASE UNCHANGED vars
  BY <1>8, ZenonT(30) DEF vars, ArmedIsQueued
<1> QED BY <1>1, <1>2, <1>3, <1>4, <1>5, <1>6, <1>7, <1>8, NextCases, Zenon

-------------------------------------------------------------------------------
\* A post is there for u, or on its way.
Posted(u) == wake_sema[u] > 0 \/ Owed(u)

\* A waiter that has to get up.
Due(u) == pc[u] = "sleep" /\ (wchan[u] = NoCond \/ ShouldCancel(u))

\* A post for u that is there stays, and one on its way stays so or is made.
LEMMA StillPosted ==
    ASSUME NEW u, Posted(u),
           wake_sema[u] > 0 => wake_sema'[u] > 0,
           \A s \in Threads : u \in Range(defer_waiters[s]) =>
               wake_sema'[u] > 0 \/ u \in Range(defer_waiters'[s]),
           \A s \in Threads : u \in Range(now[s]) =>
               wake_sema'[u] > 0 \/ u \in Range(now'[s])
    PROVE  Posted(u)'
BY DEF Posted, Owed

\* Any list with u on it will do.
LEMMA NowPosted ==
    ASSUME NEW u, NEW s \in Threads, u \in Range(defer_waiters'[s]) \/ u \in Range(now'[s])
    PROVE  Posted(u)'
BY DEF Posted, Owed

\* A post is lost only by its own waiter, who is then not asleep; and a waiter becomes
\* due only together with a post on its way.
LEMMA WakeStep ==
    /\ EntriesAreCounted /\ QueueMatchesWchan /\ CallMatches /\ ArmedIsQueued
    /\ WakeIsOwed /\ TypeOK' /\ [Next]_vars
    => WakeIsOwed'
<1> SUFFICES ASSUME EntriesAreCounted, QueueMatchesWchan, CallMatches, ArmedIsQueued,
                    WakeIsOwed, TypeOK', [Next]_vars
             PROVE  WakeIsOwed'
  OBVIOUS
<1>0. TypeOK
  BY DEF QueueMatchesWchan
<1>a. SUFFICES ASSUME NEW u \in Threads, Due(u)' PROVE Posted(u)'
  BY DEF WakeIsOwed, Due, Posted
<1>b. Due(u) => Posted(u)
  BY DEF WakeIsOwed, Due, Posted
<1>c. \A s \in Threads : UNCHANGED <<defer_waiters, now>> => (Owed(s) <=> Owed(s)')
  BY ZenonT(30) DEF Owed
<1>t. /\ pc \in [Threads -> Steps] /\ wchan \in [Threads -> Conds \cup {NoCond}]
      /\ cancel_pending \in [Threads -> BOOLEAN] /\ cancel_enable \in [Threads -> BOOLEAN]
      /\ cancelling \in [Threads -> BOOLEAN] /\ wake_sema \in [Threads -> Nat]
      /\ defer_waiters \in [Threads -> Seq(Threads)] /\ now \in [Threads -> Seq(Threads)]
  BY <1>0, ZenonT(30) DEF TypeOK
<1> USE <1>0, <1>t, <1>a, <1>b, ConstantsAssumption
    DEF mutexVars, queueVars, cancelVars, waitVars, Goto, Running
<1>1. ASSUME NEW t \in Threads, Continue(t) PROVE Posted(u)'
  <2>1. CASE WakeAll(t)
    <3>1. /\ Head(defer_waiters[t]) \in Threads
          /\ Range(defer_waiters[t]) = Range(Tail(defer_waiters[t])) \cup {Head(defer_waiters[t])}
      BY <2>1, Popped, ZenonT(30) DEF WakeAll
    <3>2. /\ wake_sema' = [wake_sema EXCEPT ![Head(defer_waiters[t])] = @ + 1]
          /\ defer_waiters' = [defer_waiters EXCEPT ![t] = Tail(defer_waiters[t])]
          /\ UNCHANGED <<now, wchan, cancelVars>>
      BY <2>1 DEF WakeAll
    <3>3. Due(u)
      BY <2>1, ZenonT(30) DEF WakeAll, Due, ShouldCancel
    <3>4. /\ wake_sema[u] > 0 => wake_sema'[u] > 0
          /\ wake_sema'[Head(defer_waiters[t])] > 0
      BY <3>1, <3>2, OnePost, ZenonT(30)
    <3>5. \A s \in Threads : u \in Range(defer_waiters[s]) =>
              wake_sema'[u] > 0 \/ u \in Range(defer_waiters'[s])
      BY <3>1, <3>2, <3>4, SMTT(20)
    <3> QED BY <3>2, <3>3, <3>4, <3>5, StillPosted, Zenon
  <2>2. CASE WaitAdd(t)
    <3>1. u # t /\ Due(u)
      BY <2>2, ZenonT(30) DEF WaitAdd, SleepqAdd, Due, ShouldCancel
    <3> QED BY <2>2, <3>1, ZenonT(30) DEF WaitAdd, Posted, Owed
  <2>3. CASE WaitArm(t)
    <3>1. Due(u)
      <4>1. CASE u = t
        BY <2>3, <4>1 DEF WaitArm, Due, ShouldCancel, ArmedIsQueued, CallMatches, InWait
      <4>2. CASE u # t
        BY <2>3, <4>2, ZenonT(30) DEF WaitArm, Due, ShouldCancel
      <4> QED BY <4>1, <4>2, Zenon
    <3> QED BY <2>3, <3>1, <1>c DEF WaitArm, Posted
  <2>4. CASE Acquire(t)
    <3>1. u # t /\ Due(u)
      BY <2>4, ZenonT(30) DEF Acquire, Due, ShouldCancel
    <3> QED BY <2>4, <3>1, <1>c, ZenonT(30) DEF Acquire, Posted
  <2>5. CASE RecheckSignalled(t) \/ RecheckGiveUp(t)
    <3>1. u # t /\ Due(u)
      BY <2>5 DEF RecheckSignalled, RecheckGiveUp, SleepqRemove, Due, ShouldCancel
    <3> QED BY <2>5, <3>1, <1>c, ZenonT(30) DEF RecheckSignalled, RecheckGiveUp, Posted
  <2>6. CASE RecheckAgain(t)
    <3>1. u # t /\ Due(u)
      BY <2>6 DEF RecheckAgain, Due, ShouldCancel
    <3> QED BY <2>6, <3>1, <1>c, ZenonT(40) DEF RecheckAgain, Posted
  <2>7. CASE BroadcastDrop(t)
    <3> DEFINE c == cv[t]
               td == Head(sq_blocked[c])
    <3>0. sq_blocked[c] \in Seq(Threads) /\ sq_blocked[c] # <<>>
      BY <2>7, ZenonT(40) DEF BroadcastDrop, CallMatches, TypeOK
    <3>1. td \in Threads
      BY <3>0, Popped, ZenonT(30)
    <3>2. /\ wchan' = [wchan EXCEPT ![td] = NoCond]
          /\ UNCHANGED <<pc, cancelVars>>
      BY <2>7, ZenonT(30) DEF BroadcastDrop
    <3>3. u = td \/ Due(u)
      BY <3>1, <3>2 DEF Due, ShouldCancel
    <3>4. CASE m_owner[mutex_obj[td]] = t
      <4>1. Defer(t, td, mutex_obj[td]) /\ UNCHANGED now
        BY <2>7, <3>4, ZenonT(30) DEF BroadcastDrop
      <4> HIDE DEF td
      <4>2. /\ td \in Range(defer_waiters'[t])
            /\ \A s \in Threads \ {t} : defer_waiters'[s] = defer_waiters[s]
            /\ wake_sema[u] > 0 => wake_sema'[u] > 0
            /\ u \in Range(defer_waiters[t]) =>
                  wake_sema'[u] > 0 \/ u \in Range(defer_waiters'[t])
        BY <3>1, <4>1, Deferred, ZenonT(30)
      <4>3. CASE u = td
        BY <4>2, <4>3, NowPosted
      <4>4. CASE Due(u)
        BY <4>1, <4>2, <4>4, StillPosted, Zenon
      <4> QED BY <3>3, <4>3, <4>4, Zenon
    <3>5. CASE m_owner[mutex_obj[td]] # t /\ Len(now[t]) >= MaxDeferWaiters
      <4>1. /\ wake_sema' = Released(now[t])
            /\ now' = [now EXCEPT ![t] = <<td>>]
            /\ UNCHANGED defer_waiters
        BY <2>7, <3>5, ZenonT(30) DEF BroadcastDrop
      <4> HIDE DEF td
      <4>2. Range(<<td>>) = {td}
        BY Short
      <4>3. CASE u = td
        BY <4>1, <4>2, <4>3, NowPosted, Zenon
      <4>4. CASE Due(u)
        <5>1. /\ wake_sema[u] > 0 => wake_sema'[u] > 0
              /\ u \in Range(now[t]) => wake_sema'[u] > 0
          BY <4>1, ReleasedFacts, ZenonT(30)
        <5>2. \A s \in Threads : u \in Range(now[s]) =>
                  wake_sema'[u] > 0 \/ u \in Range(now'[s])
          BY <4>1, <5>1
        <5> QED BY <4>1, <4>4, <5>1, <5>2, StillPosted, Zenon
      <4> QED BY <3>3, <4>3, <4>4, Zenon
    <3>6. CASE m_owner[mutex_obj[td]] # t /\ ~(Len(now[t]) >= MaxDeferWaiters)
      <4>1. /\ now' = [now EXCEPT ![t] = Append(now[t], td)]
            /\ UNCHANGED <<defer_waiters, wake_sema>>
        BY <2>7, <3>6, ZenonT(30) DEF BroadcastDrop
      <4> HIDE DEF td
      <4>2. Range(Append(now[t], td)) = Range(now[t]) \cup {td}
        BY <3>1, Appended, SMTT(20)
      <4> QED BY <3>1, <3>3, <4>1, <4>2, Zenon DEF Posted, Owed
    <3> QED BY <3>4, <3>5, <3>6, Zenon
  <2>8. CASE BroadcastEnd(t)
    <3>1. Due(u)
      BY <2>8 DEF BroadcastEnd, Due, ShouldCancel
    <3> QED BY <2>8, <3>1, <1>c, ZenonT(30) DEF BroadcastEnd, Posted
  <2>9. CASE Release(t) \/ CancelPost(t)
    <3>1. /\ Head(now[t]) \in Threads
          /\ Range(now[t]) = Range(Tail(now[t])) \cup {Head(now[t])}
          /\ CancelPost(t) => Tail(now[t]) = <<>>
      BY <2>9, Popped, SMTT(20) DEF Release, CancelPost, CallMatches
    <3>2. /\ wake_sema' = [wake_sema EXCEPT ![Head(now[t])] = @ + 1]
          /\ now' = [now EXCEPT ![t] = Tail(now[t])]
          /\ UNCHANGED <<defer_waiters, wchan, cancelVars>>
      BY <2>9, <3>1, Zenon DEF Release, CancelPost
    <3>3. Due(u)
      BY <2>9, ZenonT(30) DEF Release, CancelPost, Due, ShouldCancel
    <3>4. /\ wake_sema[u] > 0 => wake_sema'[u] > 0
          /\ wake_sema'[Head(now[t])] > 0
      BY <3>1, <3>2, OnePost, ZenonT(30)
    <3>5. \A s \in Threads : u \in Range(now[s]) =>
              wake_sema'[u] > 0 \/ u \in Range(now'[s])
      BY <3>1, <3>2, <3>4, Zenon
    <3> QED BY <3>2, <3>3, <3>4, <3>5, StillPosted, Zenon
  <2> QED BY <1>1, <2>1, <2>2, <2>3, <2>4, <2>5, <2>6, <2>7, <2>8, <2>9, ZenonT(30) DEF Continue
<1>2. ASSUME NEW t \in Threads, TimeOut(t) \/ Relock(t) \/ SetCancelState(t) \/ TestCancel(t)
      PROVE  Posted(u)'
  <2>1. Due(u)
    BY <1>2, ZenonT(30) DEF TimeOut, Relock, SetCancelState, TestCancel, Due, ShouldCancel
  <2> QED BY <1>2, <2>1, <1>c, ZenonT(30) DEF TimeOut, Relock, SetCancelState, TestCancel, Posted
<1>3. ASSUME NEW t \in Threads, NEW m \in Mutexes, Lock(t, m) \/ Unlock(t, m) PROVE Posted(u)'
  <2>1. Due(u)
    BY <1>3, ZenonT(30) DEF Lock, Unlock, Due, ShouldCancel
  <2> QED BY <1>3, <2>1, <1>c, ZenonT(30) DEF Lock, Unlock, Posted
<1>4. ASSUME NEW t \in Threads, NEW c \in Conds, NEW m \in Mutexes, NEW b \in Deadlines,
             WaitBegin(t, c, m, b)
      PROVE  Posted(u)'
  <2>1. Due(u)
    BY <1>4 DEF WaitBegin, Due, ShouldCancel
  <2> QED BY <1>4, <2>1, <1>c, ZenonT(30) DEF WaitBegin, Posted
<1>5. ASSUME NEW t \in Threads, NEW c \in Conds, NEW td \in Threads, Taken(t, c, td)
      PROVE  Posted(u)'
  <2>1. u = td \/ Due(u)
    BY <1>5, ZenonT(30) DEF Taken, Dequeue, SleepqRemove, Due, ShouldCancel
  <2>2. CASE m_owner[mutex_obj[td]] = t
    <3>1. Defer(t, td, mutex_obj[td]) /\ UNCHANGED now
      BY <1>5, <2>2, ZenonT(30) DEF Taken, Dequeue
    <3>2. /\ td \in Range(defer_waiters'[t])
          /\ \A s \in Threads \ {t} : defer_waiters'[s] = defer_waiters[s]
          /\ wake_sema[u] > 0 => wake_sema'[u] > 0
          /\ u \in Range(defer_waiters[t]) =>
                wake_sema'[u] > 0 \/ u \in Range(defer_waiters'[t])
      BY <3>1, Deferred, ZenonT(30)
    <3>3. CASE u = td
      BY <3>2, <3>3, NowPosted, Zenon
    <3>4. CASE Due(u)
      BY <3>1, <3>2, <3>4, StillPosted, Zenon
    <3> QED BY <2>1, <3>3, <3>4, Zenon
  <2>3. CASE m_owner[mutex_obj[td]] # t
    <3>1. now' = [now EXCEPT ![t] = <<td>>] /\ UNCHANGED <<defer_waiters, wake_sema>>
      BY <1>5, <2>3, ZenonT(30) DEF Taken, Dequeue
    <3>2. Range(<<td>>) = {td} /\ Range(now[t]) = {}
      BY <1>5, Short, Zenon DEF Taken, CallMatches
    <3> QED BY <2>1, <3>1, <3>2, Zenon DEF Posted, Owed
  <2> QED BY <2>2, <2>3, Zenon
<1>6. ASSUME NEW t \in Threads, NEW c \in Conds, BroadcastBegin(t, c) PROVE Posted(u)'
  <2>1. Due(u)
    BY <1>6 DEF BroadcastBegin, Due, ShouldCancel
  <2> QED BY <1>6, <2>1, <1>c, ZenonT(30) DEF BroadcastBegin, Posted
<1>7. ASSUME NEW t \in Threads, NEW v \in Threads, CancelBegin(t, v) PROVE Posted(u)'
  <2>1. u = v \/ Due(u)
    BY <1>7 DEF CancelBegin, Due, ShouldCancel
  <2>2. Range(<<v>>) = {v} /\ Range(now[t]) = {}
    BY <1>7, Short, ZenonT(40) DEF CancelBegin, CallMatches
  <2>3. now' = [now EXCEPT ![t] = <<v>>] /\ UNCHANGED <<defer_waiters, wake_sema>>
    BY <1>7, ZenonT(30) DEF CancelBegin
  <2> QED BY <2>1, <2>2, <2>3, Zenon DEF Posted, Owed
<1>8. CASE UNCHANGED vars
  <2>1. Due(u)
    BY <1>8 DEF vars, Due, ShouldCancel
  <2> QED BY <1>8, <2>1, <1>c, ZenonT(30) DEF vars, Posted
<1> QED BY <1>1, <1>2, <1>3, <1>4, <1>5, <1>6, <1>7, <1>8, NextCases, Zenon

-------------------------------------------------------------------------------
\* s will make the posts it has kept back.
WillPost(s) ==
    \/ pc[s] \in {"flush", "add", "arm", "sleep"}
    \/ /\ ~will_sleep[s]
       /\ \E m \in Mutexes : m_owner[m] = s /\ m_deferred[m]

\* The part of PostsKept that speaks of s.
Keeps(s) ==
    /\ ~cancel_pending[s]
    /\ will_sleep[s] => pc[s] \in {"add", "arm"}
    /\ pc[s] \in {"woken", "relock"} => defer_waiters[s] = <<>>
    /\ defer_waiters[s] # <<>> => WillPost(s)

\* Deferring sets the flag of a mutex the caller owns, its unlock makes the posts, and a
\* wait makes them in its Sleep, which only a cancelled thread leaves out.
LEMMA PostStep ==
    EntriesAreCounted /\ QueueMatchesWchan /\ CallMatches /\ PostsKept /\ TypeOK'
    /\ [Next]_vars => PostsKept'
<1> SUFFICES ASSUME EntriesAreCounted, QueueMatchesWchan, CallMatches, PostsKept, TypeOK',
                    [Next]_vars, NEW s \in Threads \ Cancellable
             PROVE  Keeps(s)'
  BY ZenonT(30) DEF PostsKept, Keeps, WillPost
<1>0. TypeOK /\ Keeps(s)
  BY DEF QueueMatchesWchan, PostsKept, Keeps, WillPost
<1>t. /\ pc \in [Threads -> Steps] /\ will_sleep \in [Threads -> BOOLEAN]
      /\ cancel_pending \in [Threads -> BOOLEAN]
      /\ defer_waiters \in [Threads -> Seq(Threads)]
      /\ m_owner \in [Mutexes -> Threads \cup {NoThread}] /\ m_deferred \in [Mutexes -> BOOLEAN]
  BY <1>0, Zenon DEF TypeOK
<1> USE <1>0, <1>t, ConstantsAssumption
    DEF Keeps, mutexVars, queueVars, cancelVars, waitVars, Goto, Running, ShouldCancel
<1>1. ASSUME NEW t \in Threads, Continue(t) PROVE Keeps(s)'
  <2>1. CASE WakeAll(t)
    <3>1. Len(defer_waiters[t]) = 1 <=> Tail(defer_waiters[t]) = <<>>
      BY <2>1, Popped, Zenon DEF WakeAll
    <3> QED BY <2>1, <3>1, ZenonT(30) DEF WakeAll, WillPost
  <2>2. CASE WaitAdd(t)
    BY <2>2, ZenonT(30) DEF WaitAdd, WillPost
  <2>3. CASE WaitArm(t)
    BY <2>3, ZenonT(30) DEF WaitArm, WillPost
  <2>4. CASE Acquire(t)
    BY <2>4, ZenonT(30) DEF Acquire, WillPost
  <2>5. CASE RecheckSignalled(t) \/ RecheckGiveUp(t)
    BY <2>5, ZenonT(30) DEF RecheckSignalled, RecheckGiveUp, WillPost
  <2>6. CASE RecheckAgain(t)
    BY <2>6, ZenonT(30) DEF RecheckAgain, WillPost
  <2>7. CASE BroadcastDrop(t)
    <3> DEFINE td == Head(sq_blocked[cv[t]])
    <3>0. /\ cv[t] \in Conds /\ sq_blocked[cv[t]] \in Seq(Threads)
          /\ sq_blocked[cv[t]] # <<>>
      BY <2>7, ZenonT(30) DEF BroadcastDrop, CallMatches, TypeOK
    <3>1. td \in Threads /\ td \in Range(sq_blocked[cv[t]])
      BY <3>0, Popped, ZenonT(30)
    <3>2. mutex_obj[td] \in Mutexes
      <4> HIDE DEF td
      <4>1. wchan[td] = cv[t] /\ cv[t] # NoCond
        BY <3>0, <3>1, ZenonT(30) DEF QueueMatchesWchan
      <4>2. pc[td] \in {"arm", "sleep", "woken"} /\ mutex_obj[td] = mp[td]
        BY <3>1, <4>1, ZenonT(30) DEF QueueMatchesWchan
      <4> QED BY <3>1, <4>2, ZenonT(30) DEF CallMatches, InWait
    <3>3. pc[t] = "drop" /\ UNCHANGED <<m_owner, will_sleep, cancel_pending, pc>>
      BY <2>7 DEF BroadcastDrop
    <3>4. CASE m_owner[mutex_obj[td]] = t
      <4>1. Defer(t, td, mutex_obj[td])
        BY <2>7, <3>4, ZenonT(30) DEF BroadcastDrop
      <4> HIDE DEF td
      <4>2. /\ m_deferred' = [m_deferred EXCEPT ![mutex_obj[td]] = TRUE]
            /\ \A v \in Threads \ {t} : defer_waiters'[v] = defer_waiters[v]
        BY <3>1, <4>1, Deferred, ZenonT(30)
      <4>3. CASE s = t
        BY <3>2, <3>3, <3>4, <4>2, <4>3, ZenonT(30) DEF WillPost
      <4>4. CASE s # t
        BY <3>3, <4>2, <4>4, ZenonT(30) DEF WillPost
      <4> QED BY <4>3, <4>4, Zenon
    <3>5. CASE m_owner[mutex_obj[td]] # t
      <4>1. UNCHANGED <<defer_waiters, m_deferred>>
        BY <2>7, <3>5, ZenonT(30) DEF BroadcastDrop
      <4> QED BY <3>3, <4>1, ZenonT(30) DEF WillPost
    <3> QED BY <3>4, <3>5, Zenon
  <2>8. CASE BroadcastEnd(t) \/ Release(t) \/ CancelPost(t)
    <3>1. /\ UNCHANGED <<m_owner, m_deferred, will_sleep, cancel_pending, defer_waiters>>
          /\ pc[t] \in {"drop", "release", "cancel"}
          /\ pc' = [pc EXCEPT ![t] = "run"] \/ pc' = [pc EXCEPT ![t] = "release"]
      BY <2>8, ZenonT(30) DEF BroadcastEnd, Release, CancelPost
    <3> QED BY <3>1, ZenonT(30) DEF WillPost
  <2> QED BY <1>1, <2>1, <2>2, <2>3, <2>4, <2>5, <2>6, <2>7, <2>8, ZenonT(30) DEF Continue
<1>2. ASSUME NEW t \in Threads, TimeOut(t) PROVE Keeps(s)'
  BY <1>2, ZenonT(30) DEF TimeOut, WillPost
<1>3. ASSUME NEW t \in Threads, Relock(t) PROVE Keeps(s)'
  <2>1. mp[t] \in Mutexes /\ m_owner[mp[t]] = NoThread
    BY <1>3, ZenonT(30) DEF Relock, CallMatches, InWait
  <2>2. \A m \in Mutexes : m_owner[m] = s => m_owner'[m] = s
    BY <1>3, <2>1, ZenonT(30) DEF Relock
  <2> QED BY <1>3, <2>2, ZenonT(30) DEF Relock, WillPost
<1>4. ASSUME NEW t \in Threads, SetCancelState(t) \/ TestCancel(t) PROVE Keeps(s)'
  BY <1>4, ZenonT(30) DEF SetCancelState, TestCancel, WillPost
<1>5. ASSUME NEW t \in Threads, NEW m \in Mutexes, Lock(t, m) PROVE Keeps(s)'
  <2>1. \A n \in Mutexes : m_owner[n] = s => m_owner'[n] = s
    BY <1>5 DEF Lock
  <2> QED BY <1>5, <2>1, ZenonT(30) DEF Lock, WillPost
<1>6. ASSUME NEW t \in Threads, NEW m \in Mutexes, Unlock(t, m) PROVE Keeps(s)'
  <2>1. CASE s = t
    <3>1. /\ pc[s] = "run" /\ UNCHANGED <<will_sleep, cancel_pending, defer_waiters>>
          /\ m_owner[m] = s
      BY <1>6, <2>1, ZenonT(30) DEF Unlock
    <3>2. CASE UNCHANGED <<m_owner, m_deferred, pc>>
      BY <3>1, <3>2 DEF WillPost
    <3>3. CASE ~UNCHANGED <<m_owner, m_deferred, pc>>
      <4>1. /\ m_owner' = [m_owner EXCEPT ![m] = NoThread]
            /\ m_deferred' = [m_deferred EXCEPT ![m] = FALSE]
            /\ pc' = IF m_deferred[m] /\ ~will_sleep[t] /\ defer_waiters[t] # <<>>
                     THEN [pc EXCEPT ![t] = "flush"] ELSE pc
        BY <1>6, <3>3, ZenonT(30) DEF Unlock
      <4>2. CASE m_deferred[m] /\ ~will_sleep[t] /\ defer_waiters[t] # <<>>
        <5>1. pc'[s] = "flush"
          BY <2>1, <4>1, <4>2
        <5> QED BY <2>1, <3>1, <4>2, <5>1, ZenonT(30) DEF WillPost
      <4>3. CASE ~(m_deferred[m] /\ ~will_sleep[t] /\ defer_waiters[t] # <<>>)
        <5>1. UNCHANGED pc
          BY <4>1, <4>3, ZenonT(30)
        <5>2. ASSUME NEW n \in Mutexes, m_owner[n] = s, m_deferred[n], n # m
              PROVE  m_owner'[n] = s /\ m_deferred'[n]
          BY <4>1, <5>2, ZenonT(30)
        <5> QED BY <2>1, <3>1, <4>3, <5>1, <5>2, Zenon DEF WillPost
      <4> QED BY <4>2, <4>3, Zenon
    <3> QED BY <3>2, <3>3, Zenon
  <2>2. CASE s # t
    <3>1. \A n \in Mutexes : m_owner[n] = s /\ m_deferred[n] => m_owner'[n] = s /\ m_deferred'[n]
      BY <1>6, <2>2, Zenon DEF Unlock
    <3>2. pc'[s] = pc[s] /\ UNCHANGED <<will_sleep, cancel_pending, defer_waiters>>
      BY <1>6, <2>2 DEF Unlock
    <3> QED BY <3>1, <3>2 DEF WillPost
  <2> QED BY <2>1, <2>2, Zenon
<1>7. ASSUME NEW t \in Threads, NEW c \in Conds, NEW m \in Mutexes, NEW b \in Deadlines,
             WaitBegin(t, c, m, b)
      PROVE  Keeps(s)'
  <2>1. CASE s = t
    BY <1>7, <2>1, ZenonT(30) DEF WaitBegin, WillPost
  <2>2. CASE s # t
    <3>1. \A n \in Mutexes : m_owner[n] = s /\ m_deferred[n] => m_owner'[n] = s /\ m_deferred'[n]
      BY <1>7, <2>2, ZenonT(30) DEF WaitBegin
    <3>2. /\ pc'[s] = pc[s] /\ will_sleep'[s] = will_sleep[s]
          /\ UNCHANGED <<cancel_pending, defer_waiters>>
      BY <1>7, <2>2 DEF WaitBegin
    <3> QED BY <3>1, <3>2, ZenonT(30) DEF WillPost
  <2> QED BY <2>1, <2>2, Zenon
<1>8. ASSUME NEW t \in Threads, NEW c \in Conds, NEW td \in Threads, Taken(t, c, td)
      PROVE  Keeps(s)'
  <2>1. mutex_obj[td] \in Mutexes
    <3>1. wchan[td] # NoCond
      BY <1>8, ZenonT(30) DEF Taken
    <3>2. pc[td] \in {"arm", "sleep", "woken"} /\ mutex_obj[td] = mp[td]
      BY <3>1, ZenonT(30) DEF QueueMatchesWchan
    <3> QED BY <3>2, ZenonT(30) DEF CallMatches, InWait
  <2>2. pc[t] = "run" /\ UNCHANGED <<m_owner, will_sleep, cancel_pending>>
    BY <1>8, ZenonT(30) DEF Taken, Dequeue
  <2>3. CASE m_owner[mutex_obj[td]] = t
    <3>1. Defer(t, td, mutex_obj[td]) /\ UNCHANGED pc
      BY <1>8, <2>3, ZenonT(30) DEF Taken, Dequeue
    <3>2. /\ m_deferred' = [m_deferred EXCEPT ![mutex_obj[td]] = TRUE]
          /\ \A v \in Threads \ {t} : defer_waiters'[v] = defer_waiters[v]
      BY <3>1, Deferred, ZenonT(30)
    <3>3. CASE s = t
      BY <2>1, <2>2, <2>3, <3>1, <3>2, <3>3, ZenonT(30) DEF WillPost
    <3>4. CASE s # t
      BY <2>2, <3>1, <3>2, <3>4, ZenonT(30) DEF WillPost
    <3> QED BY <3>3, <3>4, Zenon
  <2>4. CASE m_owner[mutex_obj[td]] # t
    <3>1. UNCHANGED <<defer_waiters, m_deferred>> /\ pc' = [pc EXCEPT ![t] = "release"]
      BY <1>8, <2>4, ZenonT(30) DEF Taken, Dequeue
    <3> QED BY <2>2, <3>1, ZenonT(30) DEF WillPost
  <2> QED BY <2>3, <2>4, Zenon
<1>9. ASSUME NEW t \in Threads, NEW c \in Conds, BroadcastBegin(t, c) PROVE Keeps(s)'
  BY <1>9, ZenonT(30) DEF BroadcastBegin, WillPost
<1>10. ASSUME NEW t \in Threads, NEW u \in Threads, CancelBegin(t, u) PROVE Keeps(s)'
  BY <1>10, ZenonT(30) DEF CancelBegin, WillPost
<1>11. CASE UNCHANGED vars
  BY <1>11 DEF vars, WillPost
<1> QED BY <1>1, <1>2, <1>3, <1>4, <1>5, <1>6, <1>7, <1>8, <1>9, <1>10, <1>11, NextCases, ZenonT(40)

-------------------------------------------------------------------------------
\* Every step keeps the inductive invariant.
LEMMA Inductive == EntriesAreCounted /\ IInv /\ [Next]_vars => IInv'
<1> SUFFICES ASSUME EntriesAreCounted, IInv, [Next]_vars PROVE IInv'
  OBVIOUS
<1> USE DEF IInv
<1>1. TypeOK' /\ CallMatches'
  BY TypeStep, CallStep
<1>2. DepthMatches' /\ LockMatches'
  BY DepthStep, LockStep
<1>3. QueueMatchesWchan' /\ ArmedIsQueued'
  BY <1>1, QueueStep
<1>4. WakeIsOwed' /\ PostsKept'
  BY <1>1, WakeStep, PostStep
<1> QED BY <1>1, <1>2, <1>3, <1>4, Zenon
===============================================================================
