--------------------------- MODULE PthreadSemProofs ---------------------------
(***************************************************************************)
(* PthreadSem loses no wake-up, for any threads, values and bounds.  Alone, *)
(* NoIdleToken is not inductive: the waiter that is about to be published   *)
(* has looked at the value before, and only the post that changed it since  *)
(* can make up for that.                                                    *)
(***************************************************************************)
EXTENDS PthreadSem, TLAPS

\* wait_mutex is held between a step and the next only by the thread that has
\* found no token under it.
MutexMatches == \A t \in Threads : pc[t] = "publish" <=> wait_mutex = t

\* A token that came after the last look of a thread about to be published has a
\* post behind it that cannot get at wait_mutex before the thread is published.
TokenBehindLook ==
    value > 0 /\ wait_mutex # NoThread => \E s \in Threads : pc[s] = "notify"

CancelHasTarget == \A s \in Threads : pc[s] = "cancel" => target[s] \in Threads

IInv == SemSafe /\ MutexMatches /\ TokenBehindLook /\ CancelHasTarget

-------------------------------------------------------------------------------
\* A new semaphore, on which nobody waits.
LEMMA InitIInv == Init => IInv
<1> SUFFICES ASSUME Init PROVE IInv
  OBVIOUS
<1>1. TypeOK
  BY PthreadSemAssumption DEF Init, TypeOK, Steps
<1>2. NoIdleToken /\ SleeperIsWoken
  BY DEF Init, NoIdleToken, SleeperIsWoken
<1>3. MutexMatches /\ TokenBehindLook /\ CancelHasTarget
  BY PthreadSemAssumption DEF Init, MutexMatches, TokenBehindLook, CancelHasTarget
<1> QED BY <1>1, <1>2, <1>3 DEF IInv, SemSafe

\* Every action keeps the types; only CancelPost reads a thread from a variable.
LEMMA TypeStep == TypeOK /\ CancelHasTarget /\ [Next]_vars => TypeOK'
<1> SUFFICES ASSUME TypeOK, CancelHasTarget, [Next]_vars PROVE TypeOK'
  OBVIOUS
<1> USE PthreadSemAssumption DEF TypeOK, Steps, semVars, cancelVars, callVars, Goto, Running
<1>1. ASSUME NEW t \in Threads, Continue(t) PROVE TypeOK'
  <2>1. CASE TryAcquire(t)
    BY <2>1 DEF TryAcquire
  <2>2. CASE WaitTest(t)
    BY <2>2, ZenonT(30) DEF WaitTest
  <2>3. CASE WaitEnter(t)
    BY <2>3 DEF WaitEnter
  <2>4. CASE WaitPublish(t)
    <3>1. CASE ShouldCancel(t)
      BY <2>4, <3>1, ZenonT(30) DEF WaitPublish
    <3>2. CASE ~ShouldCancel(t)
      BY <2>4, <3>2 DEF WaitPublish
    <3> QED BY <3>1, <3>2
  <2>5. CASE Sleep(t)
    <3>1. wake_sema' \in [Threads -> Nat]
      BY <2>5 DEF Sleep
    <3>2. woke' \in [Threads -> BOOLEAN]
      BY <2>5, Zenon DEF Sleep
    <3>3. pc' \in [Threads -> Steps]
      BY <2>5 DEF Sleep
    <3> QED BY <2>5, <3>1, <3>2, <3>3 DEF Sleep
  <2>6. CASE WaitLeave(t)
    BY <2>6 DEF WaitLeave
  <2>7. CASE WaitRetry(t)
    BY <2>7, ZenonT(30) DEF WaitRetry, ShouldCancel
  <2>8. CASE PostNotify(t)
    BY <2>8 DEF PostNotify
  <2>9. CASE CancelPost(t)
    <3>1. target[t] \in Threads
      BY <2>9 DEF CancelPost, CancelHasTarget
    <3>2. wake_sema' \in [Threads -> Nat]
      BY <2>9, <3>1 DEF CancelPost
    <3> QED BY <2>9, <3>2 DEF CancelPost
  <2> QED BY <1>1, <2>1, <2>2, <2>3, <2>4, <2>5, <2>6, <2>7, <2>8, <2>9 DEF Continue
<1>2. ASSUME NEW t \in Threads, TryWait(t) PROVE TypeOK'
  BY <1>2 DEF TryWait
<1>3. ASSUME NEW t \in Threads, Post(t) PROVE TypeOK'
  BY <1>3 DEF Post
<1>4. ASSUME NEW t \in Threads, SetCancelState(t) PROVE TypeOK'
  BY <1>4 DEF SetCancelState
<1>5. ASSUME NEW t \in Threads, StalePost(t) PROVE TypeOK'
  BY <1>5 DEF StalePost
<1>6. ASSUME NEW t \in Threads, NEW d \in Deadlines, WaitBegin(t, d) PROVE TypeOK'
  BY <1>6 DEF WaitBegin
<1>7. ASSUME NEW t \in Threads, NEW u \in Threads, CancelBegin(t, u) PROVE TypeOK'
  BY <1>7 DEF CancelBegin
<1>8. CASE UNCHANGED vars
  BY <1>8 DEF vars
<1> QED BY <1>1, <1>2, <1>3, <1>4, <1>5, <1>6, <1>7, <1>8 DEF Next

-------------------------------------------------------------------------------
\* wait_mutex stays held from WaitEnter to WaitPublish and by nobody else.
LEMMA MutexStep == TypeOK /\ MutexMatches /\ [Next]_vars => MutexMatches'
<1> SUFFICES ASSUME TypeOK, MutexMatches, [Next]_vars PROVE MutexMatches'
  OBVIOUS
<1> USE PthreadSemAssumption
    DEF TypeOK, MutexMatches, semVars, cancelVars, callVars, Goto, Running
<1>1. ASSUME NEW t \in Threads, Continue(t) PROVE MutexMatches'
  <2>1. CASE WaitEnter(t)
    BY <2>1 DEF WaitEnter
  <2>2. CASE WaitPublish(t)
    BY <2>2 DEF WaitPublish
  <2>3. CASE TryAcquire(t) \/ WaitTest(t) \/ Sleep(t) \/ WaitLeave(t) \/ WaitRetry(t)
             \/ PostNotify(t) \/ CancelPost(t)
    <3>1. /\ wait_mutex' = wait_mutex
          /\ pc[t] # "publish"
          /\ \E step \in Steps \ {"publish"} : pc' = [pc EXCEPT ![t] = step]
      BY <2>3 DEF TryAcquire, WaitTest, Sleep, WaitLeave, WaitRetry, PostNotify, CancelPost,
                  Steps
    <3> QED BY <3>1 DEF Steps
  <2> QED BY <1>1, <2>1, <2>2, <2>3 DEF Continue
<1>2. ASSUME NEW t \in Threads, TryWait(t) \/ SetCancelState(t) \/ StalePost(t)
      PROVE  MutexMatches'
  BY <1>2 DEF TryWait, SetCancelState, StalePost
<1>3. ASSUME NEW t \in Threads, NEW d \in Deadlines, WaitBegin(t, d) PROVE MutexMatches'
  BY <1>3 DEF WaitBegin
<1>4. ASSUME NEW t \in Threads, Post(t) PROVE MutexMatches'
  BY <1>4 DEF Post
<1>5. ASSUME NEW t \in Threads, NEW u \in Threads, CancelBegin(t, u) PROVE MutexMatches'
  BY <1>5 DEF CancelBegin
<1>6. CASE UNCHANGED vars
  BY <1>6 DEF vars
<1> QED BY <1>1, <1>2, <1>3, <1>4, <1>5, <1>6 DEF Next

\* No token is idle beside a published waiter or one about to be published.
LEMMA TokenStep ==
    TypeOK /\ MutexMatches /\ NoIdleToken /\ TokenBehindLook /\ [Next]_vars
        => NoIdleToken' /\ TokenBehindLook'
<1> SUFFICES ASSUME TypeOK, MutexMatches, NoIdleToken, TokenBehindLook, [Next]_vars
             PROVE  NoIdleToken' /\ TokenBehindLook'
  OBVIOUS
<1> USE DEF TypeOK, MutexMatches, NoIdleToken, TokenBehindLook, semVars, cancelVars, callVars,
            Goto, Running
<1>1. ASSUME NEW t \in Threads, Continue(t) PROVE NoIdleToken' /\ TokenBehindLook'
  <2>1. CASE TryAcquire(t)
    <3>1. \A s \in Threads : pc[s] = "notify" => pc'[s] = "notify"
      BY <2>1 DEF TryAcquire
    <3> QED BY <2>1, <3>1 DEF TryAcquire
  <2>2. CASE WaitTest(t)
    BY <2>2 DEF WaitTest
  <2>3. CASE WaitEnter(t)
    BY <2>3 DEF WaitEnter
  <2>4. CASE WaitPublish(t)
    <3>1. \A s \in Threads : pc[s] = "notify" => pc'[s] = "notify"
      BY <2>4 DEF WaitPublish
    <3>2. wait_mutex = t /\ t # NoThread
      BY <2>4, PthreadSemAssumption DEF WaitPublish
    <3> QED BY <2>4, <3>1, <3>2 DEF WaitPublish
  <2>5. CASE Sleep(t)
    <3>1. \A s \in Threads : pc[s] = "notify" => pc'[s] = "notify"
      BY <2>5 DEF Sleep
    <3> QED BY <2>5, <3>1 DEF Sleep
  <2>6. CASE WaitLeave(t)
    <3>1. \A s \in Threads : pc[s] = "notify" => pc'[s] = "notify"
      BY <2>6 DEF WaitLeave
    <3> QED BY <2>6, <3>1 DEF WaitLeave
  <2>7. CASE WaitRetry(t)
    BY <2>7 DEF WaitRetry
  <2>8. CASE PostNotify(t)
    BY <2>8 DEF PostNotify
  <2>9. CASE CancelPost(t)
    <3>1. \A s \in Threads : pc[s] = "notify" => pc'[s] = "notify"
      BY <2>9 DEF CancelPost
    <3> QED BY <2>9, <3>1 DEF CancelPost
  <2> QED BY <1>1, <2>1, <2>2, <2>3, <2>4, <2>5, <2>6, <2>7, <2>8, <2>9 DEF Continue
<1>2. ASSUME NEW t \in Threads, TryWait(t) PROVE NoIdleToken' /\ TokenBehindLook'
  BY <1>2 DEF TryWait
<1>3. ASSUME NEW t \in Threads, Post(t) PROVE NoIdleToken' /\ TokenBehindLook'
  <2>1. pc'[t] = "notify"
    BY <1>3 DEF Post
  <2> QED BY <2>1
<1>4. ASSUME NEW t \in Threads, SetCancelState(t) \/ StalePost(t)
      PROVE  NoIdleToken' /\ TokenBehindLook'
  BY <1>4 DEF SetCancelState, StalePost
<1>5. ASSUME NEW t \in Threads, NEW d \in Deadlines, WaitBegin(t, d)
      PROVE  NoIdleToken' /\ TokenBehindLook'
  <2>1. \A s \in Threads : pc[s] = "notify" => pc'[s] = "notify"
    BY <1>5 DEF WaitBegin
  <2> QED BY <1>5, <2>1 DEF WaitBegin
<1>6. ASSUME NEW t \in Threads, NEW u \in Threads, CancelBegin(t, u)
      PROVE  NoIdleToken' /\ TokenBehindLook'
  <2>1. \A s \in Threads : pc[s] = "notify" => pc'[s] = "notify"
    BY <1>6 DEF CancelBegin
  <2> QED BY <1>6, <2>1 DEF CancelBegin
<1>7. CASE UNCHANGED vars
  BY <1>7, SMTT(20) DEF vars
<1> QED BY <1>1, <1>2, <1>3, <1>4, <1>5, <1>6, <1>7 DEF Next

\* Between CancelBegin and CancelPost the target stays.
LEMMA TargetStep == TypeOK /\ CancelHasTarget /\ [Next]_vars => CancelHasTarget'
<1> SUFFICES ASSUME TypeOK, CancelHasTarget, [Next]_vars PROVE CancelHasTarget'
  OBVIOUS
<1> USE DEF TypeOK, CancelHasTarget, semVars, cancelVars, callVars, Goto, Running
<1>1. ASSUME NEW t \in Threads, Continue(t) PROVE CancelHasTarget'
  <2>1. CASE CancelPost(t)
    BY <2>1 DEF CancelPost
  <2>2. CASE ~CancelPost(t)
    <3>1. /\ target' = target
          /\ \E step \in Steps \ {"cancel"} : pc' = [pc EXCEPT ![t] = step]
      BY <1>1, <2>2 DEF Continue, TryAcquire, WaitTest, WaitEnter, WaitPublish, Sleep,
                        WaitLeave, WaitRetry, PostNotify, Steps
    <3> QED BY <3>1
  <2> QED BY <2>1, <2>2
<1>2. ASSUME NEW t \in Threads, TryWait(t) \/ Post(t) \/ SetCancelState(t) \/ StalePost(t)
      PROVE  CancelHasTarget'
  BY <1>2 DEF TryWait, Post, SetCancelState, StalePost
<1>3. ASSUME NEW t \in Threads, NEW d \in Deadlines, WaitBegin(t, d) PROVE CancelHasTarget'
  BY <1>3 DEF WaitBegin
<1>4. ASSUME NEW t \in Threads, NEW u \in Threads, CancelBegin(t, u) PROVE CancelHasTarget'
  BY <1>4 DEF CancelBegin
<1>5. CASE UNCHANGED vars
  BY <1>5 DEF vars
<1> QED BY <1>1, <1>2, <1>3, <1>4, <1>5 DEF Next

-------------------------------------------------------------------------------
\* The three ways SleeperIsWoken speaks of one thread.
PublishedSleeps(t) == t \in waiters => pc[t] \in {"sleep", "leave"}

TokenPosted(t) == pc[t] = "sleep" /\ t \notin waiters => wake_sema[t] > 0

CancelPosted(t) ==
    pc[t] = "sleep" /\ ShouldCancel(t)
        => wake_sema[t] > 0 \/ \E s \in Threads : pc[s] = "cancel" /\ target[s] = t

WokenOne(t) == PublishedSleeps(t) /\ TokenPosted(t) /\ CancelPosted(t)

\* SleeperIsWoken, thread by thread.
LEMMA WokenByThread ==
    ASSUME TypeOK PROVE SleeperIsWoken <=> \A t \in Threads : WokenOne(t)
  BY SMTT(20) DEF TypeOK, SleeperIsWoken, WokenOne, PublishedSleeps, TokenPosted, CancelPosted

\* A sleeper that must wake up has its post, or somebody on the way to make it.
LEMMA WokenStep ==
    TypeOK /\ TypeOK' /\ MutexMatches /\ CancelHasTarget /\ SleeperIsWoken /\ [Next]_vars
        => SleeperIsWoken'
<1> SUFFICES ASSUME TypeOK, TypeOK', MutexMatches, CancelHasTarget, SleeperIsWoken,
                    [Next]_vars,
                    NEW r \in Threads
             PROVE  WokenOne(r)'
  BY DEF SleeperIsWoken, WokenOne, PublishedSleeps, TokenPosted, CancelPosted, TypeOK
<1>0. WokenOne(r)
  BY WokenByThread
<1> USE DEF TypeOK, WokenOne, PublishedSleeps, TokenPosted, CancelPosted, ShouldCancel,
            semVars, cancelVars, callVars, Goto, Running
<1>1. ASSUME NEW t \in Threads, TryAcquire(t) PROVE WokenOne(r)'
  BY <1>0, <1>1 DEF TryAcquire
<1>2. ASSUME NEW t \in Threads, WaitTest(t) PROVE WokenOne(r)'
  BY <1>0, <1>2 DEF WaitTest
<1>3. ASSUME NEW t \in Threads, WaitEnter(t) PROVE WokenOne(r)'
  BY <1>0, <1>3 DEF WaitEnter
<1>4. ASSUME NEW t \in Threads, WaitPublish(t) PROVE WokenOne(r)'
  BY <1>0, <1>4 DEF WaitPublish
<1>5. ASSUME NEW t \in Threads, Sleep(t) PROVE WokenOne(r)'
  BY <1>0, <1>5 DEF Sleep
<1>6. ASSUME NEW t \in Threads, WaitLeave(t) PROVE WokenOne(r)'
  BY <1>0, <1>6 DEF WaitLeave
<1>7. ASSUME NEW t \in Threads, WaitRetry(t) PROVE WokenOne(r)'
  BY <1>0, <1>7 DEF WaitRetry
<1>8. ASSUME NEW t \in Threads, PostNotify(t) PROVE WokenOne(r)'
  BY <1>0, <1>8 DEF PostNotify
<1>9. ASSUME NEW t \in Threads, CancelPost(t) PROVE WokenOne(r)'
  BY <1>0, <1>9 DEF CancelPost, CancelHasTarget
<1>10. ASSUME NEW t \in Threads, Post(t) PROVE WokenOne(r)'
  BY <1>0, <1>10 DEF Post
<1>11. ASSUME NEW t \in Threads, TryWait(t) PROVE WokenOne(r)'
  BY <1>0, <1>11 DEF TryWait
<1>12. ASSUME NEW t \in Threads, SetCancelState(t) PROVE WokenOne(r)'
  BY <1>0, <1>12 DEF SetCancelState
<1>13. ASSUME NEW t \in Threads, StalePost(t) PROVE WokenOne(r)'
  BY <1>0, <1>13 DEF StalePost
<1>14. ASSUME NEW t \in Threads, NEW d \in Deadlines, WaitBegin(t, d) PROVE WokenOne(r)'
  BY <1>0, <1>14 DEF WaitBegin
<1>15. ASSUME NEW t \in Threads, NEW u \in Threads, CancelBegin(t, u) PROVE WokenOne(r)'
  BY <1>0, <1>15 DEF CancelBegin
<1>16. CASE UNCHANGED vars
  BY <1>0, <1>16 DEF vars
<1> QED BY <1>1, <1>2, <1>3, <1>4, <1>5, <1>6, <1>7, <1>8, <1>9, <1>10, <1>11, <1>12, <1>13,
           <1>14, <1>15, <1>16 DEF Next, Continue

-------------------------------------------------------------------------------
\* The invariant is kept by every step of posix_sem_wait, posix_sem_post and a cancellation.
LEMMA Inductive == IInv /\ [Next]_vars => IInv'
<1> SUFFICES ASSUME IInv, [Next]_vars PROVE IInv'
  OBVIOUS
<1>1. TypeOK' /\ CancelHasTarget' /\ MutexMatches'
  BY TypeStep, TargetStep, MutexStep DEF IInv, SemSafe
<1>2. NoIdleToken' /\ TokenBehindLook'
  BY TokenStep DEF IInv, SemSafe
<1>3. SleeperIsWoken'
  BY <1>1, WokenStep DEF IInv, SemSafe
<1> QED BY <1>1, <1>2, <1>3 DEF IInv, SemSafe

\* posix_sem_wait loses no wake-up, of a token or of a cancellation, for any number of
\* threads, any value and any number of late posts by condition variables.
THEOREM SemLosesNoWakeup == Spec => []SemSafe
<1>1. IInv => SemSafe
  BY DEF IInv
<1> QED BY <1>1, InitIInv, Inductive, PTL DEF Spec
===============================================================================
