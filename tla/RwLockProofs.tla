----------------------------- MODULE RwLockProofs -----------------------------
(***************************************************************************)
(* For any number of threads, a writer is alone and the counts of the lock *)
(* agree.  The flag of SharedFirstMutex is followed from the step that     *)
(* takes the mutex to the one that gives it back, past the steps in which  *)
(* the owner is written: it is up exactly while there is a writer.         *)
(***************************************************************************)
EXTENDS RwLock, FiniteSetTheorems, TLAPS

\* The flag is up while a thread has the lock to itself, and a thread on its way to own
\* the lock, or to give it back, has no write lock of its calls.
WriterKnown ==
    /\ writer_active <=> Writers # {}
    /\ \A t \in Threads : pc[t] \in {"own", "unlock"} => ~writes[t]

IInv == LocksSafe /\ WriterKnown

-------------------------------------------------------------------------------
(* The read locks *)

\* There are finitely many read locks, and none when no thread has a share.
LEMMA ReadLocksFacts ==
    ASSUME RwLockAssumption, TypeOK
    PROVE  /\ IsFiniteSet(ReadLocks)
           /\ Cardinality(ReadLocks) \in Nat
           /\ Cardinality(ReadLocks) = 0 <=> \A t \in Threads : Shares(t) = 0
           /\ \A t \in Threads : Shares(t) \in 0 .. MaxReads + 1
<1>1. /\ IsFiniteSet(Threads)
      /\ MaxReads \in Nat /\ 1 \in Int /\ MaxReads + 1 \in Int
  BY DEF RwLockAssumption
<1>2. IsFiniteSet(1 .. MaxReads + 1)
  BY <1>1, FS_Interval
<1>3. IsFiniteSet(Threads \X (1 .. MaxReads + 1))
  BY <1>1, <1>2, FS_Product
<1>4. IsFiniteSet(ReadLocks)
  BY <1>3, FS_Subset DEF ReadLocks
<1>5. Cardinality(ReadLocks) \in Nat /\ (Cardinality(ReadLocks) = 0 <=> ReadLocks = {})
  BY <1>4, FS_CardinalityType, FS_EmptySet
<1>6. \A t \in Threads : Shares(t) \in 0 .. MaxReads + 1
  BY <1>1 DEF TypeOK, Shares
<1>7. ReadLocks = {} <=> \A t \in Threads : Shares(t) = 0
  <2>1. ASSUME NEW t \in Threads, Shares(t) # 0 PROVE <<t, 1>> \in ReadLocks
    BY <1>1, <1>6, <2>1 DEF ReadLocks
  <2>2. ASSUME NEW l \in ReadLocks PROVE l[1] \in Threads /\ Shares(l[1]) # 0
    <3>1. l[1] \in Threads /\ l[2] \in 1 .. MaxReads + 1 /\ l[2] <= Shares(l[1])
      BY DEF ReadLocks
    <3> QED BY <1>1, <1>6, <3>1
  <2> QED BY <2>1, <2>2, Zenon
<1> QED BY <1>4, <1>5, <1>6, <1>7

\* The count when one thread takes a share, read from left to right, or gives one back,
\* read from right to left.
LEMMA OneShare ==
    ASSUME RwLockAssumption, NEW P, NEW Q, NEW p, NEW q, NEW t \in Threads,
           P = {l \in Threads \X (1 .. MaxReads + 1) : l[2] <= p[l[1]]},
           Q = {l \in Threads \X (1 .. MaxReads + 1) : l[2] <= q[l[1]]},
           IsFiniteSet(P), p[t] \in 0 .. MaxReads, q[t] = p[t] + 1,
           \A u \in Threads \ {t} : q[u] = p[u]
    PROVE  Cardinality(Q) = Cardinality(P) + 1
<1>0. MaxReads \in Nat
  BY DEF RwLockAssumption
<1> DEFINE new == <<t, p[t] + 1>>
<1>1. new \in Threads \X (1 .. MaxReads + 1) /\ new \notin P /\ new \in Q
  BY <1>0
<1>2. ASSUME NEW l \in Threads \X (1 .. MaxReads + 1), l # new
      PROVE  l[2] <= q[l[1]] <=> l[2] <= p[l[1]]
  <2>1. CASE l[1] # t
    BY <2>1
  <2>2. CASE l[1] = t
    <3>1. l[2] \in 1 .. MaxReads + 1 /\ l = <<l[1], l[2]>>
      OBVIOUS
    <3>2. l[2] # p[t] + 1
      BY <1>2, <2>2, <3>1
    <3> QED BY <1>0, <2>2, <3>1, <3>2
  <2> QED BY <2>1, <2>2
<1> HIDE DEF new
<1>3. Q = P \cup {new}
  BY <1>1, <1>2
<1>4. Cardinality(P \cup {new}) = IF new \in P THEN Cardinality(P) ELSE Cardinality(P) + 1
  BY ONLY IsFiniteSet(P), FS_AddElement
<1> QED BY ONLY <1>1, <1>3, <1>4

\* Nobody takes or gives back a share.
LEMMA SameShares ==
    ASSUME \A u \in Threads : Shares(u)' = Shares(u)
    PROVE  ReadLocks' = ReadLocks
<1>1. ReadLocks' = {l \in Threads \X (1 .. MaxReads + 1) : l[2] <= Shares(l[1])'}
  BY DEF ReadLocks
<1> QED BY <1>1 DEF ReadLocks

\* A thread takes a share.
LEMMA ShareTaken ==
    ASSUME RwLockAssumption, TypeOK, NEW t \in Threads, Shares(t) <= MaxReads,
           Shares(t)' = Shares(t) + 1, \A u \in Threads \ {t} : Shares(u)' = Shares(u)
    PROVE  Cardinality(ReadLocks') = Cardinality(ReadLocks) + 1
<1> DEFINE p == [u \in Threads |-> Shares(u)]
           q == [u \in Threads |-> Shares(u)']
<1>1. IsFiniteSet(ReadLocks) /\ Shares(t) \in 0 .. MaxReads
  BY ReadLocksFacts DEF RwLockAssumption
<1>2. ReadLocks = {l \in Threads \X (1 .. MaxReads + 1) : l[2] <= p[l[1]]}
  BY DEF ReadLocks
<1>3. ReadLocks' = {l \in Threads \X (1 .. MaxReads + 1) : l[2] <= q[l[1]]}
  BY DEF ReadLocks
<1>4. p[t] \in 0 .. MaxReads /\ q[t] = p[t] + 1 /\ \A u \in Threads \ {t} : q[u] = p[u]
  BY <1>1
<1> HIDE DEF p, q
<1> QED BY <1>1, <1>2, <1>3, <1>4, OneShare

\* A thread gives a share back.
LEMMA ShareGiven ==
    ASSUME RwLockAssumption, TypeOK, NEW t \in Threads, Shares(t) > 0,
           Shares(t)' = Shares(t) - 1, \A u \in Threads \ {t} : Shares(u)' = Shares(u)
    PROVE  /\ Cardinality(ReadLocks') \in Nat
           /\ Cardinality(ReadLocks) = Cardinality(ReadLocks') + 1
<1> DEFINE p == [u \in Threads |-> Shares(u)']
           q == [u \in Threads |-> Shares(u)]
<1>0. MaxReads \in Nat
  BY DEF RwLockAssumption
<1>1. IsFiniteSet(ReadLocks) /\ Shares(t) \in 0 .. MaxReads + 1
  BY ReadLocksFacts
<1>2. ReadLocks' = {l \in Threads \X (1 .. MaxReads + 1) : l[2] <= p[l[1]]}
  BY DEF ReadLocks
<1>3. ReadLocks = {l \in Threads \X (1 .. MaxReads + 1) : l[2] <= q[l[1]]}
  BY DEF ReadLocks
<1>4. p[t] \in 0 .. MaxReads /\ q[t] = p[t] + 1 /\ \A u \in Threads \ {t} : q[u] = p[u]
  BY <1>0, <1>1
<1> HIDE DEF p, q
<1>5. ReadLocks' \subseteq ReadLocks
  <2>1. ASSUME NEW l \in Threads \X (1 .. MaxReads + 1), l[2] <= p[l[1]]
        PROVE  l[2] <= q[l[1]]
    <3>1. l[1] \in Threads /\ l[2] \in 1 .. MaxReads + 1
      OBVIOUS
    <3>2. CASE l[1] = t
      BY <1>0, <1>4, <2>1, <3>1, <3>2
    <3>3. CASE l[1] # t
      BY <1>4, <2>1, <3>1, <3>3
    <3> QED BY <3>2, <3>3
  <2> QED BY <1>2, <1>3, <2>1
<1>6. IsFiniteSet(ReadLocks')
  BY <1>1, <1>5, FS_Subset
<1>7. Cardinality(ReadLocks') \in Nat
  BY <1>6, FS_CardinalityType
<1> QED BY <1>2, <1>3, <1>4, <1>6, <1>7, OneShare

-------------------------------------------------------------------------------
(* The steps *)

\* The steps of a call that has no lock yet.
Waits == {"run", "rdlock", "rdsleep", "wrlock", "wrsleep"}

\* The mutex is free of readers when nobody has a share.
LEMMA NoReaders ==
    ASSUME RwLockAssumption, IInv
    PROVE  readers = 0 <=> \A u \in Threads : Shares(u) = 0
BY ReadLocksFacts DEF IInv, LocksSafe, CountsMatch

\* A thread that holds a read lock, or is giving one back, has kept every writer out.
LEMMA NoWriters ==
    ASSUME IInv, NEW t \in Threads, Shares(t) # 0
    PROVE  Writers = {} /\ owner = NoThread /\ ~writer_active
<1>1. Writers = {}
  BY DEF IInv, LocksSafe, Exclusion
<1>2. \A u \in Threads : owner # u
  BY <1>1 DEF IInv, LocksSafe, CountsMatch, Writers
<1> QED BY <1>1, <1>2 DEF IInv, LocksSafe, CountsMatch, TypeOK, WriterKnown

\* A call waits, is woken or gives up: RdlockBusy, WrlockBusy, RdlockSleep, WrlockSleep
\* and TimeOut.
LEMMA WaitStep ==
    ASSUME RwLockAssumption, IInv, NEW t \in Threads, NEW s \in Waits,
           pc[t] \in Waits, pc' = [pc EXCEPT ![t] = s],
           timed' \in [Threads -> BOOLEAN],
           UNCHANGED <<mutexVars, owner, rdlock_count, heldVars>>,
           s = "rdsleep" => writer_active,
           s = "wrsleep" => writer_active \/ readers > 0
    PROVE  IInv'
<1>1. TypeOK
  BY DEF IInv, LocksSafe, CountsMatch
<1>2. /\ pc'[t] = s /\ \A u \in Threads \ {t} : pc'[u] = pc[u]
      /\ pc' \in [Threads -> Steps]
      /\ readers' = readers /\ writer_active' = writer_active /\ owner' = owner
      /\ rdlock_count' = rdlock_count /\ reads' = reads /\ writes' = writes
  BY <1>1 DEF TypeOK, mutexVars, heldVars, Waits, Steps
<1>3. TypeOK'
  BY <1>1, <1>2 DEF TypeOK
<1>4. \A u \in Threads : Shares(u)' = Shares(u)
  BY <1>2 DEF Shares, Waits
<1>5. Writers' = Writers
  BY <1>2 DEF Writers, Waits
<1>6. ReadLocks' = ReadLocks
  BY <1>4, SameShares
<1>7. Exclusion'
  BY <1>4, <1>5 DEF Exclusion, IInv, LocksSafe
<1>8. CountsMatch'
  BY <1>2, <1>3, <1>6 DEF CountsMatch, IInv, LocksSafe
<1>9. SleepersHaveReason'
  BY <1>2 DEF SleepersHaveReason, IInv, LocksSafe
<1>10. WriterKnown'
  BY <1>2, <1>5 DEF WriterKnown, IInv, Waits
<1> QED BY <1>7, <1>8, <1>9, <1>10 DEF IInv, LocksSafe

\* A read lock is taken.
LEMMA RdlockStep ==
    ASSUME RwLockAssumption, IInv, NEW t \in Threads, Rdlock(t)
    PROVE  IInv'
<1>1. TypeOK /\ MaxReads \in Nat
  BY DEF IInv, LocksSafe, CountsMatch, RwLockAssumption
<1>2. /\ pc[t] \in Waits /\ pc'[t] = "run" /\ \A u \in Threads \ {t} : pc'[u] = pc[u]
      /\ pc' \in [Threads -> Steps] /\ timed' \in [Threads -> BOOLEAN]
      /\ ~writer_active /\ writer_active' = writer_active
      /\ owner' = owner /\ writes' = writes
  BY <1>1 DEF Rdlock, Goto, SharedFree, TypeOK, Waits, Steps
<1>3. /\ reads[t] \in 0 .. MaxReads /\ reads[t] < MaxReads /\ reads'[t] = reads[t] + 1
      /\ \A u \in Threads \ {t} : reads'[u] = reads[u]
      /\ reads' \in [Threads -> 0 .. MaxReads]
  BY <1>1 DEF Rdlock, TypeOK
<1>4. /\ rdlock_count'[t] = rdlock_count[t] + 1 /\ readers' = readers + 1
      /\ \A u \in Threads \ {t} : rdlock_count'[u] = rdlock_count[u]
      /\ rdlock_count' \in [Threads -> Nat] /\ readers' \in Nat
  BY <1>1 DEF Rdlock, TypeOK
<1>5. TypeOK'
  BY <1>1, <1>2, <1>3, <1>4 DEF TypeOK
<1>6. Writers = {} /\ Writers' = {}
  <2>1. Writers = {}
    BY <1>2 DEF IInv, WriterKnown
  <2> QED BY <1>2, <2>1 DEF Writers
<1>7. Shares(t) = reads[t] /\ Shares(t)' = reads[t] + 1
  BY <1>2, <1>3 DEF Shares, Waits
<1>8. \A u \in Threads \ {t} : Shares(u)' = Shares(u)
  BY <1>2, <1>3 DEF Shares
<1>9. Cardinality(ReadLocks') = Cardinality(ReadLocks) + 1
  BY <1>1, <1>3, <1>7, <1>8, ShareTaken
<1>10. CountsMatch'
  <2>1. \A u \in Threads : owner' = u <=> writes'[u]
    BY <1>2 DEF CountsMatch, IInv, LocksSafe
  <2>2. \A u \in Threads : rdlock_count'[u] = reads'[u]
    BY <1>3, <1>4 DEF CountsMatch, IInv, LocksSafe
  <2>3. readers' = Cardinality(ReadLocks')
    BY <1>4, <1>9 DEF CountsMatch, IInv, LocksSafe
  <2> QED BY <1>5, <2>1, <2>2, <2>3 DEF CountsMatch
<1>11. SleepersHaveReason'
  <2>1. readers' > 0
    BY <1>1, <1>4 DEF TypeOK
  <2> QED BY <1>2, <2>1 DEF SleepersHaveReason, IInv, LocksSafe
<1>12. Exclusion' /\ WriterKnown'
  BY <1>2, <1>6 DEF Exclusion, WriterKnown, IInv
<1> QED BY <1>10, <1>11, <1>12 DEF IInv, LocksSafe

\* The mutex is taken exclusively, and nobody owns the lock yet.
LEMMA WrlockStep ==
    ASSUME RwLockAssumption, IInv, NEW t \in Threads, Wrlock(t)
    PROVE  IInv'
<1>1. TypeOK
  BY DEF IInv, LocksSafe, CountsMatch
<1>2. /\ pc[t] \in Waits /\ pc'[t] = "own" /\ \A u \in Threads \ {t} : pc'[u] = pc[u]
      /\ pc' \in [Threads -> Steps] /\ timed' \in [Threads -> BOOLEAN]
  BY <1>1 DEF Wrlock, Goto, TypeOK, Waits, Steps
<1>3. /\ ~writer_active /\ readers = 0 /\ writer_active' = TRUE /\ readers' = readers
      /\ owner' = owner /\ rdlock_count' = rdlock_count /\ reads' = reads /\ writes' = writes
  BY DEF Wrlock, ExclusiveFree, heldVars
<1>4. TypeOK'
  BY <1>1, <1>2, <1>3 DEF TypeOK
<1>5. Writers = {} /\ \A u \in Threads : Shares(u) = 0
  BY <1>3, NoReaders DEF IInv, WriterKnown
<1>6. \A u \in Threads : Shares(u)' = Shares(u)
  BY <1>2, <1>3 DEF Shares, Waits
<1>7. (\A u \in Threads : ~writes[u] /\ ~writes'[u]) /\ Writers' = {t}
  BY <1>2, <1>3, <1>5 DEF Writers
<1>8. ReadLocks' = ReadLocks
  BY <1>6, SameShares
<1>9. Exclusion'
  BY <1>5, <1>6, <1>7 DEF Exclusion
<1>10. CountsMatch'
  BY <1>3, <1>4, <1>8, Zenon DEF CountsMatch, IInv, LocksSafe
<1>11. SleepersHaveReason' /\ WriterKnown'
  BY <1>3, <1>7 DEF SleepersHaveReason, WriterKnown
<1> QED BY <1>9, <1>10, <1>11 DEF IInv, LocksSafe

\* The writer writes its name, and its call returns.
LEMMA OwnStep ==
    ASSUME RwLockAssumption, IInv, NEW t \in Threads, Own(t)
    PROVE  IInv'
<1>1. TypeOK
  BY DEF IInv, LocksSafe, CountsMatch
<1>2. /\ pc[t] = "own" /\ pc'[t] = "run" /\ \A u \in Threads \ {t} : pc'[u] = pc[u]
      /\ pc' \in [Threads -> Steps] /\ timed' = timed
  BY <1>1 DEF Own, Goto, TypeOK, Steps
<1>3. /\ readers' = readers /\ writer_active' = writer_active /\ owner' = t
      /\ rdlock_count' = rdlock_count /\ reads' = reads
  BY DEF Own, mutexVars
<1>4. /\ writes'[t] = TRUE /\ \A u \in Threads \ {t} : writes'[u] = writes[u]
      /\ writes' \in [Threads -> BOOLEAN]
  BY <1>1 DEF Own, TypeOK
<1>5. TypeOK'
  BY <1>1, <1>2, <1>3, <1>4 DEF TypeOK
<1>6. t \in Writers /\ \A u \in Threads \ {t} : u \notin Writers
  BY <1>2 DEF Writers, Exclusion, IInv, LocksSafe
<1>7. \A u \in Threads \ {t} : ~writes'[u] /\ pc'[u] \notin {"own", "unlock"}
  BY <1>2, <1>4, <1>6 DEF Writers
<1>8. Writers = {t} /\ Writers' = {t}
  <2>1. Writers = {t}
    BY <1>6 DEF Writers
  <2>2. Writers' = {t}
    BY <1>4, <1>7 DEF Writers
  <2> QED BY <2>1, <2>2
<1>9. \A u \in Threads : Shares(u)' = Shares(u)
  BY <1>2, <1>3 DEF Shares
<1>10. ReadLocks' = ReadLocks
  BY <1>9, SameShares
<1>11. Exclusion'
  BY <1>8, <1>9 DEF Exclusion, IInv, LocksSafe
<1>12. CountsMatch'
  <2>1. \A u \in Threads : owner' = u <=> writes'[u]
    BY <1>3, <1>4, <1>7
  <2> QED BY <1>3, <1>5, <1>10, <2>1 DEF CountsMatch, IInv, LocksSafe
<1>13. SleepersHaveReason'
  BY <1>2, <1>3 DEF SleepersHaveReason, IInv, LocksSafe
<1>14. WriterKnown'
  BY <1>2, <1>3, <1>7, <1>8 DEF WriterKnown, IInv
<1> QED BY <1>11, <1>12, <1>13, <1>14 DEF IInv, LocksSafe

\* unlock decides which side to release: the writer's, if its caller is the owner.
LEMMA UnlockBeginStep ==
    ASSUME RwLockAssumption, IInv, NEW t \in Threads, UnlockBegin(t)
    PROVE  IInv'
<1>1. TypeOK /\ MaxReads \in Nat
  BY DEF IInv, LocksSafe, CountsMatch, RwLockAssumption
<1>2. /\ pc[t] = "run" /\ \A u \in Threads \ {t} : pc'[u] = pc[u]
      /\ pc'[t] \in {"unlock", "unlock_shared"} /\ pc' \in [Threads -> Steps]
      /\ timed' = timed /\ readers' = readers /\ writer_active' = writer_active
  BY <1>1 DEF UnlockBegin, Goto, mutexVars, TypeOK, Steps
<1>3. SleepersHaveReason'
  BY <1>2 DEF SleepersHaveReason, IInv, LocksSafe
<1>4. CASE owner = t
  <2>1. /\ owner' = NoThread /\ pc'[t] = "unlock" /\ reads' = reads
        /\ rdlock_count' = rdlock_count
    BY <1>1, <1>4 DEF UnlockBegin, Goto, TypeOK
  <2>2. /\ writes'[t] = FALSE /\ \A u \in Threads \ {t} : writes'[u] = writes[u]
        /\ writes' \in [Threads -> BOOLEAN]
    BY <1>1, <1>4, Zenon DEF UnlockBegin, TypeOK
  <2>3. \A u \in Threads : writes[u] <=> u = t
    BY <1>4 DEF CountsMatch, IInv, LocksSafe
  <2>4. Writers = {t}
    BY <2>3 DEF Writers, Exclusion, IInv, LocksSafe
  <2>5. Writers' = {t}
    <3>1. \A u \in Threads \ {t} : ~writes'[u] /\ pc'[u] \notin {"own", "unlock"}
      BY <1>2, <2>2, <2>4 DEF Writers
    <3> QED BY <2>1, <3>1 DEF Writers
  <2>6. \A u \in Threads : Shares(u)' = Shares(u)
    BY <1>2, <2>1 DEF Shares
  <2>7. ReadLocks' = ReadLocks
    BY <2>6, SameShares
  <2>8. TypeOK'
    BY <1>1, <1>2, <2>1, <2>2 DEF TypeOK
  <2>9. CountsMatch'
    <3>1. \A u \in Threads : owner' = u <=> writes'[u]
      BY <2>1, <2>2, <2>3 DEF RwLockAssumption
    <3> QED BY <1>2, <2>1, <2>7, <2>8, <3>1 DEF CountsMatch, IInv, LocksSafe
  <2>10. Exclusion'
    BY <2>4, <2>5, <2>6 DEF Exclusion, IInv, LocksSafe
  <2>11. WriterKnown'
    BY <1>2, <2>2, <2>4, <2>5 DEF WriterKnown, IInv
  <2> QED BY <1>3, <2>9, <2>10, <2>11 DEF IInv, LocksSafe
<1>5. CASE owner # t
  <2>1. reads[t] > 0 /\ reads[t] \in 0 .. MaxReads /\ Shares(t) = reads[t]
    BY <1>1, <1>2, <1>5 DEF UnlockBegin, Shares, TypeOK, CountsMatch, IInv, LocksSafe
  <2>2. Writers = {} /\ owner = NoThread
    BY <1>1, <2>1, NoWriters
  <2>3. owner' = owner /\ writes' = writes /\ pc'[t] = "unlock_shared"
    BY <1>1, <1>5 DEF UnlockBegin, Goto, TypeOK
  <2>4. /\ reads'[t] = reads[t] - 1 /\ \A u \in Threads \ {t} : reads'[u] = reads[u]
        /\ reads' \in [Threads -> 0 .. MaxReads]
    BY <1>1, <1>5, <2>1 DEF UnlockBegin, TypeOK
  <2>5. rdlock_count[t] = reads[t]
    BY DEF CountsMatch, IInv, LocksSafe
  <2>6. /\ rdlock_count'[t] = reads[t] - 1
        /\ \A u \in Threads \ {t} : rdlock_count'[u] = rdlock_count[u]
        /\ rdlock_count' \in [Threads -> Nat]
    BY <1>1, <1>5, <2>1, <2>2, <2>5 DEF UnlockBegin, TypeOK
  <2>7. \A u \in Threads : Shares(u)' = Shares(u)
    BY <1>2, <2>1, <2>3, <2>4 DEF Shares
  <2>8. ReadLocks' = ReadLocks
    BY <2>7, SameShares
  <2>9. Writers' = {}
    BY <1>2, <2>2, <2>3 DEF Writers
  <2>10. TypeOK'
    BY <1>1, <1>2, <2>3, <2>4, <2>6, SMTT(20) DEF TypeOK
  <2>11. CountsMatch'
    <3>1. \A u \in Threads : rdlock_count'[u] = reads'[u]
      BY <2>4, <2>6 DEF CountsMatch, IInv, LocksSafe
    <3> QED BY <1>2, <2>3, <2>8, <2>10, <3>1, SMTT(20) DEF CountsMatch, IInv, LocksSafe
  <2>12. Exclusion' /\ WriterKnown'
    BY <1>2, <2>2, <2>3, <2>9 DEF Exclusion, WriterKnown, IInv
  <2> QED BY <1>3, <2>11, <2>12, SMTT(20) DEF IInv, LocksSafe
<1> QED BY <1>4, <1>5

\* notify_all moves the sleepers back to their waits and nobody else.
LEMMA NotifyMoves ==
    ASSUME TypeOK, NEW t \in Threads, pc[t] \in {"unlock", "unlock_shared"}, NotifyAll(t, "run")
    PROVE  /\ pc' \in [Threads -> Steps] /\ pc'[t] = "run"
           /\ \A u \in Threads : pc'[u] \notin {"rdsleep", "wrsleep"}
           /\ \A u \in Threads \ {t} : \A s \in {"own", "unlock", "unlock_shared"} :
                pc'[u] = s <=> pc[u] = s
<1> DEFINE After(u) == CASE u = t -> "run"
                         [] u # t /\ pc[u] = "rdsleep" -> "rdlock"
                         [] u # t /\ pc[u] = "wrsleep" -> "wrlock"
                         [] OTHER -> pc[u]
<1>1. pc' = [u \in Threads |-> After(u)]
  BY DEF NotifyAll
<1>2. \A u \in Threads :
        /\ u = t => After(u) = "run"
        /\ u # t /\ pc[u] = "rdsleep" => After(u) = "rdlock"
        /\ u # t /\ pc[u] = "wrsleep" => After(u) = "wrlock"
        /\ u # t /\ pc[u] \notin {"rdsleep", "wrsleep"} => After(u) = pc[u]
  OBVIOUS
<1> HIDE DEF After
<1> QED BY <1>1, <1>2 DEF TypeOK, Steps

\* The writer gives the mutex back and notifies everybody.
LEMMA UnlockStep ==
    ASSUME RwLockAssumption, IInv, NEW t \in Threads, Unlock(t)
    PROVE  IInv'
<1>1. TypeOK
  BY DEF IInv, LocksSafe, CountsMatch
<1>2. /\ pc[t] = "unlock" /\ pc'[t] = "run" /\ pc' \in [Threads -> Steps]
      /\ \A u \in Threads : pc'[u] \notin {"rdsleep", "wrsleep"}
      /\ \A u \in Threads \ {t} : \A s \in {"own", "unlock", "unlock_shared"} :
            pc'[u] = s <=> pc[u] = s
  BY <1>1, NotifyMoves DEF Unlock
<1>3. /\ writer_active' = FALSE /\ readers' = readers /\ owner' = owner /\ timed' = timed
      /\ rdlock_count' = rdlock_count /\ reads' = reads /\ writes' = writes
  BY DEF Unlock, heldVars
<1>4. TypeOK'
  BY <1>1, <1>2, <1>3, Zenon DEF TypeOK
<1>5. ~writes[t] /\ t \in Writers /\ \A u \in Threads \ {t} : u \notin Writers
  BY <1>2 DEF Writers, Exclusion, WriterKnown, IInv, LocksSafe
<1>6. \A u \in Threads : ~writes'[u] /\ pc'[u] \notin {"own", "unlock"}
  BY <1>2, <1>3, <1>5 DEF Writers
<1>7. Writers' = {}
  BY <1>6 DEF Writers
<1>8. \A u \in Threads : Shares(u)' = Shares(u)
  BY <1>2, <1>3 DEF Shares
<1>9. ReadLocks' = ReadLocks
  BY <1>8, SameShares
<1>10. CountsMatch'
  BY <1>3, <1>4, <1>9 DEF CountsMatch, IInv, LocksSafe
<1>11. Exclusion' /\ SleepersHaveReason' /\ WriterKnown'
  BY <1>2, <1>3, <1>6, <1>7 DEF Exclusion, SleepersHaveReason, WriterKnown
<1> QED BY <1>10, <1>11 DEF IInv, LocksSafe

\* A reader gives its share back; the last one notifies everybody.
LEMMA UnlockSharedStep ==
    ASSUME RwLockAssumption, IInv, NEW t \in Threads, UnlockShared(t)
    PROVE  IInv'
<1>1. TypeOK /\ MaxReads \in Nat
  BY DEF IInv, LocksSafe, CountsMatch, RwLockAssumption
<1>2. /\ pc[t] = "unlock_shared" /\ pc'[t] = "run" /\ pc' \in [Threads -> Steps]
      /\ \A u \in Threads \ {t} : \A s \in {"own", "unlock", "unlock_shared"} :
            pc'[u] = s <=> pc[u] = s
  <2>1. CASE readers - 1 = 0
    BY <1>1, <2>1, NotifyMoves DEF UnlockShared
  <2>2. CASE readers - 1 # 0
    BY <1>1, <2>2 DEF UnlockShared, Goto, TypeOK, Steps
  <2> QED BY <2>1, <2>2
<1>3. /\ writer_active' = writer_active /\ readers' = readers - 1 /\ owner' = owner
      /\ rdlock_count' = rdlock_count /\ reads' = reads /\ writes' = writes /\ timed' = timed
  BY DEF UnlockShared, heldVars
<1>4. Shares(t) > 0 /\ Shares(t)' = Shares(t) - 1
  BY <1>1, <1>2, <1>3 DEF Shares, TypeOK
<1>5. \A u \in Threads \ {t} : Shares(u)' = Shares(u)
  BY <1>2, <1>3 DEF Shares
<1>6. Cardinality(ReadLocks') \in Nat /\ Cardinality(ReadLocks) = Cardinality(ReadLocks') + 1
  BY <1>1, <1>4, <1>5, ShareGiven
<1>7. readers' \in Nat /\ readers' = Cardinality(ReadLocks')
  BY <1>3, <1>6 DEF CountsMatch, IInv, LocksSafe
<1>8. TypeOK'
  BY <1>1, <1>2, <1>3, <1>7 DEF TypeOK
<1>9. Writers = {} /\ ~writer_active
  BY <1>1, <1>4, NoWriters, SMTT(20) DEF TypeOK, Shares
<1>10. Writers' = {}
  BY <1>2, <1>3, <1>9 DEF Writers
<1>11. CountsMatch'
  BY <1>3, <1>7, <1>8 DEF CountsMatch, IInv, LocksSafe
<1>12. SleepersHaveReason'
  <2>1. CASE readers - 1 = 0
    <3>1. \A u \in Threads : pc'[u] \notin {"rdsleep", "wrsleep"}
      BY <1>1, <1>2, <2>1, NotifyMoves DEF UnlockShared
    <3> QED BY <3>1 DEF SleepersHaveReason
  <2>2. CASE readers - 1 # 0
    <3>0. readers' # 0
      BY <1>3, <2>2
    <3>1. readers' > 0
      BY <1>7, <3>0
    <3>2. \A u \in Threads \ {t} : pc'[u] = pc[u]
      BY <1>1, <2>2 DEF UnlockShared, Goto, TypeOK
    <3> QED BY <1>2, <1>3, <3>1, <3>2 DEF SleepersHaveReason, IInv, LocksSafe
  <2> QED BY <2>1, <2>2
<1>13. Exclusion' /\ WriterKnown'
  BY <1>2, <1>3, <1>9, <1>10 DEF Exclusion, WriterKnown, IInv
<1> QED BY <1>11, <1>12, <1>13 DEF IInv, LocksSafe

\* A waiting call that has no lock yet: the five actions of WaitStep.
LEMMA WaitActions ==
    ASSUME RwLockAssumption, IInv, NEW t \in Threads,
           \/ RdlockSleep(t) \/ WrlockSleep(t) \/ TimeOut(t)
           \/ \E withTimeout \in Deadlines : RdlockBusy(t, withTimeout) \/ WrlockBusy(t, withTimeout)
    PROVE  IInv'
<1>1. TypeOK /\ Deadlines \subseteq BOOLEAN
  BY DEF IInv, LocksSafe, CountsMatch, RwLockAssumption
<1>2. timed' \in [Threads -> BOOLEAN] /\ UNCHANGED <<mutexVars, owner, rdlock_count, heldVars>>
  BY <1>1, Zenon DEF RdlockSleep, WrlockSleep, TimeOut, RdlockBusy, WrlockBusy, TypeOK
<1>3. CASE RdlockSleep(t)
  <2>1. /\ pc[t] \in Waits /\ "rdsleep" \in Waits /\ pc' = [pc EXCEPT ![t] = "rdsleep"]
        /\ writer_active
    BY <1>3 DEF RdlockSleep, SharedFree, Goto, Waits
  <2> QED BY <1>2, <2>1, WaitStep, Zenon
<1>4. CASE WrlockSleep(t)
  <2>1. /\ pc[t] \in Waits /\ "wrsleep" \in Waits /\ pc' = [pc EXCEPT ![t] = "wrsleep"]
        /\ writer_active \/ readers > 0
    BY <1>1, <1>4 DEF WrlockSleep, ExclusiveFree, Goto, Waits, TypeOK
  <2> QED BY <1>2, <2>1, WaitStep, Zenon
<1>5. CASE TimeOut(t)
  <2>1. PICK s \in {"run", "rdlock", "wrlock"} : pc' = [pc EXCEPT ![t] = s]
    BY <1>5 DEF TimeOut, Goto
  <2>2. pc[t] \in Waits /\ s \in Waits /\ s # "rdsleep" /\ s # "wrsleep"
    BY <1>5, <2>1 DEF TimeOut, Waits
  <2> QED BY <1>2, <2>1, <2>2, WaitStep, Zenon
<1>6. CASE \E withTimeout \in Deadlines : RdlockBusy(t, withTimeout) \/ WrlockBusy(t, withTimeout)
  <2>1. PICK s \in {"rdlock", "wrlock"} : pc' = [pc EXCEPT ![t] = s]
    BY <1>6 DEF RdlockBusy, WrlockBusy, Goto
  <2>2. pc[t] \in Waits /\ s \in Waits /\ s # "rdsleep" /\ s # "wrsleep"
    BY <1>6, <2>1 DEF RdlockBusy, WrlockBusy, Waits
  <2> QED BY <1>2, <2>1, <2>2, WaitStep, Zenon
<1> QED BY <1>3, <1>4, <1>5, <1>6, SMTT(20)

-------------------------------------------------------------------------------
\* A fresh lock.
LEMMA Initially ==
    ASSUME RwLockAssumption, Init
    PROVE  IInv
<1>1. TypeOK
  <2>1. MaxReads \in Nat
    BY DEF RwLockAssumption
  <2>2. rdlock_count \in [Threads -> Nat] /\ reads \in [Threads -> 0 .. MaxReads]
    BY <2>1 DEF Init
  <2>3. /\ pc \in [Threads -> Steps]
        /\ timed \in [Threads -> BOOLEAN] /\ writes \in [Threads -> BOOLEAN]
    BY DEF Init, Steps
  <2> QED BY <2>2, <2>3, Zenon DEF Init, TypeOK
<1>2. (\A u \in Threads : Shares(u) = 0) /\ Writers = {}
  BY DEF Init, Shares, Writers
<1>3. Cardinality(ReadLocks) = 0
  BY <1>1, <1>2, ReadLocksFacts
<1>4. CountsMatch
  BY <1>1, <1>3 DEF Init, CountsMatch, RwLockAssumption
<1>5. Exclusion /\ SleepersHaveReason /\ WriterKnown
  BY <1>2 DEF Init, Exclusion, SleepersHaveReason, WriterKnown
<1> QED BY <1>4, <1>5 DEF IInv, LocksSafe

\* Every step keeps the invariant.
LEMMA Inductive ==
    ASSUME RwLockAssumption, IInv, [Next]_vars
    PROVE  IInv'
<1>1. CASE UNCHANGED vars
  <2>1. /\ readers' = readers /\ writer_active' = writer_active /\ owner' = owner
        /\ rdlock_count' = rdlock_count /\ pc' = pc /\ timed' = timed
        /\ reads' = reads /\ writes' = writes
    BY <1>1, SMTT(20) DEF vars, mutexVars, heldVars
  <2>2. TypeOK' /\ Writers' = Writers /\ \A u \in Threads : Shares(u)' = Shares(u)
    BY <2>1 DEF TypeOK, Writers, Shares, IInv, LocksSafe, CountsMatch
  <2>3. ReadLocks' = ReadLocks
    BY <2>2, SameShares, SMTT(20)
  <2>4. Exclusion' /\ CountsMatch'
    BY <2>1, <2>2, <2>3 DEF IInv, LocksSafe, Exclusion, CountsMatch
  <2>5. SleepersHaveReason' /\ WriterKnown'
    BY <2>1, <2>2 DEF IInv, LocksSafe, SleepersHaveReason, WriterKnown
  <2> QED BY <2>4, <2>5 DEF IInv, LocksSafe
<1>2. CASE Next
  <2>1. PICK t \in Threads :
            \/ Continue(t) \/ Rdlock(t) \/ Wrlock(t) \/ TimeOut(t) \/ UnlockBegin(t)
            \/ \E withTimeout \in Deadlines : RdlockBusy(t, withTimeout) \/ WrlockBusy(t, withTimeout)
    BY <1>2 DEF Next
  <2> QED BY <2>1, RdlockStep, WrlockStep, OwnStep, UnlockBeginStep, UnlockStep,
             UnlockSharedStep, WaitActions DEF Continue
<1> QED BY <1>1, <1>2

\* rwlock.cpp over SharedFirstMutex, for any number of threads and of nested read locks:
\* a writer has the lock alone from the step that takes the mutex to the one that gives
\* it back, owner, rdlock_count and the count of readers agree with the locks the calls
\* gave out, and no thread sleeps that should have been woken.
THEOREM RwLockIsSafe ==
    ASSUME RwLockAssumption
    PROVE  Spec => []LocksSafe
<1>1. Init => IInv
  BY Initially
<1>2. IInv /\ [Next]_vars => IInv'
  BY Inductive
<1>3. IInv => LocksSafe
  BY DEF IInv
<1> QED BY <1>1, <1>2, <1>3, PTL DEF Spec
===============================================================================
