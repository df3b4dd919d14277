----------------------------- MODULE CondVarTypes -----------------------------
(***************************************************************************)
(* The inductive invariant IInv of CondVar, for any number of threads,     *)
(* mutexes and conditions, and the first half of the proof that it is      *)
(* inductive: the types, the calls, the depths and the sleep-queue locks.  *)
(* CondVarInvariant has the second half, CondVarProofs the theorems.       *)
(*                                                                         *)
(* QueueMatchesWchan needs to know who has the lock of a sleep queue       *)
(* (LockMatches) and what a thread in a call remembers of it (CallMatches, *)
(* DepthMatches).  WakeIsOwed needs that a thread on its way to sleep is   *)
(* on the queue before its posts are cleared (ArmedIsQueued).  PostsKept   *)
(* is what remains of DeferredPostsHaveAnOwner when threads may be         *)
(* cancelled: it holds of the threads that are not.                        *)
(***************************************************************************)
EXTENDS CondVar, TLAPS

\* The steps of a thread inside Wait.
InWait == {"add", "arm", "sleep", "woken", "relock"}

\* The steps at which a thread has the lock of the sleep queue of its condition.
WithLock == {"add", "arm", "drop"}

\* What a thread remembers of the call it is in.
CallMatches ==
    \A t \in Threads :
        /\ pc[t] \in InWait \cup {"drop"} => cv[t] \in Conds
        /\ pc[t] \in InWait => mp[t] \in Mutexes
        /\ pc[t] \notin InWait => mp[t] = NoMutex
        /\ pc[t] \in {"woken", "relock"} /\ error[t] = "ETIMEDOUT" => timed[t]
        /\ pc[t] \notin {"drop", "release", "cancel"} => now[t] = <<>>
        /\ pc[t] \in {"release", "cancel"} => now[t] # <<>>
        /\ pc[t] = "cancel" => Len(now[t]) = 1

\* Only a recursive mutex has a depth, held or given up for a wait.
DepthMatches ==
    /\ \A m \in Mutexes : m_count[m] > 0 => m \in Recursive
    /\ \A t \in Threads : recurse[t] > 0 => mp[t] \in Recursive

\* The lock of a sleep queue is held by the thread at a step between SleepqLock and
\* SleepqUnlock, and by no other.
LockMatches ==
    \A c \in Conds, t \in Threads : sq_lock[c] = t <=> pc[t] \in WithLock /\ cv[t] = c

\* A thread that has the lock to wait is on the queue once it has put itself there, and
\* nobody has said meanwhile that there are no waiters.
ArmedIsQueued ==
    \A t \in Threads :
        /\ pc[t] = "arm" => wchan[t] = cv[t]
        /\ pc[t] \in {"add", "arm"} => has_user_waiters[cv[t]]

\* The posts of threads that are never cancelled.
PostsKept ==
    \A s \in Threads \ Cancellable :
        /\ ~cancel_pending[s]
        /\ will_sleep[s] => pc[s] \in {"add", "arm"}
        /\ pc[s] \in {"woken", "relock"} => defer_waiters[s] = <<>>
        /\ defer_waiters[s] # <<>> =>
              \/ pc[s] \in {"flush", "add", "arm", "sleep"}
              \/ /\ ~will_sleep[s]
                 /\ \E m \in Mutexes : m_owner[m] = s /\ m_deferred[m]

\* The inductive invariant.
IInv ==
    /\ QueueMatchesWchan
    /\ CallMatches
    /\ DepthMatches
    /\ LockMatches
    /\ ArmedIsQueued
    /\ WakeIsOwed
    /\ PostsKept

-------------------------------------------------------------------------------
(* Sequences of threads *)

\* A sequence with one entry taken out of it, as SleepqRemove does.
LEMMA Removed ==
    ASSUME NEW s \in Seq(Threads), IsInjective(s), NEW u \in Range(s)
    PROVE  LET r == ListErase(s, Position(s, u)) IN
           r \in Seq(Threads) /\ IsInjective(r) /\ Range(r) = Range(s) \ {u}
<1> DEFINE p == Position(s, u)
           n == Len(s)
           a == SubSeq(s, 1, p - 1)
           b == SubSeq(s, p + 1, n)
           r == a \o b
<1>1. DOMAIN s = 1 .. n /\ n \in Nat
  OBVIOUS
<1>2. p \in 1 .. n /\ s[p] = u
  BY <1>1 DEF Position, Range
<1> HIDE DEF p
<1>3. a \in Seq(Threads) /\ Len(a) = p - 1 /\ \A i \in 1 .. p - 1 : a[i] = s[i]
  BY <1>2
<1>4. b \in Seq(Threads) /\ Len(b) = n - p /\ \A i \in 1 .. n - p : b[i] = s[i + p]
  BY <1>2
<1> HIDE DEF a, b
<1>5. r \in Seq(Threads) /\ Len(r) = n - 1
  <2>1. r \in Seq(Threads) /\ Len(r) = Len(a) + Len(b)
    BY <1>3, <1>4
  <2> HIDE DEF r
  <2> QED BY <1>1, <1>2, <1>3, <1>4, <2>1
<1>6. /\ \A i \in 1 .. p - 1 : r[i] = s[i]
      /\ \A i \in 1 .. n - p : r[i + p - 1] = s[i + p]
  <2>1. /\ \A i \in 1 .. Len(a) : r[i] = a[i]
        /\ \A i \in 1 .. Len(b) : r[i + Len(a)] = b[i]
    BY <1>3, <1>4
  <2>2. \A i \in 1 .. n - p : i + p - 1 = i + Len(a)
    BY <1>1, <1>2, <1>3
  <2> HIDE DEF r
  <2> QED BY <1>3, <1>4, <2>1, <2>2, Zenon
<1> HIDE DEF r, n
<1>7. /\ \A i \in 1 .. p - 1 : i \in 1 .. n - 1 /\ i \in 1 .. n /\ i # p
      /\ \A i \in 1 .. n - p : i + p - 1 \in 1 .. n - 1 /\ i + p \in 1 .. n /\ i + p # p
      /\ \A i \in 1 .. n - 1 : i \in 1 .. p - 1 \/ \E j \in 1 .. n - p : i = j + p - 1
      /\ \A i \in 1 .. n : i = p \/ i \in 1 .. p - 1 \/ \E j \in 1 .. n - p : i = j + p
  <2>1. ASSUME NEW i \in 1 .. n - 1, i \notin 1 .. p - 1 PROVE \E j \in 1 .. n - p : i = j + p - 1
    <3>1. i - p + 1 \in 1 .. n - p /\ i = (i - p + 1) + p - 1
      BY <1>1, <1>2, <2>1
    <3> QED BY <3>1
  <2>2. ASSUME NEW i \in 1 .. n, i # p, i \notin 1 .. p - 1 PROVE \E j \in 1 .. n - p : i = j + p
    <3>1. i - p \in 1 .. n - p /\ i = (i - p) + p
      BY <1>1, <1>2, <2>2
    <3> QED BY <3>1
  <2> QED BY <1>1, <1>2, <2>1, <2>2
<1>8. DOMAIN r = 1 .. n - 1
  BY <1>5
<1>9. \A i, j \in 1 .. n : s[i] = s[j] => i = j
  BY <1>1, Zenon DEF IsInjective
<1>10. \A i \in 1 .. n - 1 : \E k \in 1 .. n : /\ k # p /\ r[i] = s[k]
                                               /\ k = IF i < p THEN i ELSE i + 1
  <2> TAKE i \in 1 .. n - 1
  <2>1. CASE i \in 1 .. p - 1
    BY <1>2, <1>6, <1>7, <2>1
  <2>2. ASSUME NEW j \in 1 .. n - p, i = j + p - 1
        PROVE  \E k \in 1 .. n : k # p /\ r[i] = s[k] /\ k = IF i < p THEN i ELSE i + 1
    <3>1. j + p \in 1 .. n /\ j + p # p /\ r[i] = s[j + p]
      BY <1>6, <1>7, <2>2
    <3>2. j + p = IF i < p THEN i ELSE i + 1
      BY <1>2, <2>2
    <3> QED BY <3>1, <3>2
  <2> QED BY <1>7, <2>1, <2>2
<1>11. IsInjective(r)
  <2>1. ASSUME NEW i \in 1 .. n - 1, NEW j \in 1 .. n - 1, r[i] = r[j] PROVE i = j
    <3>1. (IF i < p THEN i ELSE i + 1) = (IF j < p THEN j ELSE j + 1)
      BY <1>9, <1>10, <2>1, Zenon
    <3> QED BY <1>2, <3>1
  <2> QED BY <1>8, <2>1, Zenon DEF IsInjective
<1>12. Range(r) = Range(s) \ {u}
  <2>1. ASSUME NEW i \in 1 .. n - 1 PROVE r[i] \in Range(s) /\ r[i] # u
    <3>1. PICK k \in 1 .. n : k # p /\ r[i] = s[k]
      BY <1>10, Zenon
    <3> QED BY <1>1, <1>2, <1>9, <3>1, Zenon DEF Range
  <2>2. ASSUME NEW i \in 1 .. n, s[i] # u PROVE \E k \in 1 .. n - 1 : r[k] = s[i]
    <3>1. i # p
      BY <1>2, <2>2
    <3>2. CASE i \in 1 .. p - 1
      BY <1>6, <1>7, <3>2, Zenon
    <3>3. ASSUME NEW j \in 1 .. n - p, i = j + p PROVE \E k \in 1 .. n - 1 : r[k] = s[i]
      BY <1>6, <1>7, <3>3, Zenon
    <3> QED BY <1>7, <3>1, <3>2, <3>3, Zenon
  <2> QED BY <1>1, <1>8, <2>1, <2>2 DEF Range
<1> QED BY <1>5, <1>11, <1>12, Zenon DEF ListErase, a, b, p, r, n

\* A sequence with one entry put at its end.
LEMMA Appended ==
    ASSUME NEW S, NEW s \in Seq(S), NEW u \in S
    PROVE  /\ Append(s, u) \in Seq(S)
           /\ Append(s, u) # <<>>
           /\ Range(Append(s, u)) = Range(s) \cup {u}
           /\ IsInjective(s) /\ u \notin Range(s) => IsInjective(Append(s, u))
<1> DEFINE r == Append(s, u)
<1>1. r \in Seq(S) /\ Len(s) \in Nat /\ Len(r) = Len(s) + 1
  OBVIOUS
<1>2. /\ \A i \in 1 .. Len(s) : r[i] = s[i]
      /\ r[Len(s) + 1] = u
  OBVIOUS
<1>3. DOMAIN s = 1 .. Len(s) /\ DOMAIN r = 1 .. Len(s) + 1
  BY <1>1
<1> HIDE DEF r
<1>4. \A i \in 1 .. Len(s) + 1 : i \in 1 .. Len(s) \/ i = Len(s) + 1
  BY <1>1
<1>5. \A i \in 1 .. Len(s) : i \in 1 .. Len(s) + 1
  BY <1>1
<1>6. Len(s) + 1 \in 1 .. Len(s) + 1
  BY <1>1
<1>7. Range(r) = Range(s) \cup {u}
  BY <1>2, <1>3, <1>4, <1>5, <1>6 DEF Range
<1>8. IsInjective(s) /\ u \notin Range(s) => IsInjective(r)
  BY <1>2, <1>3, <1>4 DEF Range, IsInjective
<1>9. r # <<>>
  BY <1>1
<1> QED BY <1>1, <1>7, <1>8, <1>9 DEF r

\* A sequence without its first entry.
LEMMA Popped ==
    ASSUME NEW S, NEW s \in Seq(S), s # <<>>
    PROVE  /\ Head(s) \in S /\ Head(s) \in Range(s) /\ Tail(s) \in Seq(S)
           /\ Range(s) = Range(Tail(s)) \cup {Head(s)}
           /\ IsInjective(s) => IsInjective(Tail(s)) /\ Head(s) \notin Range(Tail(s))
           /\ Len(s) = 1 <=> Tail(s) = <<>>
<1> DEFINE r == Tail(s)
<1>1. Len(s) \in Nat /\ Len(s) >= 1
  OBVIOUS
<1>2. /\ r \in Seq(S) /\ Len(r) = Len(s) - 1
      /\ \A i \in 1 .. Len(s) - 1 : r[i] = s[i + 1]
  OBVIOUS
<1>3. DOMAIN s = 1 .. Len(s) /\ DOMAIN r = 1 .. Len(s) - 1
  BY <1>2
<1>4. Head(s) = s[1] /\ 1 \in 1 .. Len(s)
  BY <1>1
<1>5. Len(s) = 1 <=> r = <<>>
  <2>0. \A q \in Seq(S) : q = <<>> <=> Len(q) = 0
    OBVIOUS
  <2>1. r = <<>> <=> Len(r) = 0
    BY <1>2, <2>0, Zenon
  <2> HIDE DEF r
  <2> QED BY <1>1, <1>2, <2>1
<1> HIDE DEF r
<1>6. \A i \in 1 .. Len(s) : i = 1 \/ (i - 1 \in 1 .. Len(s) - 1 /\ s[i] = r[i - 1])
  <2> TAKE i \in 1 .. Len(s)
  <2>1. i # 1 => i - 1 \in 1 .. Len(s) - 1 /\ (i - 1) + 1 = i
    BY <1>1
  <2> QED BY <1>2, <2>1
<1>7. \A i \in 1 .. Len(s) - 1 : i + 1 \in 1 .. Len(s) /\ i + 1 # 1
  BY <1>1
<1>8. Range(s) = Range(r) \cup {s[1]}
  <2>1. \A i \in 1 .. Len(s) : s[i] \in Range(r) \cup {s[1]}
    BY <1>3, <1>6 DEF Range
  <2>2. \A i \in 1 .. Len(s) - 1 : r[i] \in Range(s)
    BY <1>2, <1>3, <1>7, ZenonT(30) DEF Range
  <2> QED BY <1>3, <1>4, <2>1, <2>2, Zenon DEF Range
<1>9. ASSUME IsInjective(s) PROVE IsInjective(r) /\ s[1] \notin Range(r)
  <2>1. \A i, j \in 1 .. Len(s) : s[i] = s[j] => i = j
    BY <1>3, <1>9 DEF IsInjective
  <2>2. \A i, j \in 1 .. Len(s) - 1 : i + 1 = j + 1 => i = j
    BY <1>1
  <2>3. \A i, j \in 1 .. Len(s) - 1 : r[i] = r[j] => i = j
    BY <1>2, <1>7, <2>1, <2>2, ZenonT(30)
  <2>4. \A i \in 1 .. Len(s) - 1 : r[i] # s[1]
    BY <1>2, <1>4, <1>7, <2>1
  <2> QED BY <1>3, <2>3, <2>4 DEF IsInjective, Range
<1>10. s[1] \in S /\ s[1] \in Range(s)
  BY <1>3, <1>4 DEF Range
<1> QED BY <1>2, <1>4, <1>5, <1>8, <1>9, <1>10, ZenonT(30) DEF r

\* Short sequences.
LEMMA Short ==
    /\ Range(<<>>) = {} /\ IsInjective(<<>>)
    /\ \A S : \A s \in Seq(S) : Range(s) = {} => s = <<>>
    /\ \A x : Range(<<x>>) = {x} /\ Len(<<x>>) = 1
<1>1. Range(<<>>) = {} /\ IsInjective(<<>>)
  BY DEF Range, IsInjective
<1>2. ASSUME NEW S, NEW s \in Seq(S), Range(s) = {} PROVE s = <<>>
  <2>1. DOMAIN s = 1 .. Len(s) /\ Len(s) \in Nat
    OBVIOUS
  <2>2. Len(s) # 0 => 1 \in 1 .. Len(s)
    BY <2>1
  <2>3. Len(s) = 0
    BY <1>2, <2>1, <2>2, Zenon DEF Range
  <2> QED BY <1>2, <2>3
<1>3. \A x : Range(<<x>>) = {x} /\ Len(<<x>>) = 1
  BY DEF Range
<1> QED BY <1>1, <1>2, <1>3

\* Released counts how often a thread is on a list.
EntriesAreCounted ==
    \A s \in Seq(Threads), u \in Threads :
        LET n == Cardinality({i \in DOMAIN s : s[i] = u})
        IN  n \in Nat /\ (u \in Range(s) => n > 0)

\* Releasing every entry of a list only adds posts, and adds one for each of them.
LEMMA ReleasedFacts ==
    ASSUME EntriesAreCounted, wake_sema \in [Threads -> Nat], NEW s \in Seq(Threads)
    PROVE  /\ Released(s) \in [Threads -> Nat]
           /\ \A u \in Threads : /\ wake_sema[u] > 0 => Released(s)[u] > 0
                                 /\ u \in Range(s) => Released(s)[u] > 0
<1> DEFINE n(u) == Cardinality({i \in DOMAIN s : s[i] = u})
<1>1. \A u \in Threads : n(u) \in Nat /\ (u \in Range(s) => n(u) > 0)
  BY DEF EntriesAreCounted
<1>2. Released(s) = [u \in Threads |-> wake_sema[u] + n(u)]
  BY DEF Released
<1> HIDE DEF n
<1> QED BY <1>1, <1>2

-------------------------------------------------------------------------------
\* Nobody waits, owns or owes anything.
LEMMA InitIInv == Init => IInv
<1> SUFFICES ASSUME Init PROVE IInv
  OBVIOUS
<1>1. TypeOK
  BY ConstantsAssumption DEF Init, TypeOK, Steps, Errors
<1>2. /\ \A c \in Conds, t \in Threads : t \in Range(sq_blocked[c]) <=> wchan[t] = c
      /\ \A c \in Conds : IsInjective(sq_blocked[c])
  BY ConstantsAssumption, Short DEF Init
<1>3. QueueMatchesWchan
  BY <1>1, <1>2 DEF Init, QueueMatchesWchan
<1>4. CallMatches /\ DepthMatches
  BY DEF Init, CallMatches, DepthMatches, InWait
<1>5. LockMatches /\ ArmedIsQueued
  BY ConstantsAssumption DEF Init, LockMatches, ArmedIsQueued, WithLock
<1>6. WakeIsOwed /\ PostsKept
  BY DEF Init, WakeIsOwed, PostsKept
<1> QED BY <1>3, <1>4, <1>5, <1>6 DEF IInv

\* What Defer does to the lists and the semaphores: td is on the list, nobody who was
\* on it is forgotten, and only the mutex m gets the flag.
LEMMA Deferred ==
    ASSUME EntriesAreCounted, TypeOK, NEW t \in Threads, NEW td \in Threads, NEW m,
           Defer(t, td, m)
    PROVE  /\ wake_sema' \in [Threads -> Nat]
           /\ defer_waiters' \in [Threads -> Seq(Threads)]
           /\ m_deferred' = [m_deferred EXCEPT ![m] = TRUE]
           /\ td \in Range(defer_waiters'[t])
           /\ \A s \in Threads \ {t} : defer_waiters'[s] = defer_waiters[s]
           /\ \A u \in Threads : /\ wake_sema[u] > 0 => wake_sema'[u] > 0
                                 /\ u \in Range(defer_waiters[t]) =>
                                      wake_sema'[u] > 0 \/ u \in Range(defer_waiters'[t])
<1>1. defer_waiters[t] \in Seq(Threads) /\ wake_sema \in [Threads -> Nat]
  BY DEF TypeOK
<1>2. CASE Len(defer_waiters[t]) >= MaxDeferWaiters
  <2>1. /\ wake_sema' = Released(defer_waiters[t])
        /\ defer_waiters' = [defer_waiters EXCEPT ![t] = <<td>>]
        /\ m_deferred' = [m_deferred EXCEPT ![m] = TRUE]
    BY <1>2 DEF Defer
  <2>2. td \in Range(<<td>>) /\ <<td>> \in Seq(Threads)
    BY Short
  <2> QED BY <1>1, <2>1, <2>2, ReleasedFacts, Zenon DEF TypeOK
<1>3. CASE ~(Len(defer_waiters[t]) >= MaxDeferWaiters)
  <2>1. /\ wake_sema' = wake_sema
        /\ defer_waiters' = [defer_waiters EXCEPT ![t] = Append(@, td)]
        /\ m_deferred' = [m_deferred EXCEPT ![m] = TRUE]
    BY <1>3 DEF Defer
  <2>2. /\ Append(defer_waiters[t], td) \in Seq(Threads)
        /\ Range(Append(defer_waiters[t], td)) = Range(defer_waiters[t]) \cup {td}
    BY <1>1, Appended
  <2> QED BY <1>1, <2>1, <2>2 DEF TypeOK
<1> QED BY <1>2, <1>3

\* What SleepqRemove does to a queue that matches: u is off it, and only u.
LEMMA Unqueued ==
    ASSUME QueueMatchesWchan, NEW c \in Conds, NEW u \in Threads, wchan[u] = c,
           SleepqRemove(c, u)
    PROVE  /\ sq_blocked' \in [Conds -> Seq(Threads)]
           /\ wchan' \in [Threads -> Conds \cup {NoCond}]
           /\ wchan' = [wchan EXCEPT ![u] = NoCond]
           /\ has_user_waiters' \in [Conds -> BOOLEAN]
           /\ has_user_waiters' = [has_user_waiters EXCEPT ![c] = sq_blocked'[c] # <<>>]
           /\ \A d \in Conds, v \in Threads : v \in Range(sq_blocked'[d]) <=> wchan'[v] = d
           /\ \A d \in Conds : IsInjective(sq_blocked'[d])
           /\ \A d \in Conds \ {c} : sq_blocked'[d] = sq_blocked[d]
<1> DEFINE r == ListErase(sq_blocked[c], Position(sq_blocked[c], u))
<1>1. /\ sq_blocked' = [sq_blocked EXCEPT ![c] = r]
      /\ wchan' = [wchan EXCEPT ![u] = NoCond]
      /\ has_user_waiters' = [has_user_waiters EXCEPT ![c] = sq_blocked'[c] # <<>>]
  BY DEF SleepqRemove
<1>2. /\ sq_blocked \in [Conds -> Seq(Threads)] /\ wchan \in [Threads -> Conds \cup {NoCond}]
      /\ has_user_waiters \in [Conds -> BOOLEAN]
      /\ u \in Range(sq_blocked[c]) /\ IsInjective(sq_blocked[c])
  BY DEF QueueMatchesWchan, TypeOK
<1>3. r \in Seq(Threads) /\ IsInjective(r) /\ Range(r) = Range(sq_blocked[c]) \ {u}
  BY <1>2, Removed, ZenonT(30)
<1> HIDE DEF r
<1>4. \A d \in Conds, v \in Threads : v \in Range(sq_blocked'[d]) <=> wchan'[v] = d
  BY <1>1, <1>2, <1>3, ConstantsAssumption DEF QueueMatchesWchan
<1>5. \A d \in Conds : IsInjective(sq_blocked'[d])
  BY <1>1, <1>2, <1>3 DEF QueueMatchesWchan
<1>6. has_user_waiters' \in [Conds -> BOOLEAN]
  BY <1>1, <1>2
<1> QED BY <1>1, <1>2, <1>3, <1>4, <1>5, <1>6

\* Signal and SignalTo take one waiter, which is on the queue.
Taken(t, c, td) ==
    /\ Running(t)
    /\ sq_lock[c] = NoThread
    /\ wchan[td] = c
    /\ Dequeue(t, c, td)

\* The steps of the system, with the two signals in one.
LEMMA NextCases ==
    ASSUME QueueMatchesWchan, [Next]_vars
    PROVE  \/ \E t \in Threads :
                \/ Continue(t)
                \/ TimeOut(t) \/ Relock(t) \/ SetCancelState(t) \/ TestCancel(t)
                \/ \E m \in Mutexes : Lock(t, m) \/ Unlock(t, m)
                \/ \E c \in Conds, m \in Mutexes, b \in Deadlines : WaitBegin(t, c, m, b)
                \/ \E c \in Conds, td \in Threads : Taken(t, c, td)
                \/ \E c \in Conds : BroadcastBegin(t, c)
                \/ \E u \in Threads : CancelBegin(t, u)
           \/ UNCHANGED vars
<1>1. ASSUME NEW t \in Threads, NEW c \in Conds, Signal(t, c)
      PROVE  \E td \in Threads : Taken(t, c, td)
  <2>1. sq_blocked[c] \in Seq(Threads) /\ sq_blocked[c] # <<>>
    BY <1>1 DEF QueueMatchesWchan, TypeOK, Signal
  <2>2. Head(sq_blocked[c]) \in Threads /\ Head(sq_blocked[c]) \in Range(sq_blocked[c])
    BY <2>1, Popped
  <2>3. wchan[Head(sq_blocked[c])] = c
    BY <2>2 DEF QueueMatchesWchan
  <2> QED BY <1>1, <2>2, <2>3 DEF Signal, Taken
<1>2. ASSUME NEW t \in Threads, NEW c \in Conds, NEW td \in Threads, SignalTo(t, c, td)
      PROVE  Taken(t, c, td)
  BY <1>2 DEF QueueMatchesWchan, SignalTo, Taken
<1>3. CASE UNCHANGED vars
  BY <1>3
<1>4. CASE Next
  BY <1>1, <1>2, <1>4 DEF Next
<1> QED BY <1>3, <1>4

\* A post adds one to the semaphore of its thread.
LEMMA OnePost ==
    ASSUME wake_sema \in [Threads -> Nat], NEW u \in Threads,
           wake_sema' = [wake_sema EXCEPT ![u] = @ + 1]
    PROVE  /\ wake_sema' \in [Threads -> Nat]
           /\ wake_sema'[u] > 0
           /\ \A v \in Threads : wake_sema[v] > 0 => wake_sema'[v] > 0
OBVIOUS

\* Every action keeps the types.
LEMMA TypeStep ==
    EntriesAreCounted /\ QueueMatchesWchan /\ CallMatches /\ [Next]_vars => TypeOK'
<1> SUFFICES ASSUME EntriesAreCounted, QueueMatchesWchan, CallMatches, [Next]_vars
             PROVE  TypeOK'
  OBVIOUS
<1>0. TypeOK
  BY DEF QueueMatchesWchan
<1> USE DEF mutexVars, queueVars, cancelVars, waitVars
<1>1. ASSUME NEW t \in Threads, Continue(t) PROVE TypeOK'
  <2>1. CASE WakeAll(t)
    <3>1. defer_waiters[t] # <<>> /\ defer_waiters[t] \in Seq(Threads)
      BY <2>1, <1>0, ZenonT(30) DEF WakeAll, TypeOK
    <3>2. Head(defer_waiters[t]) \in Threads /\ Tail(defer_waiters[t]) \in Seq(Threads)
      BY <3>1, Popped, ZenonT(30)
    <3>3. /\ wake_sema' = [wake_sema EXCEPT ![Head(defer_waiters[t])] = @ + 1]
          /\ defer_waiters' = [defer_waiters EXCEPT ![t] = Tail(@)]
          /\ pc' \in {[pc EXCEPT ![t] = "run"], pc}
      BY <2>1 DEF WakeAll
    <3>4. wake_sema' \in [Threads -> Nat]
      BY <1>0, <3>2, <3>3, OnePost, Zenon DEF TypeOK
    <3>5. defer_waiters' \in [Threads -> Seq(Threads)] /\ pc' \in [Threads -> Steps]
      BY <1>0, <3>2, <3>3, Zenon DEF TypeOK, Steps
    <3>6. UNCHANGED <<mutexVars, queueVars, cancelVars, waitVars, wchan, mutex_obj,
                      will_sleep, now>>
      BY <2>1, ZenonT(30) DEF WakeAll
    <3> QED BY <1>0, <3>4, <3>5, <3>6, ZenonT(30) DEF TypeOK
  <2>2. CASE WaitAdd(t)
    <3>1. cv[t] \in Conds /\ mp[t] \in Mutexes
      BY <2>2, ZenonT(30) DEF WaitAdd, CallMatches, InWait
    <3>2. Append(sq_blocked[cv[t]], t) \in Seq(Threads)
      BY <1>0, <3>1, Appended, ZenonT(30) DEF TypeOK
    <3>3. /\ sq_blocked' \in [Conds -> Seq(Threads)]
          /\ wchan' \in [Threads -> Conds \cup {NoCond}]
      BY <2>2, <1>0, <3>1, <3>2, ZenonT(30) DEF WaitAdd, SleepqAdd, TypeOK
    <3>4. /\ mutex_obj' \in [Threads -> Mutexes \cup {NoMutex}]
          /\ wake_sema' \in [Threads -> Nat]
          /\ pc' \in [Threads -> Steps]
      BY <2>2, <1>0, <3>1, ZenonT(30) DEF WaitAdd, TypeOK, Goto, Steps
    <3>5. UNCHANGED <<mutexVars, cancelVars, waitVars, sq_lock, has_user_waiters,
                      will_sleep, defer_waiters, now>>
      BY <2>2, ZenonT(30) DEF WaitAdd
    <3> QED BY <1>0, <3>3, <3>4, <3>5, ZenonT(30) DEF TypeOK
  <2>3. CASE WaitArm(t)
    <3>1. sq_lock' \in [Conds -> Threads \cup {NoThread}]
      BY <2>3, <1>0, Zenon DEF WaitArm, TypeOK
    <3>2. /\ will_sleep' \in {will_sleep, [will_sleep EXCEPT ![t] = FALSE]}
          /\ pc' \in {[pc EXCEPT ![t] = "woken"], [pc EXCEPT ![t] = "sleep"]}
          /\ error' \in {error, [error EXCEPT ![t] = "0"]}
      BY <2>3 DEF WaitArm, Goto
    <3>3. /\ will_sleep' \in [Threads -> BOOLEAN]
          /\ pc' \in [Threads -> Steps]
          /\ error' \in [Threads -> Errors]
      BY <1>0, <3>2, ZenonT(40) DEF TypeOK, Steps, Errors
    <3>4. UNCHANGED <<mutexVars, cancelVars, sq_blocked, has_user_waiters, wchan,
                      mutex_obj, defer_waiters, wake_sema, cv, mp, recurse, timed, now>>
      BY <2>3 DEF WaitArm
    <3> QED BY <1>0, <3>1, <3>3, <3>4, ZenonT(30) DEF TypeOK
  <2>4. CASE Acquire(t)
    <3>1. /\ wake_sema' \in [Threads -> Nat]
          /\ pc' \in [Threads -> Steps]
          /\ error' \in [Threads -> Errors]
      BY <2>4, <1>0, ConstantsAssumption DEF Acquire, TypeOK, Goto, Steps, Errors
    <3>2. UNCHANGED <<mutexVars, queueVars, cancelVars, wchan, mutex_obj, will_sleep,
                      defer_waiters, cv, mp, recurse, timed, now>>
      BY <2>4, ZenonT(30) DEF Acquire
    <3> QED BY <1>0, <3>1, <3>2, ZenonT(30) DEF TypeOK
  <2>5. CASE RecheckSignalled(t)
    <3>1. /\ mutex_obj' \in [Threads -> Mutexes \cup {NoMutex}]
          /\ pc' \in [Threads -> Steps]
          /\ error' \in [Threads -> Errors]
      BY <2>5, <1>0, ConstantsAssumption, ZenonT(30) DEF RecheckSignalled, TypeOK, Goto, Steps, Errors
    <3>2. UNCHANGED <<mutexVars, queueVars, cancelVars, wchan, will_sleep, defer_waiters,
                      wake_sema, cv, mp, recurse, timed, now>>
      BY <2>5, ZenonT(30) DEF RecheckSignalled
    <3> QED BY <1>0, <3>1, <3>2, ZenonT(30) DEF TypeOK
  <2>6. CASE RecheckGiveUp(t)
    <3>1. cv[t] \in Conds /\ wchan[t] = cv[t]
      BY <2>6, ZenonT(30) DEF RecheckGiveUp, QueueMatchesWchan, CallMatches, InWait
    <3>2. /\ sq_blocked' \in [Conds -> Seq(Threads)]
          /\ wchan' \in [Threads -> Conds \cup {NoCond}]
          /\ has_user_waiters' \in [Conds -> BOOLEAN]
      BY <2>6, <3>1, Unqueued, ZenonT(30) DEF RecheckGiveUp
    <3>3. /\ mutex_obj' \in [Threads -> Mutexes \cup {NoMutex}]
          /\ pc' \in [Threads -> Steps]
          /\ error' \in [Threads -> Errors]
      BY <2>6, <1>0, ZenonT(30) DEF RecheckGiveUp, TypeOK, Goto, Steps, Errors
    <3>4. UNCHANGED <<mutexVars, cancelVars, sq_lock, will_sleep, defer_waiters, wake_sema,
                      cv, mp, recurse, timed, now>>
      BY <2>6, ZenonT(30) DEF RecheckGiveUp
    <3> QED BY <1>0, <3>2, <3>3, <3>4, ZenonT(30) DEF TypeOK
  <2>7. CASE RecheckAgain(t)
    <3>1. /\ sq_lock' \in [Conds -> Threads \cup {NoThread}]
          /\ wake_sema' \in [Threads -> Nat]
          /\ pc' \in [Threads -> Steps]
      BY <2>7, <1>0, ConstantsAssumption, Zenon DEF RecheckAgain, TypeOK, Goto, Steps
    <3>2. UNCHANGED <<mutexVars, cancelVars, waitVars, sq_blocked, has_user_waiters, wchan,
                      mutex_obj, will_sleep, defer_waiters, now>>
      BY <2>7, ZenonT(30) DEF RecheckAgain
    <3> QED BY <1>0, <3>1, <3>2, ZenonT(30) DEF TypeOK
  <2>8. CASE BroadcastDrop(t)
    <3> DEFINE c == cv[t]
               td == Head(sq_blocked[c])
    <3>1. c \in Conds /\ sq_blocked[c] \in Seq(Threads) /\ sq_blocked[c] # <<>>
      BY <2>8, <1>0, ZenonT(30) DEF BroadcastDrop, CallMatches, TypeOK
    <3>2. td \in Threads /\ Tail(sq_blocked[c]) \in Seq(Threads)
      BY <3>1, Popped, ZenonT(30)
    <3>3. /\ sq_blocked' = [sq_blocked EXCEPT ![c] = Tail(@)]
          /\ wchan' = [wchan EXCEPT ![td] = NoCond]
          /\ UNCHANGED <<m_owner, m_count, sq_lock, has_user_waiters, mutex_obj,
                         will_sleep, cancelVars, waitVars, pc>>
      BY <2>8 DEF BroadcastDrop
    <3>4. sq_blocked' \in [Conds -> Seq(Threads)] /\ wchan' \in [Threads -> Conds \cup {NoCond}]
      BY <1>0, <3>1, <3>2, <3>3, ZenonT(40) DEF TypeOK
    <3>5. /\ wake_sema' \in [Threads -> Nat] /\ defer_waiters' \in [Threads -> Seq(Threads)]
          /\ now' \in [Threads -> Seq(Threads)] /\ m_deferred' \in [Mutexes -> BOOLEAN]
      <4>0. /\ now \in [Threads -> Seq(Threads)] /\ m_deferred \in [Mutexes -> BOOLEAN]
            /\ wake_sema \in [Threads -> Nat] /\ defer_waiters \in [Threads -> Seq(Threads)]
        BY <1>0 DEF TypeOK
      <4>1. CASE m_owner[mutex_obj[td]] = t
        <5>1. Defer(t, td, mutex_obj[td]) /\ UNCHANGED now
          BY <2>8, <4>1, ZenonT(30) DEF BroadcastDrop
        <5> HIDE DEF c, td
        <5>2. /\ wake_sema' \in [Threads -> Nat] /\ defer_waiters' \in [Threads -> Seq(Threads)]
              /\ m_deferred' = [m_deferred EXCEPT ![mutex_obj[td]] = TRUE]
          BY <1>0, <3>2, <5>1, Deferred, SMTT(20)
        <5> QED BY <4>0, <5>1, <5>2, Zenon
      <4>2. CASE m_owner[mutex_obj[td]] # t /\ Len(now[t]) >= MaxDeferWaiters
        <5>1. /\ wake_sema' = Released(now[t])
              /\ now' = [now EXCEPT ![t] = <<td>>]
              /\ UNCHANGED <<defer_waiters, m_deferred>>
          BY <2>8, <4>2 DEF BroadcastDrop
        <5> HIDE DEF c, td
        <5>2. <<td>> \in Seq(Threads)
          BY <3>2, Short
        <5>3. wake_sema' \in [Threads -> Nat]
          BY <4>0, <5>1, ReleasedFacts
        <5> QED BY <4>0, <5>1, <5>2, <5>3, ZenonT(30)
      <4>3. CASE m_owner[mutex_obj[td]] # t /\ ~(Len(now[t]) >= MaxDeferWaiters)
        <5>1. /\ now' = [now EXCEPT ![t] = Append(@, td)]
              /\ UNCHANGED <<defer_waiters, m_deferred, wake_sema>>
          BY <2>8, <4>3 DEF BroadcastDrop
        <5> HIDE DEF c, td
        <5>2. Append(now[t], td) \in Seq(Threads)
          BY <4>0, <3>2, Appended
        <5> QED BY <4>0, <5>1, <5>2, ZenonT(30)
      <4> QED BY <4>1, <4>2, <4>3, ZenonT(30)
    <3> HIDE DEF c, td
    <3> QED BY <1>0, <3>3, <3>4, <3>5, ZenonT(40) DEF TypeOK
  <2>9. CASE BroadcastEnd(t)
    <3>1. pc' \in {[pc EXCEPT ![t] = "run"], [pc EXCEPT ![t] = "release"]}
      BY <2>9, Zenon DEF BroadcastEnd, Goto
    <3>2. /\ sq_lock' \in [Conds -> Threads \cup {NoThread}]
          /\ has_user_waiters' \in [Conds -> BOOLEAN]
          /\ cv' \in [Threads -> Conds \cup {NoCond}]
      BY <2>9, <1>0, Zenon DEF BroadcastEnd, TypeOK
    <3>3. pc' \in [Threads -> Steps]
      BY <1>0, <3>1, ZenonT(40) DEF TypeOK, Steps
    <3>4. UNCHANGED <<mutexVars, cancelVars, sq_blocked, wchan, mutex_obj, will_sleep,
                      defer_waiters, wake_sema, mp, recurse, timed, error, now>>
      BY <2>9, Zenon DEF BroadcastEnd
    <3> QED BY <1>0, <3>2, <3>3, <3>4, Zenon DEF TypeOK
  <2>10. CASE Release(t)
    <3>1. now[t] # <<>> /\ now[t] \in Seq(Threads)
      BY <2>10, <1>0 DEF Release, CallMatches, TypeOK
    <3>2. Head(now[t]) \in Threads /\ Tail(now[t]) \in Seq(Threads)
      BY <3>1, Popped
    <3>3. /\ wake_sema' = [wake_sema EXCEPT ![Head(now[t])] = @ + 1]
          /\ now' = [now EXCEPT ![t] = Tail(@)]
          /\ pc' \in {[pc EXCEPT ![t] = "run"], [pc EXCEPT ![t] = "release"]}
      BY <2>10, ZenonT(40) DEF Release, Goto
    <3>4. wake_sema' \in [Threads -> Nat]
      BY <1>0, <3>2, <3>3, OnePost, Zenon DEF TypeOK
    <3>5. pc' \in [Threads -> Steps]
      BY <1>0, <3>3, ZenonT(40) DEF TypeOK, Steps
    <3>6. now' \in [Threads -> Seq(Threads)]
      BY <1>0, <3>2, <3>3, ZenonT(30) DEF TypeOK
    <3>7. UNCHANGED <<mutexVars, queueVars, cancelVars, waitVars, wchan, mutex_obj,
                      will_sleep, defer_waiters>>
      BY <2>10, ZenonT(30) DEF Release
    <3> QED BY <1>0, <3>4, <3>5, <3>6, <3>7, Zenon DEF TypeOK
  <2>11. CASE CancelPost(t)
    <3>1. now[t] # <<>> /\ now[t] \in Seq(Threads)
      BY <2>11, <1>0 DEF CancelPost, CallMatches, TypeOK
    <3>2. Head(now[t]) \in Threads /\ Tail(now[t]) \in Seq(Threads)
      BY <3>1, Popped
    <3>3. /\ wake_sema' = [wake_sema EXCEPT ![Head(now[t])] = @ + 1]
          /\ now' = [now EXCEPT ![t] = <<>>]
          /\ pc' \in {[pc EXCEPT ![t] = "run"], [pc EXCEPT ![t] = "release"]}
      BY <2>11 DEF CancelPost, Goto
    <3>4. wake_sema' \in [Threads -> Nat]
      BY <1>0, <3>2, <3>3, OnePost, Zenon DEF TypeOK
    <3>5. pc' \in [Threads -> Steps]
      BY <1>0, <3>3, Zenon DEF TypeOK, Steps
    <3>6. now' \in [Threads -> Seq(Threads)]
      BY <1>0, <3>2, <3>3 DEF TypeOK
    <3>7. UNCHANGED <<mutexVars, queueVars, cancelVars, waitVars, wchan, mutex_obj,
                      will_sleep, defer_waiters>>
      BY <2>11 DEF CancelPost
    <3> QED BY <1>0, <3>4, <3>5, <3>6, <3>7, ZenonT(30) DEF TypeOK
  <2> QED BY <1>1, <2>1, <2>2, <2>3, <2>4, <2>5, <2>6, <2>7, <2>8, <2>9, <2>10, <2>11, ZenonT(30)
          DEF Continue
<1>2. ASSUME NEW t \in Threads, TimeOut(t) PROVE TypeOK'
  <2>1. /\ pc' \in [Threads -> Steps]
        /\ error' \in [Threads -> Errors]
    BY <1>2, <1>0, ConstantsAssumption, ZenonT(30) DEF TimeOut, TypeOK, Goto, Steps, Errors
  <2>2. UNCHANGED <<mutexVars, queueVars, cancelVars, wchan, mutex_obj, will_sleep,
                    defer_waiters, wake_sema, cv, mp, recurse, timed, now>>
    BY <1>2 DEF TimeOut
  <2> QED BY <1>0, <2>1, <2>2, Zenon DEF TypeOK
<1>3. ASSUME NEW t \in Threads, Relock(t) PROVE TypeOK'
  <2>1. /\ m_count \in [Mutexes -> 0..MaxRecursion] /\ recurse \in [Threads -> 0..MaxRecursion]
        /\ m_count' = [m_count EXCEPT ![mp[t]] = recurse[t]]
        /\ recurse' = [recurse EXCEPT ![t] = 0]
    BY <1>0, <1>3 DEF Relock, TypeOK
  <2>2. 0 \in 0..MaxRecursion /\ recurse[t] \in 0..MaxRecursion
    BY <2>1, ConstantsAssumption
  <2>3. recurse' \in [Threads -> 0..MaxRecursion]
    BY <2>1, <2>2
  <2>4. m_count' \in [Mutexes -> 0..MaxRecursion]
    BY <2>1, <2>2, Zenon
  <2>5. /\ cancelling' \in [Threads -> BOOLEAN]
        /\ timed' \in [Threads -> BOOLEAN]
    BY <1>3, <1>0 DEF Relock, TypeOK
  <2>6. /\ m_owner' \in [Mutexes -> Threads \cup {NoThread}]
        /\ cv' \in [Threads -> Conds \cup {NoCond}]
        /\ mp' \in [Threads -> Mutexes \cup {NoMutex}]
        /\ error' \in [Threads -> Errors]
        /\ pc' \in [Threads -> Steps]
    BY <1>3, <1>0, Zenon DEF Relock, TypeOK, Goto, Steps, Errors
  <2>7. UNCHANGED <<queueVars, m_deferred, wchan, mutex_obj, will_sleep, defer_waiters,
                    wake_sema, cancel_pending, cancel_enable, now>>
    BY <1>3, ZenonT(30) DEF Relock
  <2> QED BY <1>0, <2>3, <2>4, <2>5, <2>6, <2>7, Zenon DEF TypeOK
<1>4. ASSUME NEW t \in Threads, SetCancelState(t) \/ TestCancel(t) PROVE TypeOK'
  <2>1. CASE SetCancelState(t)
    <3>1. /\ cancel_enable' \in [Threads -> BOOLEAN]
          /\ cancelling' \in [Threads -> BOOLEAN]
      BY <2>1, <1>0, ConstantsAssumption, ZenonT(30) DEF SetCancelState, TypeOK, Goto
    <3>2. UNCHANGED <<mutexVars, queueVars, waitVars, wchan, mutex_obj, will_sleep,
                      defer_waiters, wake_sema, cancel_pending, pc, now>>
      BY <2>1 DEF SetCancelState
    <3> QED BY <1>0, <3>1, <3>2, Zenon DEF TypeOK
  <2>2. CASE TestCancel(t)
    <3>1. cancelling' \in [Threads -> BOOLEAN]
      BY <2>2, <1>0, ConstantsAssumption, ZenonT(30) DEF TestCancel, TypeOK, Goto
    <3>2. UNCHANGED <<mutexVars, queueVars, waitVars, wchan, mutex_obj, will_sleep,
                      defer_waiters, wake_sema, cancel_pending, cancel_enable, pc, now>>
      BY <2>2, ZenonT(30) DEF TestCancel
    <3> QED BY <1>0, <3>1, <3>2, Zenon DEF TypeOK
  <2> QED BY <1>4, <2>1, <2>2
<1>5. ASSUME NEW t \in Threads, NEW m \in Mutexes, Lock(t, m) PROVE TypeOK'
  <2>1. UNCHANGED <<queueVars, cancelVars, waitVars, m_deferred, wchan, mutex_obj,
                    will_sleep, defer_waiters, wake_sema, pc, now>>
    BY <1>5 DEF Lock
  <2>2. m_owner' \in [Mutexes -> Threads \cup {NoThread}]
    BY <1>5, <1>0, Zenon DEF Lock, TypeOK
  <2>3. \/ m_count' = m_count
        \/ m_count[m] + 1 <= MaxRecursion /\ m_count' = [m_count EXCEPT ![m] = @ + 1]
    BY <1>5 DEF Lock
  <2>4. m_count \in [Mutexes -> 0..MaxRecursion]
    BY <1>0 DEF TypeOK
  <2>5. m_count' \in [Mutexes -> 0..MaxRecursion]
    BY <2>3, <2>4, ConstantsAssumption
  <2> QED BY <1>0, <2>1, <2>2, <2>5, ZenonT(30) DEF TypeOK
<1>6. ASSUME NEW t \in Threads, NEW m \in Mutexes, Unlock(t, m) PROVE TypeOK'
  <2>1. UNCHANGED <<queueVars, cancelVars, waitVars, wchan, mutex_obj, will_sleep,
                    defer_waiters, wake_sema, now>>
    BY <1>6, ZenonT(30) DEF Unlock
  <2>2. \/ /\ m_count[m] > 0 /\ m_count' = [m_count EXCEPT ![m] = @ - 1]
           /\ UNCHANGED <<m_owner, m_deferred, pc>>
        \/ /\ m_owner' = [m_owner EXCEPT ![m] = NoThread]
           /\ m_deferred' = [m_deferred EXCEPT ![m] = FALSE]
           /\ pc' \in {[pc EXCEPT ![t] = "flush"], pc}
           /\ UNCHANGED m_count
    BY <1>6, ZenonT(30) DEF Unlock
  <2>3. m_count \in [Mutexes -> 0..MaxRecursion]
    BY <1>0 DEF TypeOK
  <2>4. m_count' \in [Mutexes -> 0..MaxRecursion]
    BY <2>2, <2>3, ConstantsAssumption
  <2>5. /\ m_owner' \in [Mutexes -> Threads \cup {NoThread}]
        /\ m_deferred' \in [Mutexes -> BOOLEAN]
        /\ pc' \in [Threads -> Steps]
    BY <1>0, <2>2, Zenon DEF TypeOK, Steps
  <2> QED BY <1>0, <2>1, <2>4, <2>5, ZenonT(30) DEF TypeOK
<1>7. ASSUME NEW t \in Threads, NEW c \in Conds, NEW m \in Mutexes, NEW b \in Deadlines,
             WaitBegin(t, c, m, b)
      PROVE  TypeOK'
  <2>1. /\ m_count' \in [Mutexes -> 0..MaxRecursion]
        /\ recurse' \in [Threads -> 0..MaxRecursion]
    BY <1>7, <1>0, ConstantsAssumption, SMTT(20) DEF WaitBegin, TypeOK
  <2>2. /\ m_owner' \in [Mutexes -> Threads \cup {NoThread}]
        /\ sq_lock' \in [Conds -> Threads \cup {NoThread}]
        /\ cv' \in [Threads -> Conds \cup {NoCond}]
        /\ mp' \in [Threads -> Mutexes \cup {NoMutex}]
        /\ pc' \in [Threads -> Steps]
    BY <1>7, <1>0, ZenonT(30) DEF WaitBegin, TypeOK, Goto, Steps
  <2>3. /\ m_deferred' \in [Mutexes -> BOOLEAN]
        /\ has_user_waiters' \in [Conds -> BOOLEAN]
        /\ will_sleep' \in [Threads -> BOOLEAN]
        /\ timed' \in [Threads -> BOOLEAN]
    BY <1>7, <1>0, ConstantsAssumption, ZenonT(30) DEF WaitBegin, TypeOK
  <2>4. UNCHANGED <<cancelVars, sq_blocked, wchan, mutex_obj, defer_waiters, wake_sema,
                    error, now>>
    BY <1>7 DEF WaitBegin
  <2> QED BY <1>0, <2>1, <2>2, <2>3, <2>4, ZenonT(30) DEF TypeOK
<1>8. ASSUME NEW t \in Threads, NEW c \in Conds, NEW td \in Threads, Taken(t, c, td)
      PROVE  TypeOK'
  <2>1. /\ sq_blocked' \in [Conds -> Seq(Threads)]
        /\ wchan' \in [Threads -> Conds \cup {NoCond}]
        /\ has_user_waiters' \in [Conds -> BOOLEAN]
    BY <1>8, Unqueued, ZenonT(30) DEF Taken, Dequeue
  <2>2. UNCHANGED <<m_owner, m_count, sq_lock, mutex_obj, will_sleep, cancelVars, waitVars>>
    BY <1>8, ZenonT(30) DEF Taken, Dequeue
  <2>3. /\ wake_sema' \in [Threads -> Nat] /\ defer_waiters' \in [Threads -> Seq(Threads)]
        /\ now' \in [Threads -> Seq(Threads)] /\ m_deferred' \in [Mutexes -> BOOLEAN]
        /\ pc' \in [Threads -> Steps]
    <3>1. CASE m_owner[mutex_obj[td]] = t
      <4>1. Defer(t, td, mutex_obj[td]) /\ UNCHANGED <<pc, now>>
        BY <1>8, <3>1, ZenonT(30) DEF Taken, Dequeue
      <4>2. /\ wake_sema' \in [Threads -> Nat] /\ defer_waiters' \in [Threads -> Seq(Threads)]
            /\ m_deferred' = [m_deferred EXCEPT ![mutex_obj[td]] = TRUE]
        BY <1>0, <4>1, Deferred, ZenonT(30)
      <4> QED BY <1>0, <4>1, <4>2, Zenon DEF TypeOK
    <3>2. CASE m_owner[mutex_obj[td]] # t
      <4>1. /\ now' = [now EXCEPT ![t] = <<td>>] /\ pc' = [pc EXCEPT ![t] = "release"]
            /\ UNCHANGED <<defer_waiters, wake_sema, m_deferred>>
        BY <1>8, <3>2, Zenon DEF Taken, Dequeue, Goto
      <4>2. <<td>> \in Seq(Threads)
        BY Short, SMTT(20)
      <4> QED BY <1>0, <4>1, <4>2, ZenonT(30) DEF TypeOK, Steps
    <3> QED BY <3>1, <3>2, ZenonT(30)
  <2> QED BY <1>0, <2>1, <2>2, <2>3, Zenon DEF TypeOK
<1>9. ASSUME NEW t \in Threads, NEW c \in Conds, BroadcastBegin(t, c) PROVE TypeOK'
  <2>1. /\ sq_lock' \in [Conds -> Threads \cup {NoThread}]
        /\ pc' \in [Threads -> Steps]
        /\ cv' \in [Threads -> Conds \cup {NoCond}]
    BY <1>9, <1>0, ConstantsAssumption, ZenonT(30) DEF BroadcastBegin, TypeOK, Goto, Steps
  <2>2. UNCHANGED <<mutexVars, cancelVars, sq_blocked, has_user_waiters, wchan, mutex_obj,
                    will_sleep, defer_waiters, wake_sema, mp, recurse, timed, error, now>>
    BY <1>9, Zenon DEF BroadcastBegin
  <2> QED BY <1>0, <2>1, <2>2, ZenonT(30) DEF TypeOK
<1>10. ASSUME NEW t \in Threads, NEW u \in Threads, CancelBegin(t, u) PROVE TypeOK'
  <2>0. <<u>> \in Seq(Threads)
    BY Short
  <2>1. /\ cancel_pending' \in [Threads -> BOOLEAN]
        /\ pc' \in [Threads -> Steps]
        /\ now' \in [Threads -> Seq(Threads)]
    BY <1>10, <1>0, ConstantsAssumption, <2>0, ZenonT(30) DEF CancelBegin, TypeOK, Goto, Steps
  <2>2. UNCHANGED <<mutexVars, queueVars, waitVars, wchan, mutex_obj, will_sleep,
                    defer_waiters, wake_sema, cancel_enable, cancelling>>
    BY <1>10, ZenonT(30) DEF CancelBegin
  <2> QED BY <1>0, <2>1, <2>2, Zenon DEF TypeOK
<1>11. CASE UNCHANGED vars
  BY <1>0, <1>11, ZenonT(30) DEF vars, TypeOK
<1> QED BY <1>1, <1>2, <1>3, <1>4, <1>5, <1>6, <1>7, <1>8, <1>9, <1>10, <1>11, NextCases, ZenonT(30)


-------------------------------------------------------------------------------
\* Only t moves, to one of the steps in S.
Moves(t, S) == pc'[t] \in S /\ \A u \in Threads \ {t} : pc'[u] = pc[u]

\* What a mutex operation does besides the owner and the flag.
LEMMA MutexFacts ==
    ASSUME TypeOK, NEW t \in Threads, NEW m \in Mutexes, Lock(t, m) \/ Unlock(t, m)
    PROVE  /\ pc[t] = "run"
           /\ UNCHANGED <<queueVars, wchan, mutex_obj, will_sleep, defer_waiters, wake_sema,
                          cancelVars, waitVars, now>>
           /\ Moves(t, {"run", "flush"})
           /\ m_count' = m_count \/ m \in Recursive
           /\ \A n \in Mutexes \ {m} : m_count'[n] = m_count[n]
<1>0. pc \in [Threads -> Steps] /\ m_count \in [Mutexes -> 0 .. MaxRecursion]
  BY ZenonT(30) DEF TypeOK
<1>1. CASE Lock(t, m)
  <2>1. /\ pc[t] = "run"
        /\ UNCHANGED <<queueVars, wchan, mutex_obj, will_sleep, defer_waiters, wake_sema,
                       cancelVars, waitVars, now, pc>>
    BY <1>1, ZenonT(30) DEF Lock, Running
  <2>2. m_count' = m_count \/ (m \in Recursive /\ m_count' = [m_count EXCEPT ![m] = @ + 1])
    BY <1>1, ZenonT(30) DEF Lock
  <2>3. \A n \in Mutexes \ {m} : m_count'[n] = m_count[n]
    BY <1>0, <2>2, ZenonT(30)
  <2> QED BY <2>1, <2>2, <2>3, ZenonT(30) DEF Moves
<1>2. CASE Unlock(t, m)
  <2>1. /\ pc[t] = "run"
        /\ UNCHANGED <<queueVars, wchan, mutex_obj, will_sleep, defer_waiters, wake_sema,
                       cancelVars, waitVars, now>>
    BY <1>2, ZenonT(30) DEF Unlock
  <2>2. m_count' = m_count \/ (m \in Recursive /\ m_count' = [m_count EXCEPT ![m] = @ - 1])
    BY <1>2, ZenonT(30) DEF Unlock
  <2>3. \A n \in Mutexes \ {m} : m_count'[n] = m_count[n]
    BY <1>0, <2>2, ZenonT(30)
  <2>4. pc' = pc \/ pc' = [pc EXCEPT ![t] = "flush"]
    BY <1>2 DEF Unlock
  <2>5. Moves(t, {"run", "flush"})
    BY <1>0, <2>1, <2>4, ZenonT(30) DEF Moves
  <2> QED BY <2>1, <2>2, <2>3, <2>5, ZenonT(30)
<1> QED BY <1>1, <1>2, ZenonT(30)

\* What a signal does besides the queue and the posts.
LEMMA TakenFacts ==
    ASSUME TypeOK, NEW t \in Threads, NEW c, NEW td, Taken(t, c, td)
    PROVE  /\ pc[t] = "run"
           /\ UNCHANGED <<m_owner, m_count, sq_lock, mutex_obj, will_sleep, cancelVars, waitVars>>
           /\ Moves(t, {"run", "release"})
           /\ \A u \in Threads \ {t} : now'[u] = now[u]
           /\ IF pc'[t] = "release" THEN now'[t] = <<td>> ELSE now'[t] = now[t]
<1>0. pc \in [Threads -> Steps] /\ now \in [Threads -> Seq(Threads)]
  BY ZenonT(30) DEF TypeOK
<1>1. /\ pc[t] = "run"
      /\ UNCHANGED <<m_owner, m_count, sq_lock, mutex_obj, will_sleep, cancelVars, waitVars>>
  BY ZenonT(30) DEF Taken, Dequeue, Running
<1>2. \/ UNCHANGED <<pc, now>>
      \/ pc' = [pc EXCEPT ![t] = "release"] /\ now' = [now EXCEPT ![t] = <<td>>]
  BY ZenonT(30) DEF Taken, Dequeue, Goto
<1>3. CASE UNCHANGED <<pc, now>>
  BY <1>0, <1>1, <1>3, ZenonT(30) DEF Moves
<1>4. CASE pc' = [pc EXCEPT ![t] = "release"] /\ now' = [now EXCEPT ![t] = <<td>>]
  BY <1>0, <1>1, <1>4 DEF Moves
<1> QED BY <1>2, <1>3, <1>4, ZenonT(30)

\* A thread enters and leaves its calls with the locals they need.
LEMMA CallStep == QueueMatchesWchan /\ CallMatches /\ [Next]_vars => CallMatches'
<1> SUFFICES ASSUME QueueMatchesWchan, CallMatches, [Next]_vars PROVE CallMatches'
  BY ZenonT(30)
<1>0. TypeOK
  BY DEF QueueMatchesWchan
<1>t. /\ pc \in [Threads -> Steps] /\ now \in [Threads -> Seq(Threads)]
      /\ cv \in [Threads -> Conds \cup {NoCond}] /\ mp \in [Threads -> Mutexes \cup {NoMutex}]
      /\ timed \in [Threads -> BOOLEAN] /\ error \in [Threads -> Errors]
  BY <1>0, Zenon DEF TypeOK
<1> USE <1>t, ConstantsAssumption
    DEF CallMatches, InWait, mutexVars, queueVars, cancelVars, waitVars, Goto, Running
<1>1. ASSUME NEW t \in Threads, Continue(t) PROVE CallMatches'
  <2>1. CASE WakeAll(t)
    BY <2>1, ZenonT(30) DEF WakeAll
  <2>2. CASE WaitAdd(t)
    BY <2>2, ZenonT(30) DEF WaitAdd
  <2>3. CASE WaitArm(t)
    <3>1. /\ pc[t] = "arm" /\ UNCHANGED <<cv, mp, timed, now>>
          /\ \/ pc' = [pc EXCEPT ![t] = "woken"] /\ error' = [error EXCEPT ![t] = "0"]
             \/ pc' = [pc EXCEPT ![t] = "sleep"] /\ UNCHANGED error
      BY <2>3, ZenonT(30) DEF WaitArm
    <3>2. CASE pc' = [pc EXCEPT ![t] = "woken"] /\ error' = [error EXCEPT ![t] = "0"]
      BY <3>1, <3>2, ZenonT(30)
    <3>3. CASE pc' = [pc EXCEPT ![t] = "sleep"] /\ UNCHANGED error
      BY <3>1, <3>3, ZenonT(30)
    <3> QED BY <3>1, <3>2, <3>3, ZenonT(30)
  <2>4. CASE Acquire(t)
    BY <2>4, ZenonT(30) DEF Acquire
  <2>5. CASE RecheckSignalled(t)
    BY <2>5, ZenonT(30) DEF RecheckSignalled
  <2>6. CASE RecheckGiveUp(t)
    BY <2>6, ZenonT(30) DEF RecheckGiveUp
  <2>7. CASE RecheckAgain(t)
    BY <2>7, ZenonT(30) DEF RecheckAgain
  <2>8. CASE BroadcastDrop(t)
    <3>1. pc[t] = "drop" /\ UNCHANGED <<pc, cv, mp, error, timed>>
      BY <2>8, ZenonT(30) DEF BroadcastDrop
    <3>2. \/ UNCHANGED now
          \/ now' = [now EXCEPT ![t] = <<Head(sq_blocked[cv[t]])>>]
          \/ now' = [now EXCEPT ![t] = Append(@, Head(sq_blocked[cv[t]]))]
      BY <2>8, ZenonT(30) DEF BroadcastDrop
    <3>3. \A u \in Threads \ {t} : now'[u] = now[u]
      BY <3>2, ZenonT(30)
    <3> QED BY <3>1, <3>3, ZenonT(30)
  <2>9. CASE BroadcastEnd(t)
    BY <2>9, ZenonT(30) DEF BroadcastEnd
  <2>10. CASE Release(t)
    <3>0. now[t] # <<>> /\ now[t] \in Seq(Threads)
      BY <2>10 DEF Release
    <3>1. Len(now[t]) = 1 <=> Tail(now[t]) = <<>>
      BY <3>0, Popped, Zenon
    <3>2. /\ pc[t] = "release" /\ UNCHANGED <<cv, mp, error, timed>>
          /\ now' = [now EXCEPT ![t] = Tail(now[t])]
          /\ pc' = [pc EXCEPT ![t] = IF Tail(now[t]) = <<>> THEN "run" ELSE "release"]
      BY <2>10, <3>1, Zenon DEF Release
    <3> QED BY <3>2, ZenonT(30)
  <2>11. CASE CancelPost(t)
    BY <2>11, ZenonT(30) DEF CancelPost
  <2> QED BY <1>1, <2>1, <2>2, <2>3, <2>4, <2>5, <2>6, <2>7, <2>8, <2>9, <2>10, <2>11, ZenonT(30)
          DEF Continue
<1>2. ASSUME NEW t \in Threads, TimeOut(t) PROVE CallMatches'
  BY <1>2, ZenonT(30) DEF TimeOut
<1>3. ASSUME NEW t \in Threads, Relock(t) PROVE CallMatches'
  BY <1>3, ZenonT(30) DEF Relock
<1>4. ASSUME NEW t \in Threads, SetCancelState(t) \/ TestCancel(t) PROVE CallMatches'
  BY <1>4, ZenonT(30) DEF SetCancelState, TestCancel
<1>5. ASSUME NEW t \in Threads, NEW m \in Mutexes, Lock(t, m) \/ Unlock(t, m) PROVE CallMatches'
  <2>1. pc[t] = "run" /\ UNCHANGED <<cv, mp, error, timed, now>> /\ Moves(t, {"run", "flush"})
    BY <1>0, <1>5, MutexFacts, ZenonT(30)
  <2> QED BY <2>1, ZenonT(30) DEF Moves
<1>6. ASSUME NEW t \in Threads, NEW c \in Conds, NEW m \in Mutexes, NEW b \in Deadlines,
             WaitBegin(t, c, m, b)
      PROVE  CallMatches'
  BY <1>6 DEF WaitBegin
<1>7. ASSUME NEW t \in Threads, NEW c \in Conds, NEW td \in Threads, Taken(t, c, td)
      PROVE  CallMatches'
  <2>1. <<td>> # <<>> /\ Len(<<td>>) = 1
    BY Short
  <2>2. /\ pc[t] = "run" /\ UNCHANGED <<cv, mp, error, timed>> /\ Moves(t, {"run", "release"})
        /\ \A u \in Threads \ {t} : now'[u] = now[u]
        /\ IF pc'[t] = "release" THEN now'[t] = <<td>> ELSE now'[t] = now[t]
    BY <1>0, <1>7, TakenFacts, ZenonT(30)
  <2> QED BY <2>1, <2>2, ZenonT(40) DEF Moves
<1>8. ASSUME NEW t \in Threads, NEW c \in Conds, BroadcastBegin(t, c) PROVE CallMatches'
  BY <1>8, ZenonT(30) DEF BroadcastBegin
<1>9. ASSUME NEW t \in Threads, NEW u \in Threads, CancelBegin(t, u) PROVE CallMatches'
  BY <1>9, Short, ZenonT(30) DEF CancelBegin
<1>10. CASE UNCHANGED vars
  BY <1>10 DEF vars
<1> QED BY <1>1, <1>2, <1>3, <1>4, <1>5, <1>6, <1>7, <1>8, <1>9, <1>10, NextCases, Zenon

\* Only Lock, Unlock, Wait and the end of a wait touch a depth.
LEMMA DepthStep ==
    QueueMatchesWchan /\ CallMatches /\ DepthMatches /\ [Next]_vars => DepthMatches'
<1> SUFFICES ASSUME QueueMatchesWchan, CallMatches, DepthMatches, [Next]_vars
             PROVE  DepthMatches'
  BY ZenonT(30)
<1>0. TypeOK
  BY ZenonT(30) DEF QueueMatchesWchan
<1> USE <1>0, ConstantsAssumption
    DEF TypeOK, DepthMatches, mutexVars, queueVars, cancelVars, waitVars, Goto, Running
<1>1. ASSUME NEW t \in Threads, Continue(t) \/ TimeOut(t) \/ SetCancelState(t) \/ TestCancel(t)
      PROVE  DepthMatches'
  <2>1. UNCHANGED <<m_count, recurse, mp>>
    BY <1>1, Zenon DEF Continue, WakeAll, WaitAdd, WaitArm, Acquire, RecheckSignalled,
                RecheckGiveUp,
                RecheckAgain, BroadcastDrop, BroadcastEnd, Release, CancelPost, TimeOut,
                SetCancelState, TestCancel
  <2> QED BY <2>1
<1>2. ASSUME NEW t \in Threads, Relock(t) PROVE DepthMatches'
  BY <1>2, SMTT(20) DEF Relock, CallMatches, InWait
<1>3. ASSUME NEW t \in Threads, NEW m \in Mutexes, Lock(t, m) \/ Unlock(t, m)
      PROVE  DepthMatches'
  BY <1>3, MutexFacts, ZenonT(40)
<1>4. ASSUME NEW t \in Threads, NEW c \in Conds, NEW m \in Mutexes, NEW b \in Deadlines,
             WaitBegin(t, c, m, b)
      PROVE  DepthMatches'
  BY <1>4, SMTT(20) DEF WaitBegin
<1>5. ASSUME NEW t \in Threads, NEW c \in Conds, NEW td \in Threads,
             Taken(t, c, td) \/ BroadcastBegin(t, c)
      PROVE  DepthMatches'
  <2>1. UNCHANGED <<m_count, recurse, mp>>
    BY <1>5, ZenonT(30) DEF Taken, Dequeue, BroadcastBegin
  <2> QED BY <2>1, ZenonT(30)
<1>6. ASSUME NEW t \in Threads, NEW u \in Threads, CancelBegin(t, u) PROVE DepthMatches'
  BY <1>6, ZenonT(30) DEF CancelBegin
<1>7. CASE UNCHANGED vars
  BY <1>7 DEF vars
<1> QED BY <1>1, <1>2, <1>3, <1>4, <1>5, <1>6, <1>7, NextCases, Zenon

\* Every other thread stays where it is, in the call it is in.
OthersStay(t) == \A u \in Threads \ {t} : pc'[u] = pc[u] /\ cv'[u] = cv[u]

\* No lock changes hands when t does not start or stop having one.
LEMMA LockKept ==
    ASSUME LockMatches, NEW t \in Threads, OthersStay(t), UNCHANGED sq_lock,
           pc'[t] \in WithLock <=> pc[t] \in WithLock,
           pc[t] \in WithLock => cv'[t] = cv[t]
    PROVE  LockMatches'
<1>1. ASSUME NEW c \in Conds, NEW u \in Threads
      PROVE  sq_lock'[c] = u <=> pc'[u] \in WithLock /\ cv'[u] = c
  <2>1. sq_lock[c] = u <=> pc[u] \in WithLock /\ cv[u] = c
    BY Zenon DEF LockMatches
  <2>2. CASE u = t
    BY <2>1, <2>2, Zenon
  <2>3. CASE u # t
    BY <2>1, <2>3, Zenon DEF OthersStay
  <2> QED BY <2>2, <2>3, Zenon
<1> QED BY <1>1, Zenon DEF LockMatches

\* t takes the free lock of c.
LEMMA LockTaken ==
    ASSUME LockMatches, NEW t \in Threads, OthersStay(t), NEW c \in Conds,
           sq_lock \in [Conds -> Threads \cup {NoThread}],
           sq_lock[c] = NoThread, sq_lock' = [sq_lock EXCEPT ![c] = t],
           pc[t] \notin WithLock, pc'[t] \in WithLock, cv'[t] = c
    PROVE  LockMatches'
<1>1. ASSUME NEW d \in Conds, NEW u \in Threads
      PROVE  sq_lock'[d] = u <=> pc'[u] \in WithLock /\ cv'[u] = d
  <2>1. sq_lock[d] = u <=> pc[u] \in WithLock /\ cv[u] = d
    BY Zenon DEF LockMatches
  <2>2. sq_lock'[c] = t /\ (d # c => sq_lock'[d] = sq_lock[d])
    BY Zenon
  <2>3. u # NoThread
    BY ConstantsAssumption, Zenon
  <2>4. CASE u = t
    BY <2>1, <2>2, <2>4, Zenon
  <2>5. CASE u # t
    BY <2>1, <2>2, <2>3, <2>5, Zenon DEF OthersStay
  <2> QED BY <2>4, <2>5, Zenon
<1> QED BY <1>1, Zenon DEF LockMatches

\* t gives back the lock it has.
LEMMA LockGivenBack ==
    ASSUME LockMatches, NEW t \in Threads, OthersStay(t), NEW c \in Conds,
           sq_lock \in [Conds -> Threads \cup {NoThread}],
           cv[t] = c, sq_lock' = [sq_lock EXCEPT ![c] = NoThread],
           pc[t] \in WithLock, pc'[t] \notin WithLock
    PROVE  LockMatches'
<1>1. ASSUME NEW d \in Conds, NEW u \in Threads
      PROVE  sq_lock'[d] = u <=> pc'[u] \in WithLock /\ cv'[u] = d
  <2>1. /\ sq_lock[d] = u <=> pc[u] \in WithLock /\ cv[u] = d
        /\ sq_lock[d] = t <=> pc[t] \in WithLock /\ cv[t] = d
        /\ sq_lock[c] = t
    BY Zenon DEF LockMatches
  <2>2. sq_lock'[c] = NoThread /\ (d # c => sq_lock'[d] = sq_lock[d])
    BY Zenon
  <2>3. u # NoThread
    BY ConstantsAssumption, Zenon
  <2>4. CASE u = t
    BY <2>1, <2>2, <2>3, <2>4, Zenon
  <2>5. CASE u # t
    BY <2>1, <2>2, <2>3, <2>5, Zenon DEF OthersStay
  <2> QED BY <2>4, <2>5, Zenon
<1> QED BY <1>1, Zenon DEF LockMatches

\* A sleep-queue lock is taken and released by the thread whose step says so.
LEMMA LockStep ==
    QueueMatchesWchan /\ CallMatches /\ LockMatches /\ [Next]_vars => LockMatches'
<1> SUFFICES ASSUME QueueMatchesWchan, CallMatches, LockMatches, [Next]_vars
             PROVE  LockMatches'
  OBVIOUS
<1>0. TypeOK
  BY Zenon DEF QueueMatchesWchan
<1>t. /\ pc \in [Threads -> Steps] /\ cv \in [Threads -> Conds \cup {NoCond}]
      /\ sq_lock \in [Conds -> Threads \cup {NoThread}]
  BY <1>0, Zenon DEF TypeOK
<1>w. /\ \A s \in {"add", "arm", "drop"} : s \in WithLock
      /\ \A s \in {"run", "flush", "sleep", "woken", "relock", "release", "cancel"} :
            s \notin WithLock
  BY DEF WithLock
<1>c. \A t \in Threads : pc[t] \in {"arm", "woken", "drop"} => cv[t] \in Conds
  BY Zenon DEF CallMatches, InWait
<1> USE <1>t DEF mutexVars, queueVars, cancelVars, waitVars, Goto, Running, OthersStay
<1>1. ASSUME NEW t \in Threads, Continue(t) PROVE LockMatches'
  <2>1. CASE WakeAll(t)
    <3>1. /\ UNCHANGED <<sq_lock, cv>> /\ pc[t] \in {"flush", "sleep"}
          /\ pc' = [pc EXCEPT ![t] = "run"] \/ pc' = pc
      BY <2>1, Zenon DEF WakeAll
    <3>2. pc'[t] \in {"run", "flush", "sleep"} /\ OthersStay(t)
      BY <3>1, Zenon
    <3> QED BY <3>1, <3>2, <1>w, LockKept, Zenon
  <2>2. CASE WaitAdd(t)
    <3>1. /\ UNCHANGED <<sq_lock, cv>> /\ pc[t] = "add" /\ pc' = [pc EXCEPT ![t] = "arm"]
      BY <2>2, Zenon DEF WaitAdd
    <3>2. pc'[t] = "arm" /\ OthersStay(t)
      BY <3>1, Zenon
    <3> QED BY <3>1, <3>2, <1>w, LockKept, Zenon
  <2>3. CASE WaitArm(t)
    <3>1. /\ sq_lock' = [sq_lock EXCEPT ![cv[t]] = NoThread] /\ UNCHANGED cv /\ pc[t] = "arm"
          /\ pc' = [pc EXCEPT ![t] = "woken"] \/ pc' = [pc EXCEPT ![t] = "sleep"]
      BY <2>3, Zenon DEF WaitArm
    <3>2. pc'[t] \in {"woken", "sleep"} /\ OthersStay(t)
      BY <3>1, Zenon
    <3> QED BY <3>1, <3>2, <1>c, <1>w, LockGivenBack, Zenon
  <2>4. CASE Acquire(t) \/ RecheckSignalled(t) \/ RecheckGiveUp(t)
    <3>1. /\ UNCHANGED <<sq_lock, cv>> /\ pc[t] \in {"sleep", "woken"}
          /\ pc' = [pc EXCEPT ![t] = "woken"] \/ pc' = [pc EXCEPT ![t] = "relock"]
      BY <2>4, Zenon DEF Acquire, RecheckSignalled, RecheckGiveUp
    <3>2. pc'[t] \in {"woken", "relock"} /\ OthersStay(t)
      BY <3>1, Zenon
    <3> QED BY <3>1, <3>2, <1>w, LockKept, Zenon
  <2>5. CASE RecheckAgain(t)
    <3>1. /\ sq_lock[cv[t]] = NoThread /\ sq_lock' = [sq_lock EXCEPT ![cv[t]] = t]
          /\ UNCHANGED cv /\ pc[t] = "woken" /\ pc' = [pc EXCEPT ![t] = "arm"]
      BY <2>5, Zenon DEF RecheckAgain
    <3>2. pc'[t] = "arm" /\ OthersStay(t)
      BY <3>1, Zenon
    <3> QED BY <3>1, <3>2, <1>c, <1>w, LockTaken, Zenon
  <2>6. CASE BroadcastDrop(t)
    <3>1. UNCHANGED <<sq_lock, cv, pc>>
      BY <2>6, Zenon DEF BroadcastDrop
    <3> QED BY <3>1, LockKept, Zenon
  <2>7. CASE BroadcastEnd(t)
    <3>1. /\ sq_lock' = [sq_lock EXCEPT ![cv[t]] = NoThread] /\ cv' = [cv EXCEPT ![t] = NoCond]
          /\ pc[t] = "drop"
          /\ pc' = [pc EXCEPT ![t] = "run"] \/ pc' = [pc EXCEPT ![t] = "release"]
      BY <2>7, Zenon DEF BroadcastEnd
    <3>2. pc'[t] \in {"run", "release"} /\ OthersStay(t)
      BY <3>1, Zenon
    <3> QED BY <3>1, <3>2, <1>c, <1>w, LockGivenBack, Zenon
  <2>8. CASE Release(t) \/ CancelPost(t)
    <3>1. /\ UNCHANGED <<sq_lock, cv>> /\ pc[t] \in {"release", "cancel"}
          /\ pc' = [pc EXCEPT ![t] = "run"] \/ pc' = [pc EXCEPT ![t] = "release"]
      BY <2>8, Zenon DEF Release, CancelPost
    <3>2. pc'[t] \in {"run", "release"} /\ OthersStay(t)
      BY <3>1, Zenon
    <3> QED BY <3>1, <3>2, <1>w, LockKept, Zenon
  <2> QED BY <1>1, <2>1, <2>2, <2>3, <2>4, <2>5, <2>6, <2>7, <2>8, Zenon DEF Continue
<1>2. ASSUME NEW t \in Threads, TimeOut(t) \/ Relock(t) PROVE LockMatches'
  <2>1. /\ UNCHANGED sq_lock /\ pc[t] \in {"sleep", "relock"}
        /\ pc' = [pc EXCEPT ![t] = "woken"] \/ pc' = [pc EXCEPT ![t] = "run"]
        /\ cv' = cv \/ cv' = [cv EXCEPT ![t] = NoCond]
    BY <1>2, Zenon DEF TimeOut, Relock
  <2>2. pc'[t] \in {"woken", "run"} /\ OthersStay(t)
    BY <2>1, Zenon
  <2> QED BY <2>1, <2>2, <1>w, LockKept, Zenon
<1>3. ASSUME NEW t \in Threads, SetCancelState(t) \/ TestCancel(t) PROVE LockMatches'
  <2>1. UNCHANGED <<sq_lock, pc, cv>>
    BY <1>3, Zenon DEF SetCancelState, TestCancel
  <2> QED BY <2>1, LockKept, Zenon
<1>4. ASSUME NEW t \in Threads, NEW m \in Mutexes, Lock(t, m) \/ Unlock(t, m) PROVE LockMatches'
  <2>1. pc[t] = "run" /\ UNCHANGED <<sq_lock, cv>> /\ Moves(t, {"run", "flush"})
    BY <1>0, <1>4, MutexFacts, Zenon
  <2>2. pc'[t] \in {"run", "flush"} /\ OthersStay(t)
    BY <2>1, Zenon DEF Moves
  <2> QED BY <2>1, <2>2, <1>w, LockKept, Zenon
<1>5. ASSUME NEW t \in Threads, NEW c \in Conds, NEW m \in Mutexes, NEW b \in Deadlines,
             WaitBegin(t, c, m, b)
      PROVE  LockMatches'
  <2>1. /\ sq_lock[c] = NoThread /\ sq_lock' = [sq_lock EXCEPT ![c] = t]
        /\ pc[t] = "run" /\ pc' = [pc EXCEPT ![t] = "add"] /\ cv' = [cv EXCEPT ![t] = c]
    BY <1>5, Zenon DEF WaitBegin
  <2>2. pc'[t] = "add" /\ cv'[t] = c /\ OthersStay(t)
    BY <2>1, Zenon
  <2> QED BY <2>1, <2>2, <1>w, LockTaken, Zenon
<1>6. ASSUME NEW t \in Threads, NEW c \in Conds, NEW td \in Threads, Taken(t, c, td)
      PROVE  LockMatches'
  <2>1. pc[t] = "run" /\ UNCHANGED <<sq_lock, cv>> /\ Moves(t, {"run", "release"})
    BY <1>0, <1>6, TakenFacts, Zenon
  <2>2. pc'[t] \in {"run", "release"} /\ OthersStay(t)
    BY <2>1, Zenon DEF Moves
  <2> QED BY <2>1, <2>2, <1>w, LockKept, Zenon
<1>7. ASSUME NEW t \in Threads, NEW c \in Conds, BroadcastBegin(t, c) PROVE LockMatches'
  <2>1. /\ sq_lock[c] = NoThread /\ sq_lock' = [sq_lock EXCEPT ![c] = t]
        /\ pc[t] = "run" /\ pc' = [pc EXCEPT ![t] = "drop"] /\ cv' = [cv EXCEPT ![t] = c]
    BY <1>7, Zenon DEF BroadcastBegin
  <2>2. pc'[t] = "drop" /\ cv'[t] = c /\ OthersStay(t)
    BY <2>1, Zenon
  <2> QED BY <2>1, <2>2, <1>w, LockTaken, Zenon
<1>8. ASSUME NEW t \in Threads, NEW u \in Threads, CancelBegin(t, u) PROVE LockMatches'
  <2>1. UNCHANGED <<sq_lock, cv>> /\ pc[t] = "run" /\ pc' = [pc EXCEPT ![t] = "cancel"]
    BY <1>8, Zenon DEF CancelBegin
  <2>2. pc'[t] = "cancel" /\ OthersStay(t)
    BY <2>1, Zenon
  <2> QED BY <2>1, <2>2, <1>w, LockKept, Zenon
<1>9. CASE UNCHANGED vars
  BY <1>9, Zenon DEF vars, LockMatches
<1> QED BY <1>1, <1>2, <1>3, <1>4, <1>5, <1>6, <1>7, <1>8, <1>9, NextCases, Zenon

===============================================================================
