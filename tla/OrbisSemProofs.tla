--------------------------- MODULE OrbisSemProofs ---------------------------
(***************************************************************************)
(* Proofs about the kernel semaphore, for any set of threads and any counts.*)
(***************************************************************************)
EXTENDS OrbisSem, FiniteSetTheorems, TLAPS

\* The mutex is held exactly by the thread that is scanning, the iterator of
\* the scan is in the list or at its end, a thread that does not wait has no
\* WaitingThread, and nothing waits on a semaphore that was never created.
Bookkeeping ==
    /\ \A t \in Threads : pc[t] = "signal" <=> mutex = t
    /\ mutex # NoThread => cursor \in 1 .. Len(wait_list) + 1
    /\ \A t \in Threads : ~Waiting(t) => was[t] = "none" /\ sem[t] = 0
    /\ \A t \in Threads : was[t] = "none" => sem[t] = 0
    /\ state = "absent" => wait_list = <<>>

IInv ==
    /\ TypeOK
    /\ ListMatchesWaiters
    /\ ReleasedOnce
    /\ NoServableWaiter
    /\ UrgencyOrder
    /\ Bookkeeping

-------------------------------------------------------------------------------
(* Inserting into and removing from a list *)

\* Two sequences end to end.
LEMMA Concat ==
    ASSUME NEW S, NEW s \in Seq(S), NEW t \in Seq(S)
    PROVE  /\ s \o t \in Seq(S)
           /\ Len(s \o t) = Len(s) + Len(t)
           /\ \A j \in 1 .. Len(s) + Len(t) :
                (s \o t)[j] = IF j <= Len(s) THEN s[j] ELSE t[j - Len(s)]
  <1>1. s \o t \in Seq(S) /\ Len(s \o t) = Len(s) + Len(t)
    OBVIOUS
  <1>2. ASSUME NEW j \in 1 .. Len(s) + Len(t)
        PROVE  (s \o t)[j] = IF j <= Len(s) THEN s[j] ELSE t[j - Len(s)]
    OBVIOUS
  <1> QED BY <1>1, <1>2

\* The element goes to position i and what was there or later moves up by one:
\* std::list::insert and push_back; and what that means for the elements.
LEMMA InsertAtCases ==
    ASSUME NEW S, NEW s \in Seq(S), NEW i \in 1 .. Len(s) + 1, NEW e \in S
    PROVE  LET r == ListInsert(s, i, e) IN
           /\ r \in Seq(S) /\ Len(r) = Len(s) + 1 /\ Len(s) \in Nat
           /\ r[i] = e
           /\ \A j \in 1 .. Len(r) : j < i => j \in 1 .. Len(s) /\ r[j] = s[j]
           /\ \A j \in 1 .. Len(r) : j > i => j - 1 \in 1 .. Len(s) /\ r[j] = s[j - 1]
           /\ Range(r) = Range(s) \cup {e}
           /\ IsInjective(s) /\ e \notin Range(s) => IsInjective(r)
  <1> DEFINE r == ListInsert(s, i, e)
  <1>1. /\ r \in Seq(S) /\ Len(r) = Len(s) + 1 /\ Len(s) \in Nat
        /\ r[i] = e
        /\ \A j \in 1 .. i - 1 : r[j] = s[j]
        /\ \A j \in i + 1 .. Len(s) + 1 : r[j] = s[j - 1]
    <2>1. Len(s) \in Nat
      OBVIOUS
    <2>2. /\ r \in Seq(S)
          /\ Len(r) = Len(s) + 1
          /\ r[i] = e
          /\ \A j \in 1 .. i - 1 : r[j] = s[j]
          /\ \A j \in i + 1 .. Len(s) + 1 : r[j] = s[j - 1]
      <3> DEFINE l == SubSeq(s, 1, i - 1)
                 q == SubSeq(s, i, Len(s))
      <3>1. /\ l \in Seq(S) /\ Len(l) = i - 1
            /\ \A j \in 1 .. i - 1 : l[j] = s[j]
        OBVIOUS
      <3>2. /\ q \in Seq(S) /\ Len(q) = Len(s) - i + 1
            /\ \A j \in 1 .. Len(s) - i + 1 : q[j] = s[i + j - 1]
        OBVIOUS
      <3> HIDE DEF l, q
      <3> DEFINE m == l \o <<e>>
      <3>3. /\ m \in Seq(S) /\ Len(m) = i
            /\ \A j \in 1 .. i : m[j] = IF j < i THEN s[j] ELSE e
        <4>1. <<e>> \in Seq(S) /\ Len(<<e>>) = 1 /\ <<e>>[1] = e
          OBVIOUS
        <4>2. /\ m \in Seq(S) /\ Len(m) = Len(l) + 1
              /\ \A j \in 1 .. Len(l) + 1 : m[j] = IF j <= Len(l) THEN l[j] ELSE <<e>>[j - Len(l)]
          BY <3>1, <4>1
        <4> HIDE DEF m
        <4> QED BY <3>1, <4>1, <4>2
      <3> HIDE DEF m
      <3> DEFINE c == m \o q
      <3>4. /\ c \in Seq(S) /\ Len(c) = Len(m) + Len(q)
            /\ \A j \in 1 .. Len(m) + Len(q) : c[j] = IF j <= Len(m) THEN m[j] ELSE q[j - Len(m)]
        BY <3>2, <3>3, Concat, Zenon
      <3> HIDE DEF c
      <3>5. Len(s) \in Nat /\ Len(c) = Len(s) + 1 /\ Len(m) = i /\ Len(q) = Len(s) - i + 1
        BY <3>2, <3>3, <3>4
      <3>6. c[i] = e /\ \A j \in 1 .. i - 1 : c[j] = s[j]
        BY <3>3, <3>4, <3>5
      <3>7. ASSUME NEW j \in i + 1 .. Len(s) + 1
            PROVE  c[j] = s[j - 1]
        <4>1. j - i \in 1 .. Len(s) - i + 1 /\ c[j] = q[j - i]
          BY <3>4, <3>5, SMTT(20)
        <4>2. q[j - i] = s[i + (j - i) - 1]
          BY <3>2, <4>1, ZenonT(30)
        <4>3. i + (j - i) - 1 = j - 1
          BY <3>5
        <4> QED BY <4>1, <4>2, <4>3
      <3> QED BY <3>4, <3>5, <3>6, <3>7, Zenon DEF ListInsert, l, q, m, c, r
    <2> HIDE DEF r
    <2> QED BY <2>1, <2>2
  <1> HIDE DEF r
  <1>2. r[i] = e
    BY <1>1
  <1>3. ASSUME NEW j \in 1 .. Len(r), j < i PROVE j \in 1 .. Len(s) /\ r[j] = s[j]
    BY <1>1, <1>3
  <1>4. ASSUME NEW j \in 1 .. Len(r), j > i PROVE j - 1 \in 1 .. Len(s) /\ r[j] = s[j - 1]
    BY <1>1, <1>4
  <1>5. ASSUME NEW j \in 1 .. Len(s)
        PROVE  \E k \in 1 .. Len(r) : k # i /\ r[k] = s[j]
    <2>1. CASE j < i
      BY <1>1, <2>1
    <2>2. CASE j >= i
      <3>1. j + 1 \in 1 .. Len(r) /\ j + 1 > i /\ (j + 1) - 1 = j
        BY <1>1, <2>2
      <3>2. r[j + 1] = s[j]
        BY <1>4, <3>1
      <3> QED BY <3>1, <3>2
    <2> QED BY <2>1, <2>2, SMTT(20)
  <1>6. \A x : (\E j \in 1 .. Len(r) : r[j] = x)
                  <=> (x = e \/ \E j \in 1 .. Len(s) : s[j] = x)
    <2> TAKE x
    <2>1. ASSUME NEW j \in 1 .. Len(r), r[j] = x
          PROVE  x = e \/ \E k \in 1 .. Len(s) : s[k] = x
      <3>1. CASE j < i
        BY <1>3, <2>1, <3>1
      <3>2. CASE j = i
        BY <1>2, <2>1, <3>2
      <3>3. CASE j > i
        BY <1>4, <2>1, <3>3, SMTT(20)
      <3> QED BY <3>1, <3>2, <3>3
    <2>2. i \in 1 .. Len(r)
      BY <1>1
    <2> QED BY <1>2, <1>5, <2>1, <2>2, ZenonT(30)
  <1>7. ASSUME \A j, k \in 1 .. Len(s) : s[j] = s[k] => j = k,
               \A j \in 1 .. Len(s) : s[j] # e,
               NEW j \in 1 .. Len(r), NEW k \in 1 .. Len(r), r[j] = r[k]
        PROVE  j = k
    <2>1. CASE j = i /\ k = i
      BY <2>1
    <2>2. CASE j = i /\ k # i
      <3>1. r[k] = e /\ (k < i \/ k > i)
        BY <1>2, <1>7, <2>2
      <3> QED BY <1>3, <1>4, <1>7, <3>1, ZenonT(30)
    <2>3. CASE j # i /\ k = i
      <3>1. r[j] = e /\ (j < i \/ j > i)
        BY <1>2, <1>7, <2>3
      <3> QED BY <1>3, <1>4, <1>7, <3>1, Zenon
    <2>4. CASE j < i /\ k < i
      BY <1>3, <1>7, <2>4
    <2>5. CASE j < i /\ k > i
      <3>1. s[j] = s[k - 1] /\ j \in 1 .. Len(s) /\ k - 1 \in 1 .. Len(s)
        BY <1>3, <1>4, <1>7, <2>5
      <3> QED BY <1>7, <2>5, <3>1
    <2>6. CASE j > i /\ k < i
      <3>1. s[k] = s[j - 1] /\ k \in 1 .. Len(s) /\ j - 1 \in 1 .. Len(s)
        BY <1>3, <1>4, <1>7, <2>6
      <3> QED BY <1>7, <2>6, <3>1
    <2>7. CASE j > i /\ k > i
      <3>1. s[j - 1] = s[k - 1] /\ j - 1 \in 1 .. Len(s) /\ k - 1 \in 1 .. Len(s)
        BY <1>4, <1>7, <2>7
      <3> QED BY <1>7, <3>1
    <2> QED BY <1>1, <2>1, <2>2, <2>3, <2>4, <2>5, <2>6, <2>7
  <1>8. DOMAIN s = 1 .. Len(s) /\ DOMAIN r = 1 .. Len(r)
    BY <1>1
  <1>9. Range(r) = Range(s) \cup {e}
    BY <1>6, <1>8, Zenon DEF Range
  <1>10. IsInjective(s) /\ e \notin Range(s) => IsInjective(r)
    BY <1>7, <1>8 DEF Range, IsInjective
  <1> QED BY <1>1, <1>2, <1>3, <1>4, <1>9, <1>10 DEF r

\* The element at position i goes and the later ones move down by one:
\* std::list::erase.
LEMMA RemoveAtFacts ==
    ASSUME NEW S, NEW s \in Seq(S), NEW i \in 1 .. Len(s)
    PROVE  /\ ListErase(s, i) \in Seq(S)
           /\ Len(ListErase(s, i)) = Len(s) - 1
           /\ \A j \in 1 .. Len(s) - 1 :
                ListErase(s, i)[j] = IF j < i THEN s[j] ELSE s[j + 1]
  <1> DEFINE l == SubSeq(s, 1, i - 1)
             r == SubSeq(s, i + 1, Len(s))
  <1>1. /\ l \in Seq(S) /\ Len(l) = i - 1
        /\ \A j \in 1 .. i - 1 : l[j] = s[j]
    OBVIOUS
  <1>2. /\ r \in Seq(S) /\ Len(r) = Len(s) - i
        /\ \A j \in 1 .. Len(s) - i : r[j] = s[i + j]
    OBVIOUS
  <1> HIDE DEF l, r
  <1>3. /\ l \o r \in Seq(S) /\ Len(l \o r) = Len(s) - 1
        /\ \A j \in 1 .. Len(s) - 1 : (l \o r)[j] = IF j < i THEN s[j] ELSE s[j + 1]
    <2> DEFINE c == l \o r
    <2>1. /\ c \in Seq(S) /\ Len(c) = Len(l) + Len(r)
          /\ \A j \in 1 .. Len(l) + Len(r) : c[j] = IF j <= Len(l) THEN l[j] ELSE r[j - Len(l)]
      BY <1>1, <1>2, Concat, Zenon
    <2> HIDE DEF c
    <2>2. c \in Seq(S) /\ Len(c) = Len(s) - 1
      BY <1>1, <1>2, <2>1
    <2>3. ASSUME NEW j \in 1 .. Len(s) - 1
          PROVE  c[j] = IF j < i THEN s[j] ELSE s[j + 1]
      <3>0. Len(l) = i - 1 /\ Len(r) = Len(s) - i /\ Len(s) \in Nat
        BY <1>1, <1>2
      <3>3. c[j] = IF j <= i - 1 THEN l[j] ELSE r[j - (i - 1)]
        BY <2>1, <3>0
      <3>1. CASE j < i
        BY <1>1, <3>3, <3>1
      <3>2. CASE j >= i
        <4>1. j - (i - 1) \in 1 .. Len(s) - i /\ c[j] = r[j - (i - 1)]
          BY <3>0, <3>2, <3>3
        <4> QED BY <1>2, <4>1, <3>2
      <3> QED BY <3>1, <3>2
    <2> QED BY <2>2, <2>3 DEF c
  <1> QED BY <1>3, Zenon DEF ListErase, l, r

\* The same, by cases, with what it means for the elements of the sequence.
LEMMA RemoveAtCases ==
    ASSUME NEW S, NEW s \in Seq(S), NEW i \in 1 .. Len(s)
    PROVE  LET r == ListErase(s, i) IN
           /\ r \in Seq(S) /\ Len(r) = Len(s) - 1 /\ Len(s) \in Nat /\ Len(r) \in Nat
           /\ \A j \in 1 .. Len(r) : j < i => j \in 1 .. Len(s) /\ r[j] = s[j]
           /\ \A j \in 1 .. Len(r) : j >= i => j + 1 \in 1 .. Len(s) /\ r[j] = s[j + 1]
           /\ IsInjective(s) => Range(r) = Range(s) \ {s[i]} /\ IsInjective(r)
  <1> DEFINE r == ListErase(s, i)
  <1>1. /\ r \in Seq(S) /\ Len(r) = Len(s) - 1 /\ Len(s) \in Nat /\ Len(r) \in Nat
        /\ \A j \in 1 .. Len(s) - 1 : r[j] = IF j < i THEN s[j] ELSE s[j + 1]
    <2>1. Len(s) \in Nat /\ Len(s) - 1 \in Nat
      OBVIOUS
    <2>2. /\ r \in Seq(S)
          /\ Len(r) = Len(s) - 1
          /\ \A j \in 1 .. Len(s) - 1 : r[j] = IF j < i THEN s[j] ELSE s[j + 1]
      BY RemoveAtFacts, Zenon
    <2> HIDE DEF r
    <2> QED BY <2>1, <2>2
  <1> HIDE DEF r
  <1>2. ASSUME NEW j \in 1 .. Len(r), j < i PROVE j \in 1 .. Len(s) /\ r[j] = s[j]
    BY <1>1, <1>2
  <1>3. ASSUME NEW j \in 1 .. Len(r), j >= i PROVE j + 1 \in 1 .. Len(s) /\ r[j] = s[j + 1]
    BY <1>1, <1>3
  <1>4. ASSUME NEW j \in 1 .. Len(s), j # i
        PROVE  \E k \in 1 .. Len(r) : r[k] = s[j]
    <2>1. CASE j < i
      BY <1>1, <2>1
    <2>2. CASE j > i
      <3>1. j - 1 \in 1 .. Len(r) /\ j - 1 >= i /\ (j - 1) + 1 = j
        BY <1>1, <2>2
      <3>2. r[j - 1] = s[j]
        BY <1>3, <3>1
      <3> QED BY <3>1, <3>2
    <2> QED BY <1>4, <2>1, <2>2
  <1>5. ASSUME \A j, k \in 1 .. Len(s) : s[j] = s[k] => j = k, NEW x
        PROVE  (\E j \in 1 .. Len(r) : r[j] = x)
                  <=> (x # s[i] /\ \E j \in 1 .. Len(s) : s[j] = x)
    <2>1. ASSUME NEW j \in 1 .. Len(r), r[j] = x
          PROVE  x # s[i] /\ \E k \in 1 .. Len(s) : s[k] = x
      <3>1. CASE j < i
        BY <1>2, <1>5, <2>1, <3>1
      <3>2. CASE j >= i
        <4>1. j + 1 \in 1 .. Len(s) /\ s[j + 1] = x /\ j + 1 # i
          BY <1>3, <2>1, <3>2
        <4> QED BY <1>5, <4>1
      <3> QED BY <1>1, <3>1, <3>2
    <2> QED BY <1>4, <2>1
  <1>6. ASSUME \A j, k \in 1 .. Len(s) : s[j] = s[k] => j = k,
               NEW j \in 1 .. Len(r), NEW k \in 1 .. Len(r), r[j] = r[k]
        PROVE  j = k
    <2>1. CASE j < i /\ k < i
      BY <1>2, <1>6, <2>1
    <2>2. CASE j < i /\ k >= i
      <3>1. s[j] = s[k + 1] /\ j \in 1 .. Len(s) /\ k + 1 \in 1 .. Len(s)
        BY <1>2, <1>3, <1>6, <2>2
      <3> QED BY <1>6, <2>2, <3>1
    <2>3. CASE j >= i /\ k < i
      <3>1. s[k] = s[j + 1] /\ k \in 1 .. Len(s) /\ j + 1 \in 1 .. Len(s)
        BY <1>2, <1>3, <1>6, <2>3
      <3> QED BY <1>6, <2>3, <3>1
    <2>4. CASE j >= i /\ k >= i
      <3>1. s[j + 1] = s[k + 1] /\ j + 1 \in 1 .. Len(s) /\ k + 1 \in 1 .. Len(s)
        BY <1>3, <1>6, <2>4
      <3> QED BY <1>6, <3>1
    <2> QED BY <1>1, <2>1, <2>2, <2>3, <2>4
  <1>8. DOMAIN s = 1 .. Len(s) /\ DOMAIN r = 1 .. Len(r)
    BY <1>1
  <1>9. IsInjective(s) => Range(r) = Range(s) \ {s[i]}
    <2>1. ASSUME IsInjective(s), NEW x
          PROVE  x \in Range(r) <=> x \in Range(s) \ {s[i]}
      <3>1. \A j, k \in 1 .. Len(s) : s[j] = s[k] => j = k
        BY <1>8, <2>1 DEF IsInjective
      <3>2. (\E j \in 1 .. Len(r) : r[j] = x)
               <=> (x # s[i] /\ \E j \in 1 .. Len(s) : s[j] = x)
        BY <1>5, <3>1, Zenon
      <3> QED BY <1>8, <3>2 DEF Range
    <2> QED BY <2>1
  <1>10. IsInjective(s) => IsInjective(r)
    BY <1>6, <1>8 DEF IsInjective
  <1> QED BY <1>1, <1>2, <1>3, <1>9, <1>10 DEF r

\* A member of a sequence has a position.
LEMMA PositionOf ==
    ASSUME NEW S, NEW s \in Seq(S), NEW x \in Range(s)
    PROVE  \E j \in 1 .. Len(s) : s[j] = x
  BY DEF Range

\* What is at a position is a member.
LEMMA AtPosition ==
    ASSUME NEW S, NEW s \in Seq(S), NEW j \in 1 .. Len(s)
    PROVE  s[j] \in Range(s) /\ s[j] \in S
  BY DEF Range

-------------------------------------------------------------------------------
(* The semaphore *)

\* A nonempty set of natural numbers has a least element: the loops that stop
\* at the first match of a list.
LEMMA LeastNatural ==
    ASSUME NEW T \in SUBSET Nat, T # {}
    PROVE  \E x \in T : \A y \in T : x <= y
  <1> DEFINE Below(x) == 0 .. x
             Segments == {Below(x) : x \in T}
  <1>1. Segments \subseteq FiniteSubsetsOf(Nat)
    <2>1. \A x \in Nat : IsFiniteSet(Below(x))
      BY FS_Interval
    <2> QED BY <2>1 DEF FiniteSubsetsOf
  <1>2. Segments # {}
    BY Zenon
  <1>3. IsWellFoundedOn(StrictSubsetOrdering(Nat), FiniteSubsetsOf(Nat))
    BY FS_StrictSubsetOrderingWellFounded
  <1>4. PICK m \in Segments : \A n \in Segments : <<n, m>> \notin StrictSubsetOrdering(Nat)
    <2> HIDE DEF Segments
    <2> QED BY <1>1, <1>2, <1>3, WFMin, Zenon
  <1>5. PICK x \in T : m = Below(x)
    OBVIOUS
  <1>6. ASSUME NEW y \in T, y < x
        PROVE  FALSE
    <2>1. Below(y) \in SUBSET Nat /\ Below(x) \in SUBSET Nat
      OBVIOUS
    <2>2. Below(y) \subseteq Below(x) /\ Below(y) # Below(x)
      <3>1. x \in Below(x) /\ x \notin Below(y)
        BY <1>6
      <3> QED BY <1>6, <3>1
    <2>3. <<Below(y), Below(x)>> \in StrictSubsetOrdering(Nat)
      BY <2>1, <2>2 DEF StrictSubsetOrdering
    <2> QED BY <1>4, <1>5, <2>3, Zenon
  <1> QED BY <1>6
\* AddWaiter finds a place: every waiter before it is at least as urgent as the
\* new one, the waiter at it, if any, is less urgent.
LEMMA InsertPositionFacts ==
    ASSUME TypeOK, NEW t \in Threads
    PROVE  /\ InsertPosition(t) \in 1 .. Len(wait_list) + 1
           /\ \A j \in 1 .. InsertPosition(t) - 1 : Priority(wait_list[j]) <= Priority(t)
           /\ InsertPosition(t) <= Len(wait_list)
                => Priority(wait_list[InsertPosition(t)]) > Priority(t)
  <1> DEFINE n == Len(wait_list)
             stop == {k \in 1 .. n + 1 : k <= n => Priority(wait_list[k]) > Priority(t)}
  <1>1. n \in Nat /\ \A k \in 1 .. n : wait_list[k] \in Threads
    BY DEF TypeOK
  <1>2. Priority(t) \in Nat /\ \A k \in 1 .. n : Priority(wait_list[k]) \in Nat
    BY <1>1, PrioAssumption DEF Priority
  <1>3. stop \in SUBSET Nat /\ n + 1 \in stop
    BY <1>1
  <1>4. PICK k \in stop : \A y \in stop : k <= y
    BY <1>3, LeastNatural, Zenon
  <1>5. k \in 1 .. n + 1 /\ (k <= n => Priority(wait_list[k]) > Priority(t))
    BY <1>4
  <1>6. \A j \in 1 .. k - 1 : Priority(wait_list[j]) <= Priority(t)
    <2> SUFFICES ASSUME NEW j \in 1 .. k - 1
                 PROVE  Priority(wait_list[j]) <= Priority(t)
      OBVIOUS
    <2>1. j \in 1 .. n /\ j < k
      BY <1>1, <1>5
    <2>2. j \notin stop
      BY <1>3, <1>4, <2>1
    <2> QED BY <1>2, <2>1, <2>2
  <1>7. \E p \in 1 .. n + 1 :
            /\ \A j \in 1 .. p - 1 : Priority(wait_list[j]) <= Priority(t)
            /\ p <= n => Priority(wait_list[p]) > Priority(t)
    BY <1>5, <1>6
  <1> QED BY <1>7, ZenonT(30) DEF InsertPosition

\* Before Create there is nothing to wait for.
LEMMA InitIInv == Init => IInv
  BY ThreadsAssumption DEF Init, IInv, TypeOK, ListMatchesWaiters, ReleasedOnce, NoServableWaiter,
         UrgencyOrder, Bookkeeping, Queued, Positions, Waiting, Results, Range, IsInjective

\* Steps that leave the list and the marks of the waiters alone.
LEMMA QuietStep ==
    ASSUME IInv, NEW t \in Threads,
           sceKernelCreateSema(t) \/ BadHandle(t) \/ Take(t) \/ Refuse(t)
    PROVE  IInv'
  <1>1. TypeOK'
    <2> USE DEF IInv, TypeOK, Enter, Idle, Return, object, scan, waiter, Results
    <2>1. CASE sceKernelCreateSema(t)
      <3>1. PICK initCount \in InitCounts, maxCount \in MaxCounts, fifo \in BOOLEAN :
                IF initCount < 0 \/ maxCount <= 0 \/ initCount > maxCount
                THEN /\ Return(t, "EINVAL")
                     /\ UNCHANGED <<object, token_count>>
                ELSE /\ state' = "live"
                     /\ init_count' = initCount
                     /\ max_count' = maxCount
                     /\ is_fifo' = fifo
                     /\ token_count' = initCount
                     /\ Return(t, "OK")
        BY <2>1 DEF sceKernelCreateSema
      <3>2. initCount \in Int /\ maxCount \in Int
        BY CountAssumption
      <3>3. UNCHANGED <<wait_list, scan, pc, waiter>>
        BY <2>1 DEF sceKernelCreateSema
      <3>4. CASE initCount < 0 \/ maxCount <= 0 \/ initCount > maxCount
        BY <3>1, <3>3, <3>4, Zenon
      <3>5. CASE ~(initCount < 0 \/ maxCount <= 0 \/ initCount > maxCount)
        <4>1. /\ init_count' \in Nat /\ max_count' \in Nat /\ is_fifo' \in BOOLEAN
              /\ token_count' \in Nat /\ state' = "live" /\ Return(t, "OK")
          BY <3>1, <3>2, <3>5
        <4> QED BY <3>3, <4>1, ZenonT(30)
      <3> QED BY <3>4, <3>5, Zenon
    <2>2. CASE BadHandle(t)
      BY <2>2 DEF BadHandle
    <2>3. CASE Take(t)
      BY <2>3, CountAssumption DEF Take
    <2>4. CASE Refuse(t)
      BY <2>4 DEF Refuse
    <2> QED BY <2>1, <2>2, <2>3, <2>4, Zenon
  <1>2. UNCHANGED <<wait_list, mutex, cursor, pc, need_count, was, sem>>
    BY DEF sceKernelCreateSema, BadHandle, Take, Refuse, scan, waiter
  <1>3. ListMatchesWaiters' /\ ReleasedOnce'
    BY <1>2 DEF IInv, ListMatchesWaiters, ReleasedOnce, Queued, Positions, Waiting
  <1>4. Bookkeeping'
    BY <1>2 DEF IInv, Bookkeeping, Waiting, sceKernelCreateSema, BadHandle, Take, Refuse,
                Enter, object
  <1>5. \/ wait_list = <<>>
        \/ is_fifo' = is_fifo /\ token_count' \in Nat /\ token_count' <= token_count
    BY CountAssumption, SMTT(20)
       DEF IInv, TypeOK, Bookkeeping, sceKernelCreateSema, BadHandle, Take, Refuse,
           Enter, object
  <1>6. \A i \in Positions : need_count[wait_list[i]] \in Nat
    BY DEF IInv, TypeOK, Positions
  <1>7. NoServableWaiter'
    BY <1>2, <1>5, <1>6, SMTT(20) DEF IInv, TypeOK, NoServableWaiter, Positions
  <1>8. UrgencyOrder'
    BY <1>2, <1>5 DEF IInv, UrgencyOrder, Positions, Priority
  <1> QED BY <1>1, <1>3, <1>4, <1>7, <1>8 DEF IInv

\* Wait without enough tokens: the caller enters the list where its priority puts it.
LEMMA BlockStep ==
    ASSUME IInv, NEW t \in Threads, Block(t)
    PROVE  IInv'
  <1> DEFINE p == InsertPosition(t)
  <1>0. TypeOK /\ mutex = NoThread /\ pc[t] = "idle" /\ state = "live"
    BY DEF IInv, Block, Enter, Idle
  <1>1. /\ p \in 1 .. Len(wait_list) + 1
        /\ \A j \in 1 .. p - 1 : Priority(wait_list[j]) <= Priority(t)
        /\ p <= Len(wait_list) => Priority(wait_list[p]) > Priority(t)
    BY <1>0, InsertPositionFacts
  <1> HIDE DEF p
  <1> DEFINE q == ListInsert(wait_list, p, t)
             n == Len(wait_list)
  <1>2. /\ q \in Seq(Threads) /\ Len(q) = n + 1 /\ n \in Nat
        /\ q[p] = t
        /\ \A j \in 1 .. Len(q) : j < p => j \in 1 .. n /\ q[j] = wait_list[j]
        /\ \A j \in 1 .. Len(q) : j > p => j - 1 \in 1 .. n /\ q[j] = wait_list[j - 1]
        /\ Range(q) = Range(wait_list) \cup {t}
        /\ IsInjective(wait_list) /\ t \notin Range(wait_list) => IsInjective(q)
    <2>1. wait_list \in Seq(Threads)
      BY <1>0 DEF TypeOK
    <2>2. p \in 1 .. Len(wait_list) + 1
      BY <1>1
    <2> QED BY <2>1, <2>2, InsertAtCases
  <1>q. wait_list' = q
    BY DEF Block, p
  <1> HIDE DEF q
  <1>n. \A i \in 1 .. n : wait_list[i] \in Threads
    BY <1>0 DEF TypeOK
  <1>3. TypeOK'
    <2>1. wait_list' \in Seq(Threads)
      BY <1>2, <1>q
    <2> QED BY <1>0, <2>1, CountAssumption DEF TypeOK, Block, Return, object, scan, Results
  <1>4. ~Queued(t)
    BY <1>0 DEF IInv, ListMatchesWaiters, Waiting
  <1>5. PICK need \in NeedCounts :
            /\ token_count < need
            /\ need_count' = [need_count EXCEPT ![t] = need]
    BY Zenon DEF Block
  <1>6. /\ UNCHANGED <<token_count, mutex, cursor, was, sem, is_fifo, state>>
        /\ pc' = [pc EXCEPT ![t] = "asleep"]
    BY DEF Block, object, scan
  <1>7. (\A u \in Threads : Queued(u)' <=> (Queued(u) \/ u = t)) /\ IsInjective(wait_list')
    BY <1>2, <1>q, <1>4 DEF IInv, ListMatchesWaiters, Queued
  <1>8. ListMatchesWaiters'
    BY <1>0, <1>6, <1>7 DEF IInv, TypeOK, ListMatchesWaiters, Waiting, Bookkeeping
  <1>9. ReleasedOnce' /\ Bookkeeping'
    BY <1>0, <1>6, ThreadsAssumption DEF IInv, TypeOK, ReleasedOnce, Bookkeeping, Waiting
  <1>10. NoServableWaiter'
    <2> SUFFICES ASSUME NEW i \in 1 .. Len(q)
                 PROVE  need_count'[q[i]] > token_count
      BY <1>q, <1>6 DEF NoServableWaiter, Positions
    <2>1. CASE q[i] = t
      BY <1>0, <1>5, <2>1 DEF TypeOK
    <2>2. CASE q[i] # t
      <3>1. PICK k \in 1 .. n : wait_list[k] = q[i]
        <4>1. q[i] \in Range(wait_list)
          BY <1>2, <2>2, AtPosition
        <4> QED BY <1>0, <4>1, PositionOf, ZenonT(30) DEF TypeOK
      <3>2. need_count[wait_list[k]] > token_count
        BY <1>0 DEF IInv, NoServableWaiter, Positions
      <3> QED BY <1>0, <1>5, <1>n, <2>2, <3>1, <3>2, SMTT(20) DEF TypeOK
    <2> QED BY <2>1, <2>2
  <1>11. UrgencyOrder'
    <2> SUFFICES ASSUME NEW i \in 1 .. Len(q), NEW j \in 1 .. Len(q), i < j
                 PROVE  Priority(q[i]) <= Priority(q[j])
      BY <1>q, <1>6 DEF UrgencyOrder, Positions, Priority
    <2>1. Priority(t) \in Nat /\ \A k \in 1 .. n : Priority(wait_list[k]) \in Nat
      BY <1>n, PrioAssumption DEF Priority
    <2>2. \A k, l \in 1 .. n : k < l => Priority(wait_list[k]) <= Priority(wait_list[l])
      BY DEF IInv, UrgencyOrder, Positions
    <2>3. \A k \in 1 .. n : k >= p => Priority(wait_list[k]) > Priority(t)
      <3> SUFFICES ASSUME NEW k \in 1 .. n, k >= p
                   PROVE  Priority(wait_list[k]) > Priority(t)
        OBVIOUS
      <3>0. p \in 1 .. n
        BY <1>1, <1>2
      <3>1. p \in 1 .. n /\ Priority(wait_list[p]) > Priority(t)
        BY <1>1, <3>0
      <3>2. k = p \/ Priority(wait_list[p]) <= Priority(wait_list[k])
        BY <2>2, <3>1
      <3> QED BY <2>1, <3>1, <3>2
    <2>4. CASE j < p
      <3>1. i < p
        BY <1>1, <2>4
      <3> QED BY <1>2, <2>2, <2>4, <3>1
    <2>5. CASE j = p
      <3>1. q[j] = t /\ i \in 1 .. n /\ q[i] = wait_list[i] /\ i \in 1 .. p - 1
        BY <1>1, <1>2, <2>5
      <3> QED BY <1>1, <3>1
    <2>6. CASE j > p
      <3>1. j - 1 \in 1 .. n /\ q[j] = wait_list[j - 1] /\ j - 1 >= p
        BY <1>1, <1>2, <2>6
      <3>2. CASE i = p
        <4>1. q[i] = t /\ Priority(wait_list[j - 1]) > Priority(t)
          BY <1>2, <2>3, <3>1, <3>2, SMTT(20)
        <4> QED BY <2>1, <3>1, <4>1
      <3>3. CASE i < p
        <4>1. i \in 1 .. n /\ q[i] = wait_list[i] /\ i < j - 1
          BY <1>1, <1>2, <2>6, <3>3
        <4> QED BY <2>2, <3>1, <4>1
      <3>4. CASE i > p
        <4>1. i - 1 \in 1 .. n /\ q[i] = wait_list[i - 1] /\ i - 1 < j - 1
          BY <1>1, <1>2, <2>6, <3>4
        <4> QED BY <2>2, <3>1, <4>1, ZenonT(30)
      <3> QED BY <1>1, <3>2, <3>3, <3>4
    <2> QED BY <1>1, <2>4, <2>5, <2>6
  <1> QED BY <1>3, <1>8, <1>9, <1>10, <1>11 DEF IInv

\* A waiter that stops sleeping.
LEMMA WakeStep ==
    ASSUME IInv, NEW t \in Threads, Acquire(t) \/ Expire(t)
    PROVE  IInv'
  <1>1. TypeOK'
    <2>1. CASE Acquire(t)
      BY <2>1 DEF IInv, TypeOK, Acquire, object, scan
    <2>2. CASE Expire(t)
      BY <2>2, ZenonT(30) DEF IInv, TypeOK, Expire, object, scan, waiter
    <2> QED BY <2>1, <2>2
  <1>2. /\ UNCHANGED <<state, is_fifo, token_count, wait_list, mutex, cursor, need_count, was>>
        /\ pc[t] = "asleep" /\ pc' = [pc EXCEPT ![t] = "awake"]
    BY DEF Acquire, Expire, object, scan, waiter
  <1>3. \A u \in Threads : (Waiting(u)' <=> Waiting(u)) /\ (pc'[u] = "signal" <=> pc[u] = "signal")
    BY <1>2 DEF IInv, TypeOK, Waiting
  <1>4. \A u \in Threads : sem'[u] \in Nat /\ sem'[u] <= sem[u]
    <2>1. CASE Acquire(t)
      BY <2>1 DEF IInv, TypeOK, Acquire
    <2>2. CASE Expire(t)
      BY <2>2 DEF IInv, TypeOK, Expire, waiter
    <2> QED BY <2>1, <2>2
  <1>5. ListMatchesWaiters'
    BY <1>2, <1>3 DEF IInv, ListMatchesWaiters, Queued
  <1>6. ReleasedOnce' /\ Bookkeeping'
    BY <1>2, <1>3, <1>4, SMTT(20) DEF IInv, TypeOK, ReleasedOnce, Bookkeeping
  <1>7. NoServableWaiter' /\ UrgencyOrder'
    BY <1>2 DEF IInv, NoServableWaiter, UrgencyOrder, Positions, Priority
  <1> QED BY <1>1, <1>5, <1>6, <1>7 DEF IInv

\* Removing one position keeps the list ordered and free of servable waiters.
LEMMA RemovalKeepsOrder ==
    ASSUME IInv, NEW p \in 1 .. Len(wait_list), UNCHANGED is_fifo,
           wait_list' = ListErase(wait_list, p)
    PROVE  /\ wait_list' \in Seq(Threads) /\ Len(wait_list') = Len(wait_list) - 1
           /\ Len(wait_list') \in Nat
           /\ Range(wait_list') = Range(wait_list) \ {wait_list[p]}
           /\ IsInjective(wait_list')
           /\ UrgencyOrder'
           /\ \A i \in 1 .. Len(wait_list') : i < p => wait_list'[i] = wait_list[i]
  <1> DEFINE q == ListErase(wait_list, p)
             n == Len(wait_list)
  <1>1. wait_list \in Seq(Threads) /\ IsInjective(wait_list)
    BY DEF IInv, TypeOK, ListMatchesWaiters
  <1>2. /\ q \in Seq(Threads) /\ Len(q) = n - 1 /\ n \in Nat /\ Len(q) \in Nat
        /\ \A j \in 1 .. Len(q) : j < p => j \in 1 .. n /\ q[j] = wait_list[j]
        /\ \A j \in 1 .. Len(q) : j >= p => j + 1 \in 1 .. n /\ q[j] = wait_list[j + 1]
        /\ IsInjective(wait_list) => Range(q) = Range(wait_list) \ {wait_list[p]} /\ IsInjective(q)
    BY <1>1, RemoveAtCases, Zenon
  <1> HIDE DEF q
  <1>3. wait_list' = q
    BY DEF q
  <1>4. UrgencyOrder'
    <2> SUFFICES ASSUME NEW i \in 1 .. Len(q), NEW j \in 1 .. Len(q), i < j
                 PROVE  Priority(q[i]) <= Priority(q[j])
      BY <1>3 DEF UrgencyOrder, Positions, Priority
    <2>1. \A k, l \in 1 .. n : k < l => Priority(wait_list[k]) <= Priority(wait_list[l])
      BY DEF IInv, UrgencyOrder, Positions
    <2>2. CASE j < p
      <3>1. i < p
        BY <1>2, <2>2
      <3> QED BY <1>2, <2>1, <2>2, <3>1
    <2>3. CASE i < p /\ j >= p
      <3>1. j + 1 \in 1 .. n /\ q[j] = wait_list[j + 1] /\ i \in 1 .. n /\ q[i] = wait_list[i]
        BY <1>2, <2>3, ZenonT(30)
      <3> QED BY <2>1, <3>1
    <2>4. CASE i >= p
      <3>1. j >= p
        BY <1>2, <2>4
      <3>2. j + 1 \in 1 .. n /\ q[j] = wait_list[j + 1] /\ i + 1 \in 1 .. n /\ q[i] = wait_list[i + 1]
        BY <1>2, <2>4, <3>1
      <3> QED BY <2>1, <3>2
    <2>5. Len(q) \in Nat
      BY <1>2, Zenon
    <2>6. j < p \/ (i < p /\ j >= p) \/ i >= p
      BY <2>5
    <2> QED BY <2>2, <2>3, <2>4, <2>6, Zenon
  <1> QED BY <1>1, <1>2, <1>3, <1>4

\* A waiter returns, released or expired, and is no longer a waiter.
LEMMA ResumeStep ==
    ASSUME IInv, NEW t \in Threads, Resume(t)
    PROVE  IInv'
  <1>0. /\ pc[t] = "awake" /\ mutex = NoThread /\ was[t] \in {"none", "signaled", "canceled", "deleted"}
        /\ UNCHANGED <<state, init_count, max_count, is_fifo, token_count, mutex, cursor>>
        /\ pc' = [pc EXCEPT ![t] = "idle"]
        /\ need_count' = [need_count EXCEPT ![t] = 0]
        /\ timed' = [timed EXCEPT ![t] = FALSE]
        /\ was' = [was EXCEPT ![t] = "none"]
        /\ sem' = [sem EXCEPT ![t] = 0]
    BY DEF IInv, TypeOK, Resume, object, scan
  <1>1. GetResult(t) \in Results /\ (GetResult(t) = "ETIMEDOUT" <=> was[t] = "none")
    BY <1>0 DEF GetResult, Results
  <1>2. /\ wait_list' \in Seq(Threads) /\ Len(wait_list') \in Nat
        /\ Range(wait_list') = Range(wait_list) \ {t}
        /\ IsInjective(wait_list')
        /\ UrgencyOrder'
        /\ state = "absent" => wait_list' = <<>>
    <2>1. CASE was[t] = "none"
      <3>1. t \in Range(wait_list)
        BY <1>0, <2>1 DEF IInv, ListMatchesWaiters, Queued, Waiting
      <3> DEFINE p == CHOOSE i \in 1 .. Len(wait_list) : wait_list[i] = t
      <3>2. p \in 1 .. Len(wait_list) /\ wait_list[p] = t
        <4>1. \E i \in 1 .. Len(wait_list) : wait_list[i] = t
          BY <3>1, PositionOf DEF IInv, TypeOK
        <4> QED BY <4>1
      <3>3. wait_list' = ListErase(wait_list, p)
        BY <1>1, <2>1 DEF Resume
      <3> HIDE DEF p
      <3>4. state # "absent"
        BY <3>1 DEF IInv, Bookkeeping, Range
      <3> QED BY <1>0, <3>2, <3>3, <3>4, RemovalKeepsOrder, SMTT(20)
    <2>2. CASE was[t] # "none"
      <3>1. wait_list' = wait_list
        BY <1>1, <2>2 DEF Resume
      <3>2. t \notin Range(wait_list)
        BY <2>2, ZenonT(30) DEF IInv, ListMatchesWaiters, Queued
      <3>3. UrgencyOrder'
        BY <1>0, <3>1 DEF IInv, UrgencyOrder, Positions, Priority
      <3> QED BY <3>1, <3>2, <3>3 DEF IInv, TypeOK, ListMatchesWaiters, Bookkeeping
    <2> QED BY <2>1, <2>2
  <1>3. TypeOK'
    <2>1. ret' \in [Threads -> Results]
      BY <1>1 DEF IInv, TypeOK, Resume, Return
    <2> QED BY <1>0, <1>2, <2>1, ZenonT(30) DEF IInv, TypeOK
  <1>4. \A u \in Threads : Waiting(u)' <=> (Waiting(u) /\ u # t)
    BY <1>0 DEF IInv, TypeOK, Waiting
  <1>5. ListMatchesWaiters'
    BY <1>0, <1>2, <1>4 DEF IInv, TypeOK, ListMatchesWaiters, Queued
  <1>6. ReleasedOnce'
    BY <1>0, SMTT(20) DEF IInv, TypeOK, ReleasedOnce
  <1>7. Bookkeeping'
    BY <1>0, <1>2, <1>4, ThreadsAssumption, ZenonT(30) DEF IInv, TypeOK, Bookkeeping
  <1>8. NoServableWaiter'
    <2> SUFFICES ASSUME NEW i \in 1 .. Len(wait_list')
                 PROVE  need_count'[wait_list'[i]] > token_count
      BY <1>0 DEF NoServableWaiter, Positions
    <2>1. wait_list'[i] \in Range(wait_list) /\ wait_list'[i] # t /\ wait_list'[i] \in Threads
      BY <1>2, AtPosition, SMTT(20)
    <2>2. PICK k \in 1 .. Len(wait_list) : wait_list[k] = wait_list'[i]
      BY <2>1, PositionOf, ZenonT(30) DEF IInv, TypeOK
    <2>3. need_count[wait_list[k]] > token_count
      BY <1>0 DEF IInv, NoServableWaiter, Positions
    <2> QED BY <1>0, <2>1, <2>2, <2>3 DEF IInv, TypeOK
  <1> QED BY <1>2, <1>3, <1>5, <1>6, <1>7, <1>8, ZenonT(30) DEF IInv

\* Signal adds its tokens under the mutex, or fails and adds none.
LEMMA SignalStartStep ==
    ASSUME IInv, NEW t \in Threads, SignalStart(t)
    PROVE  IInv'
  <1>1. /\ mutex = NoThread /\ pc[t] = "idle" /\ state = "live"
        /\ UNCHANGED <<state, init_count, max_count, is_fifo, wait_list, need_count, timed, was, sem>>
    BY DEF SignalStart, Enter, Idle, object, waiter
  <1>2. PICK n \in SignalCounts :
            IF token_count + n > max_count
            THEN /\ Return(t, "EINVAL")
                 /\ UNCHANGED <<token_count, scan, pc>>
            ELSE /\ token_count' = token_count + n
                 /\ mutex' = t
                 /\ cursor' = 1
                 /\ pc' = [pc EXCEPT ![t] = "signal"]
                 /\ UNCHANGED ret
    BY DEF SignalStart
  <1>3. n \in Nat
    BY CountAssumption, ZenonT(30)
  <1>4. CASE token_count + n > max_count
    <2>1. UNCHANGED <<token_count, mutex, cursor, pc>> /\ ret' = [ret EXCEPT ![t] = "EINVAL"]
      BY <1>2, <1>4, SMTT(20) DEF scan, Return
    <2>2. TypeOK'
      BY <1>1, <2>1 DEF IInv, TypeOK, Results
    <2> QED BY <1>1, <2>1, <2>2 DEF IInv, ListMatchesWaiters, ReleasedOnce, NoServableWaiter,
                                    UrgencyOrder, Bookkeeping, Queued, Positions, Waiting, Priority
  <1>5. CASE ~(token_count + n > max_count)
    <2>1. /\ token_count' = token_count + n /\ mutex' = t /\ cursor' = 1
          /\ pc' = [pc EXCEPT ![t] = "signal"] /\ UNCHANGED ret
      BY <1>2, <1>5
    <2>2. TypeOK'
      BY <1>1, <1>3, <2>1, SMTT(20) DEF IInv, TypeOK
    <2>3. \A u \in Threads : Waiting(u)' <=> Waiting(u)
      BY <1>1, <2>1, ZenonT(30) DEF IInv, TypeOK, Waiting
    <2>4. ListMatchesWaiters' /\ ReleasedOnce' /\ UrgencyOrder'
      BY <1>1, <2>3, Zenon DEF IInv, ListMatchesWaiters, ReleasedOnce, UrgencyOrder, Queued, Positions, Priority
    <2>5. NoServableWaiter'
      BY <2>1, ThreadsAssumption, SMTT(20) DEF NoServableWaiter, Positions
    <2>6. Bookkeeping'
      <3>1. Len(wait_list) \in Nat
        BY DEF IInv, TypeOK
      <3> QED BY <1>1, <2>1, <2>3, <3>1, ThreadsAssumption, SMTT(20) DEF IInv, TypeOK, Bookkeeping
    <2> QED BY <2>2, <2>4, <2>5, <2>6 DEF IInv
  <1> QED BY <1>4, <1>5

\* Signal passes over a waiter that needs more tokens than there are.
LEMMA SignalSkipStep ==
    ASSUME IInv, NEW t \in Threads, SignalSkip(t)
    PROVE  IInv'
  <1>1. /\ pc[t] = "signal" /\ cursor <= Len(wait_list) /\ cursor' = cursor + 1
        /\ need_count[wait_list[cursor]] > token_count
        /\ UNCHANGED <<state, init_count, max_count, is_fifo, token_count, wait_list, mutex, pc,
                       need_count, timed, was, sem, ret>>
    BY Zenon DEF SignalSkip, object, waiter
  <1>2. mutex = t /\ mutex # NoThread /\ cursor \in 1 .. Len(wait_list) /\ Len(wait_list) \in Nat
    BY <1>1, ThreadsAssumption, SMTT(20) DEF IInv, TypeOK, Bookkeeping
  <1>0. cursor' = cursor + 1
    BY <1>1, Zenon
  <1>3. TypeOK'
    <2>1. cursor' \in Nat
      BY <1>0, <1>2
    <2> QED BY <1>1, <2>1, Zenon DEF IInv, TypeOK
  <1>4. ListMatchesWaiters' /\ ReleasedOnce' /\ UrgencyOrder'
    BY <1>1, Zenon DEF IInv, ListMatchesWaiters, ReleasedOnce, UrgencyOrder, Queued, Positions, Priority,
                Waiting
  <1>5. Bookkeeping'
    <2>1. cursor' \in 1 .. Len(wait_list) + 1
      BY <1>0, <1>2
    <2> QED BY <1>1, <2>1, Zenon DEF IInv, Bookkeeping, Waiting
  <1>6. NoServableWaiter'
    <2> SUFFICES ASSUME NEW i \in 1 .. Len(wait_list), i < cursor + 1
                 PROVE  need_count[wait_list[i]] > token_count
      BY <1>1, <1>2 DEF NoServableWaiter, Positions
    <2>1. CASE i = cursor
      BY <1>1, <2>1
    <2>2. CASE i < cursor
      BY <2>2 DEF IInv, NoServableWaiter, Positions
    <2> QED BY <1>2, <2>1, <2>2
  <1> QED BY <1>3, <1>4, <1>5, <1>6, SMTT(20) DEF IInv

\* Signal takes a waiter off the list and gives it the tokens it needs.
LEMMA SignalGrantStep ==
    ASSUME IInv, NEW t \in Threads, SignalGrant(t)
    PROVE  IInv'
  <1> DEFINE w == wait_list[cursor]
  <1>1. /\ pc[t] = "signal" /\ cursor <= Len(wait_list)
        /\ need_count[w] <= token_count
        /\ wait_list' = ListErase(wait_list, cursor)
        /\ token_count' = token_count - need_count[w]
        /\ was' = [was EXCEPT ![w] = "signaled"]
        /\ sem' = [sem EXCEPT ![w] = sem[w] + 1]
        /\ UNCHANGED <<state, init_count, max_count, is_fifo, mutex, cursor, pc, need_count, timed, ret>>
    BY DEF SignalGrant, object, scan
  <1>2. mutex = t /\ mutex # NoThread /\ cursor \in 1 .. Len(wait_list) /\ Len(wait_list) \in Nat
    BY <1>1, ThreadsAssumption DEF IInv, TypeOK, Bookkeeping
  <1>3. w \in Threads /\ w \in Range(wait_list)
    BY <1>2, AtPosition DEF IInv, TypeOK
  <1>4. Waiting(w) /\ was[w] = "none" /\ sem[w] = 0
    BY <1>3, ZenonT(30) DEF IInv, ListMatchesWaiters, Queued, Bookkeeping
  <1> HIDE DEF w
  <1>5. /\ wait_list' \in Seq(Threads) /\ Len(wait_list') = Len(wait_list) - 1
        /\ Len(wait_list') \in Nat
        /\ Range(wait_list') = Range(wait_list) \ {w}
        /\ IsInjective(wait_list')
        /\ UrgencyOrder'
        /\ \A i \in 1 .. Len(wait_list') : i < cursor => wait_list'[i] = wait_list[i]
    BY <1>1, <1>2, RemovalKeepsOrder, Zenon DEF w
  <1>6. token_count' \in Nat /\ token_count' <= token_count
    <2>1. /\ token_count \in Nat /\ need_count[w] \in Nat
          /\ need_count[w] <= token_count /\ token_count' = token_count - need_count[w]
      BY <1>1, <1>3, Zenon DEF IInv, TypeOK
    <2> QED BY <2>1
  <1>7. TypeOK'
    <2>1. /\ was' \in [Threads -> {"none", "signaled", "canceled", "deleted"}]
          /\ sem' \in [Threads -> Nat]
      <3>1. /\ was' = [was EXCEPT ![w] = "signaled"]
            /\ was \in [Threads -> {"none", "signaled", "canceled", "deleted"}]
            /\ sem' = [sem EXCEPT ![w] = sem[w] + 1]
            /\ sem \in [Threads -> Nat]
        BY <1>1, Zenon DEF IInv, TypeOK
      <3> QED BY <1>3, <3>1
    <2> QED BY <1>1, <1>5, <1>6, <2>1, Zenon DEF IInv, TypeOK
  <1>8. ListMatchesWaiters'
    BY <1>1, <1>3, <1>5, Zenon DEF IInv, TypeOK, ListMatchesWaiters, Queued, Waiting
  <1>9. ReleasedOnce'
    BY <1>1, <1>3, <1>4 DEF IInv, TypeOK, ReleasedOnce
  <1>10. Bookkeeping'
    <2>1. state # "absent"
      BY <1>3 DEF IInv, Bookkeeping, Range
    <2>2. cursor \in 1 .. Len(wait_list') + 1
      <3>1. Len(wait_list') = Len(wait_list) - 1
        BY <1>5, Zenon
      <3> QED BY <1>2, <3>1
    <2> QED BY <1>1, <1>3, <1>4, <2>1, <2>2, ZenonT(30) DEF IInv, TypeOK, Bookkeeping, Waiting
  <1>11. NoServableWaiter'
    <2> SUFFICES ASSUME NEW i \in 1 .. Len(wait_list'), i < cursor
                 PROVE  need_count[wait_list'[i]] > token_count'
      BY <1>1, <1>2 DEF NoServableWaiter, Positions
    <2>1. wait_list'[i] = wait_list[i] /\ i \in 1 .. Len(wait_list)
      BY <1>5
    <2>2. need_count[wait_list[i]] > token_count
      BY <2>1, SMTT(20) DEF IInv, NoServableWaiter, Positions
    <2>3. wait_list[i] \in Threads
      BY <2>1 DEF IInv, TypeOK
    <2>4. need_count[wait_list[i]] \in Nat /\ token_count \in Nat
      BY <2>3, SMTT(20) DEF IInv, TypeOK
    <2> QED BY <1>1, <1>6, <2>1, <2>2, <2>4, SMTT(20)
  <1> QED BY <1>5, <1>7, <1>8, <1>9, <1>10, <1>11, ZenonT(30) DEF IInv

\* Signal has looked at every waiter: none of them could be served.
LEMMA SignalEndStep ==
    ASSUME IInv, NEW t \in Threads, SignalEnd(t)
    PROVE  IInv'
  <1>1. /\ pc[t] = "signal" /\ cursor > Len(wait_list) /\ cursor' = 0 /\ mutex' = NoThread
        /\ pc' = [pc EXCEPT ![t] = "idle"] /\ ret' = [ret EXCEPT ![t] = "OK"]
        /\ UNCHANGED <<state, init_count, max_count, is_fifo, token_count, wait_list,
                       need_count, timed, was, sem>>
    BY DEF SignalEnd, Return, object, waiter
  <1>2. mutex = t /\ Len(wait_list) \in Nat /\ cursor \in Nat
    BY <1>1 DEF IInv, TypeOK, Bookkeeping
  <1>3. TypeOK'
    BY <1>1 DEF IInv, TypeOK, Results
  <1>4. \A u \in Threads : Waiting(u)' <=> Waiting(u)
    BY <1>1 DEF IInv, TypeOK, Waiting
  <1>5. ListMatchesWaiters' /\ ReleasedOnce' /\ UrgencyOrder'
    BY <1>1, <1>4, Zenon DEF IInv, ListMatchesWaiters, ReleasedOnce, UrgencyOrder, Queued, Positions,
                     Priority
  <1>6. Bookkeeping'
    BY <1>1, <1>2, <1>4, ThreadsAssumption, SMTT(20) DEF IInv, TypeOK, Bookkeeping
  <1>7. NoServableWaiter'
    <2> SUFFICES ASSUME NEW i \in 1 .. Len(wait_list)
                 PROVE  need_count[wait_list[i]] > token_count
      BY <1>1, Zenon DEF NoServableWaiter, Positions
    <2>1. i < cursor
      BY <1>1, <1>2
    <2> QED BY <2>1 DEF IInv, NoServableWaiter, Positions
  <1> QED BY <1>3, <1>5, <1>6, <1>7 DEF IInv

\* Cancel and Delete empty the list and release whoever was in it.
LEMMA WakeAllStep ==
    ASSUME IInv, NEW t \in Threads, Cancel(t) \/ sceKernelDeleteSema(t)
    PROVE  IInv'
  <1>1. PICK mark \in {"canceled", "deleted"} : WakeAll(mark)
    <2>1. WakeAll("canceled") \/ WakeAll("deleted")
      BY DEF Cancel, sceKernelDeleteSema
    <2> QED BY <2>1
  <1>2. /\ wait_list' = <<>>
        /\ was' = [u \in Threads |-> IF Queued(u) THEN mark ELSE was[u]]
        /\ sem' = [u \in Threads |-> IF Queued(u) THEN sem[u] + 1 ELSE sem[u]]
    BY <1>1 DEF WakeAll, Queued
  <1>3. /\ mutex = NoThread /\ pc[t] = "idle"
        /\ UNCHANGED <<init_count, max_count, is_fifo, mutex, cursor, pc, need_count, timed>>
        /\ ret' = [ret EXCEPT ![t] = "OK"] /\ state' \in {"live", "erased"}
    BY DEF Cancel, sceKernelDeleteSema, Enter, Idle, Return, object, scan
  <1>4. token_count' \in Nat
    <2>1. CASE Cancel(t)
      <3>1. PICK n \in SetCounts : token_count' = IF n < 0 THEN init_count ELSE n
        BY <2>1 DEF Cancel
      <3> QED BY <3>1, CountAssumption DEF IInv, TypeOK
    <2>2. CASE sceKernelDeleteSema(t)
      BY <2>2, SMTT(20) DEF IInv, TypeOK, sceKernelDeleteSema
    <2> QED BY <2>1, <2>2
  <1>5. \A u \in Threads : Queued(u) => Waiting(u) /\ was[u] = "none" /\ sem[u] = 0
    BY Zenon DEF IInv, ListMatchesWaiters, Bookkeeping
  <1>6. Len(wait_list') = 0 /\ wait_list' \in Seq(Threads) /\ Range(wait_list') = {} /\ IsInjective(wait_list')
    BY <1>2, SMTT(20) DEF Range, IsInjective
  <1>7. TypeOK'
    BY <1>2, <1>3, <1>4, <1>6, SMTT(20) DEF IInv, TypeOK, Results
  <1>8. ListMatchesWaiters'
    BY <1>2, <1>3, <1>6, SMTT(20) DEF IInv, TypeOK, ListMatchesWaiters, Queued, Waiting
  <1>9. ReleasedOnce'
    BY <1>2, <1>5, SMTT(20) DEF IInv, TypeOK, ReleasedOnce
  <1>10. Bookkeeping'
    BY <1>2, <1>3, <1>5, ZenonT(30) DEF IInv, TypeOK, Bookkeeping, Waiting
  <1>11. NoServableWaiter' /\ UrgencyOrder'
    <2>1. Positions' = {}
      BY <1>6, SMTT(20) DEF Positions
    <2> QED BY <2>1 DEF NoServableWaiter, UrgencyOrder
  <1> QED BY <1>7, <1>8, <1>9, <1>10, <1>11 DEF IInv

\* Nothing changes.
LEMMA StutterStep ==
    ASSUME IInv, UNCHANGED vars
    PROVE  IInv'
  BY DEF vars, IInv, TypeOK, ListMatchesWaiters, ReleasedOnce, NoServableWaiter,
         UrgencyOrder, Bookkeeping, Queued, Positions, Waiting, Priority

\* The conjunction of the safety properties is inductive.
THEOREM Invariance == Spec => []IInv
  <1>1. IInv /\ [Next]_vars => IInv'
    <2> SUFFICES ASSUME IInv, Next PROVE IInv'
      BY StutterStep
    <2>1. PICK t \in Threads :
            \/ sceKernelCreateSema(t) \/ BadHandle(t) \/ Take(t) \/ Refuse(t) \/ Block(t)
            \/ Acquire(t) \/ Expire(t) \/ Resume(t)
            \/ SignalStart(t) \/ SignalSkip(t) \/ SignalGrant(t) \/ SignalEnd(t)
            \/ Cancel(t) \/ sceKernelDeleteSema(t)
      BY DEF Next
    <2> QED BY <2>1, QuietStep, BlockStep, WakeStep, ResumeStep, SignalStartStep,
               SignalSkipStep, SignalGrantStep, SignalEndStep, WakeAllStep, SMTT(20)
  <1> QED BY InitIInv, <1>1, PTL DEF Spec

\* No waiter the tokens would serve is left in the list.
THEOREM NoWaiterStranded == Spec => []NoServableWaiter
  BY Invariance, PTL DEF IInv

\* The list holds exactly the unreleased waiters, in order of urgency, no waiter
\* is released twice and the tokens never become negative.
THEOREM ListCorrect == Spec => []ListSound
  BY Invariance, PTL DEF IInv, ListSound
=============================================================================
