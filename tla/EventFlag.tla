------------------------------ MODULE EventFlag ------------------------------
(***************************************************************************)
(* One kernel event flag (threads/event_flag.cpp): a set of bits, a list   *)
(* of waiters that stay listed until they run again, and a destructor that *)
(* waits for them to leave.  Every operation runs under m_mutex and is one *)
(* step; a wait is two, up to its condition variable and after it.         *)
(***************************************************************************)
EXTENDS Integers, Sequences, FiniteSets, SequencesExt

CONSTANTS
    Threads, NoThread,
    Bits,               \* the bits of the 64-bit pattern that are told apart
    Prio,               \* attr.prio of each thread
    SetPatterns, ClearPatterns, CancelPatterns,
    WaitRequests,       \* what is asked of Wait and Poll
    Modes               \* the attributes flags are created with

\* A Waiter: bitPattern is never 0; timed when there is a deadline, as in every Poll.
Requests == [bits : (SUBSET Bits) \ {{}}, wait_mode : {"And", "Or"},
             clear_mode : {"None", "All", "Bits"}, timed : BOOLEAN, active : {TRUE}]

EventFlagAssumption ==
    /\ NoThread \notin Threads
    /\ IsFiniteSet(Bits)
    /\ Prio \in [Threads -> Nat]
    /\ SetPatterns \subseteq SUBSET Bits
    /\ ClearPatterns \subseteq SUBSET Bits
    /\ CancelPatterns \subseteq SUBSET Bits
    /\ WaitRequests \subseteq Requests
    /\ Modes \subseteq [single : BOOLEAN, fifo : BOOLEAN]

VARIABLES
    exists,             \* the handle is valid
    mode,               \* m_thread_mode and m_queue_mode
    m_bits, m_waiters, m_deleted,
    destroyer,          \* the thread inside the destructor
    waiter,             \* bits, wait_mode and clear_mode of a thread's Waiter
    result, ready, canceled, deleted,
    notified,           \* the waiter's condition variable, or the destructor's, was notified
    returned            \* what the last step returned to its caller, if it ended a call

flagVars == <<exists, mode, m_bits, m_waiters, m_deleted, destroyer>>
waiterVars == <<waiter, result, ready, canceled, deleted, notified>>
vars == <<flagVars, waiterVars, returned>>

Idle == [bits |-> {}, wait_mode |-> "And", clear_mode |-> "None", timed |-> FALSE,
         active |-> FALSE]
NoReturn == [ret |-> "none", out |-> {}]
Returns == {"none", "OK", "EACCES", "EPERM", "ECANCELED", "ETIMEDOUT"}

TypeOK ==
    /\ exists \in BOOLEAN
    /\ mode \in [single : BOOLEAN, fifo : BOOLEAN]
    /\ m_bits \subseteq Bits
    /\ m_waiters \in Seq(Threads)
    /\ m_deleted \in BOOLEAN
    /\ destroyer \in Threads \cup {NoThread}
    /\ waiter \in [Threads -> Requests \cup {Idle}]
    /\ result \in [Threads -> SUBSET Bits]
    /\ ready \in [Threads -> BOOLEAN]
    /\ canceled \in [Threads -> BOOLEAN]
    /\ deleted \in [Threads -> BOOLEAN]
    /\ notified \in [Threads -> BOOLEAN]
    /\ returned \in [ret : Returns, out : SUBSET Bits]

Init ==
    /\ exists = FALSE
    /\ mode = [single |-> TRUE, fifo |-> TRUE]
    /\ m_bits = {}
    /\ m_waiters = <<>>
    /\ m_deleted = FALSE
    /\ destroyer = NoThread
    /\ waiter = [t \in Threads |-> Idle]
    /\ result = [t \in Threads |-> {}]
    /\ ready = [t \in Threads |-> FALSE]
    /\ canceled = [t \in Threads |-> FALSE]
    /\ deleted = [t \in Threads |-> FALSE]
    /\ notified = [t \in Threads |-> FALSE]
    /\ returned = NoReturn

-------------------------------------------------------------------------------
\* A thread that is in no call on the flag, while its handle is valid.
Caller(t) == exists /\ ~waiter[t].active /\ destroyer # t

\* ConditionMet on any bits.
Satisfied(bits, w) ==
    IF w.wait_mode = "And" THEN w.bits \subseteq bits ELSE w.bits \cap bits # {}

ConditionMet(w) == Satisfied(m_bits, w)

ApplyClear(bits, w) ==
    CASE w.clear_mode = "None" -> bits
      [] w.clear_mode = "All" -> {}
      [] w.clear_mode = "Bits" -> bits \ w.bits

Return(ret, out) == returned' = [ret |-> ret, out |-> out]

\* Where AddWaiter inserts: at the end, or before the first smaller priority.
AddPosition(t) ==
    IF mode.fifo THEN Len(m_waiters) + 1
    ELSE CHOOSE i \in 1 .. Len(m_waiters) + 1 :
            /\ i = Len(m_waiters) + 1 \/ Prio[m_waiters[i]] < Prio[t]
            /\ \A j \in 1 .. i - 1 : Prio[m_waiters[j]] >= Prio[t]

\* Mutant: the destructor is not told that the last waiter left.
RemoveWaiterSilently(t) ==
    /\ m_waiters' = RemoveAt(m_waiters, CHOOSE i \in DOMAIN m_waiters : m_waiters[i] = t)
    /\ notified' = [notified EXCEPT ![t] = FALSE]

\* RemoveWaiter, and the Waiter's end of life.
RemoveWaiter(t) ==
    /\ m_waiters' = RemoveAt(m_waiters, CHOOSE i \in DOMAIN m_waiters : m_waiters[i] = t)
    /\ notified' = [u \in Threads |->
                      IF u = t THEN FALSE
                      ELSE notified[u] \/ (m_deleted /\ m_waiters' = <<>> /\ u = destroyer)]

Forget(t) ==
    /\ waiter' = [waiter EXCEPT ![t] = Idle]
    /\ result' = [result EXCEPT ![t] = {}]
    /\ ready' = [ready EXCEPT ![t] = FALSE]
    /\ canceled' = [canceled EXCEPT ![t] = FALSE]
    /\ deleted' = [deleted EXCEPT ![t] = FALSE]

-------------------------------------------------------------------------------
sceKernelCreateEventFlag(md, bits) ==
    /\ ~exists
    /\ exists' = TRUE
    /\ mode' = md
    /\ m_bits' = bits
    /\ returned' = NoReturn
    /\ UNCHANGED <<m_waiters, m_deleted, destroyer, waiterVars>>

\* Wait that does not block.
WaitAtOnce(t, w) ==
    /\ Caller(t)
    /\ \/ /\ m_deleted
          /\ Return("EACCES", {})
          /\ UNCHANGED m_bits
       \/ /\ ~m_deleted
          /\ mode.single /\ m_waiters # <<>>
          /\ Return("EPERM", {})
          /\ UNCHANGED m_bits
       \/ /\ ~m_deleted
          /\ ~(mode.single /\ m_waiters # <<>>)
          /\ ConditionMet(w)
          /\ Return("OK", m_bits)
          /\ m_bits' = ApplyClear(m_bits, w)
    /\ UNCHANGED <<exists, mode, m_waiters, m_deleted, destroyer, waiterVars>>

\* Wait, and Poll with a deadline that has passed, up to the condition variable.
WaitBlock(t, w) ==
    /\ Caller(t)
    /\ ~m_deleted
    /\ ~(mode.single /\ m_waiters # <<>>)
    /\ ~ConditionMet(w)
    /\ waiter' = [waiter EXCEPT ![t] = w]
    /\ m_waiters' = InsertAt(m_waiters, AddPosition(t), t)
    /\ returned' = NoReturn
    /\ UNCHANGED <<exists, mode, m_bits, m_deleted, destroyer, result, ready, canceled,
                   deleted, notified>>

Woken(t) == ready[t] \/ canceled[t] \/ deleted[t]

\* wait_for returned false: nothing had happened to the waiter by its deadline.
WaitTimeOut(t) ==
    /\ waiter[t].active /\ waiter[t].timed
    /\ ~Woken(t)
    /\ RemoveWaiter(t)
    /\ Forget(t)
    /\ Return("ETIMEDOUT", m_bits)
    /\ UNCHANGED <<exists, mode, m_bits, m_deleted, destroyer>>

\* Wait after its condition variable.
WaitResume(t) ==
    /\ waiter[t].active /\ notified[t]
    /\ Woken(t)
    /\ RemoveWaiter(t)
    /\ Forget(t)
    /\ Return(CASE canceled[t] -> "ECANCELED"
                   [] ~canceled[t] /\ deleted[t] -> "EACCES"
                   [] OTHER -> "OK", result[t])
    /\ UNCHANGED <<exists, mode, m_bits, m_deleted, destroyer>>

-------------------------------------------------------------------------------
\* The bits before the loop of Set looks at its i-th waiter.
BitsAt(bits) ==
    LET before[i \in 1 .. Len(m_waiters) + 1] ==
            IF i = 1 THEN bits
            ELSE LET w == waiter[m_waiters[i - 1]]
                 IN  IF Satisfied(before[i - 1], w) THEN ApplyClear(before[i - 1], w)
                     ELSE before[i - 1]
    IN  before

\* Mutant: Set ends with the first waiter it makes ready.
SetFirstOnly(t, bits) ==
    LET all == m_bits \cup bits
        can == {i \in DOMAIN m_waiters : Satisfied(all, waiter[m_waiters[i]])}
        first == CHOOSE i \in can : \A j \in can : i <= j
        u == m_waiters[first]
    IN  /\ Caller(t)
        /\ IF can = {}
           THEN m_bits' = all /\ UNCHANGED waiterVars
           ELSE /\ m_bits' = ApplyClear(all, waiter[u])
                /\ result' = [result EXCEPT ![u] = all]
                /\ ready' = [ready EXCEPT ![u] = TRUE]
                /\ notified' = [notified EXCEPT ![u] = TRUE]
                /\ UNCHANGED <<waiter, canceled, deleted>>
        /\ returned' = NoReturn
        /\ UNCHANGED <<exists, mode, m_waiters, m_deleted, destroyer>>

\* Set looks at every waiter in list order, also at those that are ready but
\* have not run yet, and clears for each one before it looks at the next.
Set(t, bits) ==
    LET before == BitsAt(m_bits \cup bits)
        served == {i \in DOMAIN m_waiters : Satisfied(before[i], waiter[m_waiters[i]])}
        Served(u) == \E i \in served : m_waiters[i] = u
    IN  /\ Caller(t)
        /\ m_bits' = before[Len(m_waiters) + 1]
        /\ result' = [u \in Threads |->
                        IF Served(u) THEN before[CHOOSE i \in served : m_waiters[i] = u]
                        ELSE result[u]]
        /\ ready' = [u \in Threads |-> ready[u] \/ Served(u)]
        /\ notified' = [u \in Threads |-> notified[u] \/ Served(u)]
        /\ returned' = NoReturn
        /\ UNCHANGED <<exists, mode, m_waiters, m_deleted, destroyer, waiter, canceled,
                       deleted>>

Clear(t, bits) ==
    /\ Caller(t)
    /\ m_bits' = m_bits \cap bits
    /\ returned' = NoReturn
    /\ UNCHANGED <<exists, mode, m_waiters, m_deleted, destroyer, waiterVars>>

Cancel(t, pattern) ==
    LET listed == ToSet(m_waiters)
    IN  /\ Caller(t)
        /\ m_bits' = pattern
        /\ result' = [u \in Threads |-> IF u \in listed THEN pattern ELSE result[u]]
        /\ canceled' = [u \in Threads |-> canceled[u] \/ u \in listed]
        /\ notified' = [u \in Threads |-> notified[u] \/ u \in listed]
        /\ returned' = NoReturn
        /\ UNCHANGED <<exists, mode, m_waiters, m_deleted, destroyer, waiter, ready,
                       deleted>>

\* The destructor up to its condition variable, whose predicate it looks at first.
DeleteBegin(t) ==
    LET listed == ToSet(m_waiters)
    IN  /\ Caller(t)
        /\ ~m_deleted
        /\ m_deleted' = TRUE
        /\ destroyer' = t
        /\ deleted' = [u \in Threads |-> deleted[u] \/ u \in listed]
        /\ notified' = [u \in Threads |-> notified[u] \/ u \in listed
                                          \/ (u = t /\ m_waiters = <<>>)]
        /\ returned' = NoReturn
        /\ UNCHANGED <<exists, mode, m_bits, m_waiters, waiter, result, ready, canceled>>

DeleteEnd(t) ==
    /\ destroyer = t
    /\ notified[t]
    /\ m_waiters = <<>>
    /\ exists' = FALSE
    /\ m_deleted' = FALSE
    /\ destroyer' = NoThread
    /\ notified' = [notified EXCEPT ![t] = FALSE]
    /\ m_bits' = {}
    /\ returned' = NoReturn
    /\ UNCHANGED <<mode, m_waiters, waiter, result, ready, canceled, deleted>>

-------------------------------------------------------------------------------
Next ==
    \/ \E md \in Modes, bits \in SetPatterns : sceKernelCreateEventFlag(md, bits)
    \/ \E t \in Threads :
          \/ \E w \in WaitRequests : WaitAtOnce(t, w) \/ WaitBlock(t, w)
          \/ WaitTimeOut(t)
          \/ WaitResume(t)
          \/ \E bits \in SetPatterns : Set(t, bits)
          \/ \E bits \in ClearPatterns : Clear(t, bits)
          \/ \E pattern \in CancelPatterns : Cancel(t, pattern)
          \/ DeleteBegin(t)
          \/ DeleteEnd(t)

Spec == Init /\ [][Next]_vars

\* A notified thread gets m_mutex in the end, though others keep taking it.
Fairness == \A t \in Threads : SF_vars(WaitResume(t) \/ DeleteEnd(t))

FairSpec == Spec /\ Fairness

-------------------------------------------------------------------------------
\* The list holds the threads inside Wait, once each, and a flag whose handle is
\* gone has none: the destructor lets nobody touch a freed object.  The list of a
\* priority flag has the greatest numbers first, whoever comes and goes.
ListHoldsWaiters ==
    /\ TypeOK
    /\ IsInjective(m_waiters)
    /\ \A t \in Threads : t \in ToSet(m_waiters) <=> waiter[t].active
    /\ ~exists => m_waiters = <<>>
    /\ mode.single => Len(m_waiters) <= 1
    /\ ~mode.fifo => \A i, j \in DOMAIN m_waiters :
                         i < j => Prio[m_waiters[i]] >= Prio[m_waiters[j]]

\* No waiter that nothing has happened to could be served by the bits that are
\* set: neither the order of the list nor the clears of the waiters before it
\* make Set pass over one.
NoServableWaiter ==
    \A t \in ToSet(m_waiters) : ~Woken(t) => ~ConditionMet(waiter[t])

\* A wait that returns ORBIS_OK returns a pattern that satisfies it, though other
\* waiters and callers changed the bits before it ran; a wait that times out was
\* given nothing.
ResultSatisfiesWait ==
    [][\A t \in Threads :
         waiter[t].active /\ ~waiter'[t].active =>
             /\ returned'.ret = "OK" => Satisfied(returned'.out, waiter[t])
             /\ returned'.ret = "ETIMEDOUT" => ~ready[t]]_vars

\* sceKernelDeleteEventFlag returns: every waiter leaves and the last one tells.
DeleteReturns == (destroyer # NoThread) ~> (destroyer = NoThread)
===============================================================================
