-------------------------------- MODULE Equeue --------------------------------
(***************************************************************************)
(* An event queue (kernel/equeue.cpp): threads register events, trigger    *)
(* user events and wait; the timer service calls back when timers expire.  *)
(* Every event is registered under one ident, which fixes its filter.      *)
(* Event data, user data and intervals are abstracted away.  A queue is    *)
(* not deleted, and polls with a zero timeout are left out: they read and  *)
(* change the list without the mutex.                                      *)
(***************************************************************************)
EXTENDS Integers, FiniteSets, SequencesExt

CONSTANTS
    Threads,
    Level,              \* user events: stay triggered when they are received
    Edge,               \* user events with the Clear flag, display and graphics events
    Periodic,           \* timers
    OneShot,            \* high-resolution timers
    Small,              \* whether these may be set for less than the spinning threshold
    NoId,
    Nums,               \* how many events a wait has room for
    MaxQueued,          \* bound on the callbacks of one timer that wait to run
    Deadlines           \* whether waits may have a deadline: a subset of BOOLEAN

Timers == Periodic \cup OneShot
Ids == Level \cup Edge \cup Timers

EqueueAssumption ==
    /\ NoId \notin Ids
    /\ Small \in BOOLEAN
    /\ Nums \subseteq Nat \ {0}
    /\ MaxQueued \in Nat \ {0}
    /\ Deadlines \subseteq BOOLEAN

VARIABLES
    m_events,           \* the registered events, in order
    triggered,          \* the registered events that are triggered
    armed,              \* the timers whose wait is pending
    queued,             \* callbacks that the timer service has still to run, per timer
    io, ioId,           \* what the timer service is doing, and for which timer
    m_small_timers, expired,
    pc, arg, num, timed \* the call a thread is in

eventVars == <<m_events, triggered, armed>>
ioVars == <<queued, io, ioId>>
smallVars == <<m_small_timers, expired>>
callVars == <<pc, arg, num, timed>>
vars == <<eventVars, ioVars, smallVars, callVars>>

TypeOK ==
    /\ m_events \in Seq(Ids)
    /\ triggered \subseteq ToSet(m_events)
    /\ armed \subseteq Timers \cap ToSet(m_events)
    /\ queued \in [Timers -> 0 .. MaxQueued]
    /\ io \in {"idle", "trigger", "notify", "schedule"}
    /\ ioId \in Timers \cup {NoId}
    /\ m_small_timers \subseteq OneShot
    /\ expired \subseteq m_small_timers
    /\ pc \in [Threads -> {"run", "schedule", "notify", "wait", "sleep", "small",
                        "deleteSmall", "deleteLarge"}]
    /\ arg \in [Threads -> Timers \cup {NoId}]
    /\ num \in [Threads -> Nums \cup {0}]
    /\ timed \in [Threads -> BOOLEAN]

Init ==
    /\ m_events = <<>>
    /\ triggered = {}
    /\ armed = {}
    /\ queued = [i \in Timers |-> 0]
    /\ io = "idle"
    /\ ioId = NoId
    /\ m_small_timers = {}
    /\ expired = {}
    /\ pc = [t \in Threads |-> "run"]
    /\ arg = [t \in Threads |-> NoId]
    /\ num = [t \in Threads |-> 0]
    /\ timed = [t \in Threads |-> FALSE]

Registered(i) == i \in ToSet(m_events)

Goto(t, step) == pc' = [pc EXCEPT ![t] = step]

Return(t) ==
    /\ Goto(t, "run")
    /\ num' = [num EXCEPT ![t] = 0]
    /\ timed' = [timed EXCEPT ![t] = FALSE]
    /\ UNCHANGED arg

-------------------------------------------------------------------------------
(* AddEvent, ScheduleEvent, RemoveEvent *)

\* Registering an event again changes nothing that is modelled.
AddEvent(t, i) ==
    /\ pc[t] = "run"
    /\ ~Registered(i)
    /\ m_events' = Append(m_events, i)
    /\ IF i \in Timers
       THEN Goto(t, "schedule") /\ arg' = [arg EXCEPT ![t] = i]
       ELSE UNCHANGED <<pc, arg>>
    /\ UNCHANGED <<triggered, armed, ioVars, smallVars, num, timed>>

\* The timer of i is armed, afresh or for its next period.
ScheduleEvent(i) == armed' = armed \cup ({i} \cap ToSet(m_events))

AddSchedule(t) ==
    /\ pc[t] = "schedule"
    /\ ScheduleEvent(arg[t])
    /\ Goto(t, "run")
    /\ arg' = [arg EXCEPT ![t] = NoId]
    /\ UNCHANGED <<m_events, triggered, ioVars, smallVars, num, timed>>

\* The event's timer goes with it; a callback already queued does not.
RemoveEvent(i) ==
    /\ m_events' = Remove(m_events, i)
    /\ triggered' = triggered \ {i}
    /\ armed' = armed \ {i}

Delete(t, i) ==
    /\ pc[t] = "run"
    /\ i \notin OneShot
    /\ RemoveEvent(i)
    /\ UNCHANGED <<ioVars, smallVars, callVars>>

\* sceKernelDeleteHRTimerEvent asks first whether there are small timers, whichever,
\* and then looks for its own only among those, or only among the events.
DeleteHRTimerEvent(t, i) ==
    /\ pc[t] = "run"
    /\ Goto(t, IF m_small_timers # {} THEN "deleteSmall" ELSE "deleteLarge")
    /\ arg' = [arg EXCEPT ![t] = i]
    /\ UNCHANGED <<eventVars, ioVars, smallVars, num, timed>>

DeleteHRTimer(t) ==
    /\ \/ pc[t] = "deleteLarge" /\ RemoveEvent(arg[t]) /\ UNCHANGED smallVars
       \/ /\ pc[t] = "deleteSmall"
          /\ m_small_timers' = m_small_timers \ {arg[t]}
          /\ expired' = expired \ {arg[t]}
          /\ UNCHANGED eventVars
    /\ Goto(t, "run")
    /\ arg' = [arg EXCEPT ![t] = NoId]
    /\ UNCHANGED <<ioVars, num, timed>>

-------------------------------------------------------------------------------
(* TriggerEvent *)

Trigger(i) == triggered' = triggered \cup ({i} \cap ToSet(m_events))

\* m_cond.notify_one(), by a thread or the timer service, after the mutex is released.
NotifyOne(newPc) ==
    \/ \E u \in Threads : newPc[u] = "sleep" /\ pc' = [newPc EXCEPT ![u] = "wait"]
    \/ (\A u \in Threads : newPc[u] # "sleep") /\ pc' = newPc

TriggerUserEvent(t, i) ==
    /\ pc[t] = "run"
    /\ i \in Level \cup Edge
    /\ Trigger(i)
    /\ Goto(t, "notify")
    /\ UNCHANGED <<m_events, armed, ioVars, smallVars, arg, num, timed>>

Notify(t) ==
    /\ pc[t] = "notify"
    /\ NotifyOne([pc EXCEPT ![t] = "run"])
    /\ UNCHANGED <<eventVars, ioVars, smallVars, arg, num, timed>>

-------------------------------------------------------------------------------
(* The timer service *)

Expire(i) ==
    /\ i \in armed
    /\ queued[i] < MaxQueued
    /\ armed' = armed \ {i}
    /\ queued' = [queued EXCEPT ![i] = @ + 1]
    /\ UNCHANGED <<m_events, triggered, io, ioId, smallVars, callVars>>

\* TimerCallback asks whether the event is there; HrTimerCallback does not.
CallbackBegin(i) ==
    /\ io = "idle"
    /\ queued[i] > 0
    /\ queued' = [queued EXCEPT ![i] = @ - 1]
    /\ IF i \in Periodic /\ ~Registered(i)
       THEN UNCHANGED <<io, ioId>>
       ELSE io' = "trigger" /\ ioId' = i
    /\ UNCHANGED <<eventVars, smallVars, callVars>>

CallbackTrigger ==
    /\ io = "trigger"
    /\ Trigger(ioId)
    /\ io' = "notify"
    /\ UNCHANGED <<m_events, armed, queued, ioId, smallVars, callVars>>

CallbackNotify ==
    /\ io = "notify"
    /\ NotifyOne(pc)
    /\ IF ioId \in Periodic
       THEN io' = "schedule" /\ UNCHANGED ioId
       ELSE io' = "idle" /\ ioId' = NoId
    /\ UNCHANGED <<eventVars, queued, smallVars, arg, num, timed>>

\* Mutant: a timer is rescheduled only when its last expiry has been received.
CallbackScheduleReceived ==
    /\ io = "schedule"
    /\ IF ioId \in triggered THEN UNCHANGED armed ELSE ScheduleEvent(ioId)
    /\ io' = "idle"
    /\ ioId' = NoId
    /\ UNCHANGED <<m_events, triggered, queued, smallVars, callVars>>

CallbackSchedule ==
    /\ io = "schedule"
    /\ ScheduleEvent(ioId)
    /\ io' = "idle"
    /\ ioId' = NoId
    /\ UNCHANGED <<m_events, triggered, queued, smallVars, callVars>>

-------------------------------------------------------------------------------
(* WaitForEvents, GetTriggeredEvents *)

IsTriggered(i) == i \in triggered

\* The events a wait with room for n receives: the first n that are triggered.
Taken(n) ==
    LET ready == SelectSeq(m_events, IsTriggered)
    IN  {ready[k] : k \in {j \in 1 .. Len(ready) : j <= n}}

\* Mutant: every triggered event is cleared, received or not.
ReceiveAll(n) ==
    /\ m_events' = SelectSeq(m_events, LAMBDA i : i \notin Taken(n) \cap OneShot)
    /\ triggered' = triggered \cap Level
    /\ armed' = armed \ (Taken(n) \cap OneShot)

\* Received events are cleared, level ones excepted; one-shot timers are removed.
Receive(n) ==
    /\ m_events' = SelectSeq(m_events, LAMBDA i : i \notin Taken(n) \cap OneShot)
    /\ triggered' = triggered \ (Taken(n) \ Level)
    /\ armed' = armed \ (Taken(n) \cap OneShot)

\* With a small timer set the call spins for it and looks at nothing else.
WaitBegin(t, n, withTimeout) ==
    /\ pc[t] = "run"
    /\ Goto(t, IF m_small_timers # {} THEN "small" ELSE "wait")
    /\ num' = [num EXCEPT ![t] = n]
    /\ timed' = [timed EXCEPT ![t] = withTimeout]
    /\ UNCHANGED <<eventVars, ioVars, smallVars, arg>>

\* The predicate, under the mutex: events are received, or the thread sleeps.
WaitCheck(t) ==
    /\ pc[t] = "wait"
    /\ IF Taken(num[t]) # {}
       THEN Receive(num[t]) /\ Return(t)
       ELSE Goto(t, "sleep") /\ UNCHANGED <<eventVars, arg, num, timed>>
    /\ UNCHANGED <<ioVars, smallVars>>

\* Mutant: the predicate is not asked when the deadline has passed.
WaitTimeOutBlindly(t) ==
    /\ pc[t] \in {"sleep", "wait"}
    /\ timed[t]
    /\ Return(t)
    /\ UNCHANGED <<eventVars, ioVars, smallVars>>

\* The deadline passes: the predicate is asked once more.
WaitTimeOut(t) ==
    /\ pc[t] \in {"sleep", "wait"}
    /\ timed[t]
    /\ IF Taken(num[t]) # {} THEN Receive(num[t]) ELSE UNCHANGED eventVars
    /\ Return(t)
    /\ UNCHANGED <<ioVars, smallVars>>

-------------------------------------------------------------------------------
(* Small timers *)

AddSmallTimer(t, i) ==
    /\ Small
    /\ pc[t] = "run"
    /\ m_small_timers' = m_small_timers \cup {i}
    /\ expired' = expired \ {i}
    /\ UNCHANGED <<eventVars, ioVars, callVars>>

SmallExpire(i) ==
    /\ i \in m_small_timers \ expired
    /\ expired' = expired \cup {i}
    /\ UNCHANGED <<eventVars, ioVars, m_small_timers, callVars>>

\* Expired ones, up to the room there is, end the wait.  The clock is read before the
\* mutex is taken, so that others may have expired and stay.
WaitSmall(t) ==
    /\ pc[t] = "small"
    /\ \E taken \in SUBSET expired \ {{}} :
        /\ Cardinality(taken) <= num[t]
        /\ m_small_timers' = m_small_timers \ taken
        /\ expired' = expired \ taken
    /\ Return(t)
    /\ UNCHANGED <<eventVars, ioVars>>

WaitSmallTimeOut(t) ==
    /\ pc[t] = "small"
    /\ timed[t]
    /\ Return(t)
    /\ UNCHANGED <<eventVars, ioVars, smallVars>>

-------------------------------------------------------------------------------
\* What a thread in a call and the timer service do by themselves.
Continue(t) == AddSchedule(t) \/ Notify(t) \/ WaitCheck(t) \/ WaitSmall(t) \/ DeleteHRTimer(t)

Callback ==
    CallbackTrigger \/ CallbackNotify \/ CallbackSchedule \/ \E i \in Timers : CallbackBegin(i)

Next ==
    \/ \E t \in Threads :
        \/ Continue(t) \/ WaitTimeOut(t) \/ WaitSmallTimeOut(t)
        \/ \E i \in Ids : AddEvent(t, i) \/ Delete(t, i) \/ TriggerUserEvent(t, i)
        \/ \E i \in OneShot : AddSmallTimer(t, i) \/ DeleteHRTimerEvent(t, i)
        \/ \E n \in Nums, withTimeout \in Deadlines : WaitBegin(t, n, withTimeout)
    \/ Callback
    \/ \E i \in Timers : Expire(i)
    \/ \E i \in OneShot : SmallExpire(i)

Spec == Init /\ [][Next]_vars

-------------------------------------------------------------------------------
\* "Events are uniquely identified by id and filter."
EventsUnique == TypeOK /\ IsInjective(m_events)

\* A thread sleeps only while no event that is received once is there for it: some
\* notification, or a thread it woke, is under way.
NoMissedEdge ==
    /\ EventsUnique
    /\ (triggered \ Level # {} /\ \E t \in Threads : pc[t] = "sleep") =>
          io = "notify" \/ \E u \in Threads : pc[u] \in {"notify", "wait"}

\* A registered periodic timer never dies, and a one-shot timer lives until it has
\* triggered, however they are removed and added again while their callback runs.
TimersStayAlive ==
    \A i \in Timers : Registered(i) /\ (i \in OneShot => i \notin triggered) =>
        \/ i \in armed \/ queued[i] > 0
        \/ ioId = i /\ (i \in OneShot => io = "trigger")
        \/ \E t \in Threads : pc[t] = "schedule" /\ arg[t] = i

\* An event is received or removed, but never lost: once triggered it stays so until
\* a thread that was waiting returns, or somebody deletes it.
TriggeredStays ==
    [][\A i \in Ids : i \in triggered /\ i \notin triggered' =>
        \/ ~Registered(i)'
        \/ \E t \in Threads : pc[t] \in {"wait", "sleep"} /\ pc'[t] = "run"
                              /\ i \in Taken(num[t])]_vars
===============================================================================
