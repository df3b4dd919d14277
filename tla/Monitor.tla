------------------------------- MODULE Monitor -------------------------------
(***************************************************************************)
(* What the pthread mutexes and condition variables promise a guest: a     *)
(* wait gives its mutex up and joins the condition's queue in one step, a  *)
(* signal takes the oldest waiter and a broadcast takes all of them, and a *)
(* waiter comes back owning its mutex at the depth it had.  CondVar.tla    *)
(* models the code and implements this specification.                      *)
(***************************************************************************)
EXTENDS Lists

CONSTANTS Threads, NoThread, Mutexes, Conds, Recursive, MaxRecursion

VARIABLES owner, depth, queue, phase, wait, requested

monitorVars == <<owner, depth, queue, phase, wait, requested>>

\* A wait in progress: where, with which mutex, held how deep, and whether it
\* has a deadline.
NoWait == [cond |-> "none", mutex |-> "none", depth |-> 0, timed |-> FALSE]

Init ==
    /\ owner = [m \in Mutexes |-> NoThread]
    /\ depth = [m \in Mutexes |-> 0]
    /\ queue = [c \in Conds |-> <<>>]
    /\ phase = [t \in Threads |-> "run"]
    /\ wait = [t \in Threads |-> NoWait]
    /\ requested = [t \in Threads |-> FALSE]

Lock(t, m) ==
    /\ phase[t] = "run"
    /\ \/ /\ owner[m] = NoThread
          /\ owner' = [owner EXCEPT ![m] = t]
          /\ UNCHANGED depth
       \/ /\ owner[m] = t
          /\ m \in Recursive
          /\ depth[m] < MaxRecursion
          /\ depth' = [depth EXCEPT ![m] = @ + 1]
          /\ UNCHANGED owner
    /\ UNCHANGED <<queue, phase, wait, requested>>

\* Cleanup handlers of a thread that is going away also unlock.
Unlock(t, m) ==
    /\ phase[t] \in {"run", "gone"}
    /\ owner[m] = t
    /\ IF depth[m] > 0
       THEN /\ depth' = [depth EXCEPT ![m] = @ - 1]
            /\ UNCHANGED owner
       ELSE /\ owner' = [owner EXCEPT ![m] = NoThread]
            /\ UNCHANGED depth
    /\ UNCHANGED <<queue, phase, wait, requested>>

Wait(t, c, m, timed) ==
    /\ phase[t] = "run"
    /\ owner[m] = t
    /\ owner' = [owner EXCEPT ![m] = NoThread]
    /\ depth' = [depth EXCEPT ![m] = 0]
    /\ queue' = [queue EXCEPT ![c] = Append(@, t)]
    /\ phase' = [phase EXCEPT ![t] = "waiting"]
    /\ wait' = [wait EXCEPT ![t] = [cond |-> c, mutex |-> m, depth |-> depth[m],
                                    timed |-> timed]]
    /\ UNCHANGED requested

Without(q, u) == ListErase(q, CHOOSE i \in DOMAIN q : q[i] = u)

\* A waiter leaves the queue for a reason the others cannot see.
Leave(c, u, why) ==
    /\ queue' = [queue EXCEPT ![c] = Without(@, u)]
    /\ phase' = [phase EXCEPT ![u] = why]
    /\ UNCHANGED <<owner, depth, wait, requested>>

Signal(c) ==
    /\ queue[c] # <<>>
    /\ Leave(c, Head(queue[c]), "signalled")

SignalTo(c, u) ==
    /\ u \in Range(queue[c])
    /\ Leave(c, u, "signalled")

Broadcast(c) ==
    /\ queue[c] # <<>>
    /\ queue' = [queue EXCEPT ![c] = <<>>]
    /\ phase' = [u \in Threads |-> IF u \in Range(queue[c]) THEN "signalled" ELSE phase[u]]
    /\ UNCHANGED <<owner, depth, wait, requested>>

TimeOut(t) ==
    /\ phase[t] = "waiting"
    /\ wait[t].timed
    /\ Leave(wait[t].cond, t, "timedout")

BeCancelled(t) ==
    /\ phase[t] = "waiting"
    /\ requested[t]
    /\ Leave(wait[t].cond, t, "cancelled")

\* Nobody returns from a wait, or dies in one, without the mutex at its old depth.
Resume(t) ==
    LET w == wait[t]
    IN  /\ phase[t] \in {"signalled", "timedout", "cancelled"}
        /\ owner[w.mutex] = NoThread
        /\ owner' = [owner EXCEPT ![w.mutex] = t]
        /\ depth' = [depth EXCEPT ![w.mutex] = w.depth]
        /\ phase' = [phase EXCEPT ![t] = IF @ = "cancelled" THEN "gone" ELSE "run"]
        /\ wait' = [wait EXCEPT ![t] = NoWait]
        /\ UNCHANGED <<queue, requested>>

Request(t) ==
    /\ ~requested[t]
    /\ requested' = [requested EXCEPT ![t] = TRUE]
    /\ UNCHANGED <<owner, depth, queue, phase, wait>>

Die(t) ==
    /\ phase[t] = "run"
    /\ requested[t]
    /\ phase' = [phase EXCEPT ![t] = "gone"]
    /\ UNCHANGED <<owner, depth, queue, wait, requested>>

Next ==
    \/ \E t \in Threads :
          \/ \E m \in Mutexes : Lock(t, m) \/ Unlock(t, m)
          \/ \E c \in Conds, m \in Mutexes, timed \in BOOLEAN : Wait(t, c, m, timed)
          \/ TimeOut(t) \/ BeCancelled(t) \/ Resume(t) \/ Request(t) \/ Die(t)
    \/ \E c \in Conds :
          \/ Signal(c)
          \/ Broadcast(c)
          \/ \E u \in Threads : SignalTo(c, u)

Spec == Init /\ [][Next]_monitorVars
==============================================================================
