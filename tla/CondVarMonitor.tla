---------------------------- MODULE CondVarMonitor ----------------------------
(***************************************************************************)
(* The condition variables of CondVar implement the monitor of Monitor.    *)
(* The waiter that has given its mutex up but is not on the queue yet      *)
(* counts as queued, and a broadcast has its effect when it takes the lock *)
(* of the sleep queue.                                                     *)
(***************************************************************************)
EXTENDS CondVar

Dropped(c) == sq_lock[c] # NoThread /\ pc[sq_lock[c]] = "drop"

QueueOf(c) ==
    IF Dropped(c) THEN <<>>
    ELSE IF sq_lock[c] # NoThread /\ pc[sq_lock[c]] = "add"
         THEN Append(sq_blocked[c], sq_lock[c])
         ELSE sq_blocked[c]

PhaseOf(t) ==
    CASE pc[t] = "add" -> "waiting"
      [] pc[t] \in {"arm", "sleep", "woken"} ->
            IF wchan[t] = NoCond \/ Dropped(cv[t]) THEN "signalled" ELSE "waiting"
      [] pc[t] = "relock" ->
            CASE error[t] = "ETIMEDOUT" -> "timedout"
              [] error[t] = "ECANCELED" -> "cancelled"
              [] OTHER -> "signalled"
      [] OTHER -> IF cancelling[t] THEN "gone" ELSE "run"

WaitOf(t) ==
    IF mp[t] = NoMutex
    THEN [cond |-> "none", mutex |-> "none", depth |-> 0, timed |-> FALSE]
    ELSE [cond |-> cv[t], mutex |-> mp[t], depth |-> recurse[t], timed |-> timed[t]]

queueBar == [c \in Conds |-> QueueOf(c)]
phaseBar == [t \in Threads |-> PhaseOf(t)]
waitBar == [t \in Threads |-> WaitOf(t)]

Promise == INSTANCE Monitor WITH
    owner <- m_owner, depth <- m_count, queue <- queueBar, phase <- phaseBar,
    wait <- waitBar, requested <- cancel_pending

\* The code implements the monitor a guest expects: waiting is atomic, a
\* signal takes the oldest waiter or the one it names, a broadcast takes all, and
\* every return from a wait owns the mutex at the depth it was given up with.
ImplementsMonitor == Promise!Spec
===============================================================================
