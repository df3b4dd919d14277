------------------------------- MODULE InitOnce -------------------------------
(***************************************************************************)
(* What pthread_once promises: one routine at a time, none after one has   *)
(* completed, and no return of the call before that.                       *)
(***************************************************************************)
CONSTANT Threads

VARIABLES
    done,       \* a routine has completed
    running,    \* the threads inside the routine
    returned    \* the threads whose call has returned

vars == <<done, running, returned>>

Init == done = FALSE /\ running = {} /\ returned = {}

Start(t) ==
    /\ ~done
    /\ running = {}
    /\ running' = {t}
    /\ UNCHANGED <<done, returned>>

Complete(t) ==
    /\ running = {t}
    /\ running' = {}
    /\ done' = TRUE
    /\ returned' \in {returned, returned \cup {t}}

\* The thread is cancelled or exits inside the routine.
Abandon(t) ==
    /\ running = {t}
    /\ running' = {}
    /\ UNCHANGED <<done, returned>>

Return(t) ==
    /\ done
    /\ returned' = returned \cup {t}
    /\ UNCHANGED <<done, running>>

\* A thread that has returned goes on, and may call again.
Leave(t) ==
    /\ returned' = returned \ {t}
    /\ UNCHANGED <<done, running>>

Next == \E t \in Threads : Start(t) \/ Complete(t) \/ Abandon(t) \/ Return(t) \/ Leave(t)

Spec == Init /\ [][Next]_vars
===============================================================================
