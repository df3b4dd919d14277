--------------------------------- MODULE Once ---------------------------------
(***************************************************************************)
(* posix_pthread_once (threads/pthread.cpp): one atomic word that callers  *)
(* compare-and-swap and sleep on.  A thread that is cancelled or exits     *)
(* inside the routine runs once_cancel_handler.                            *)
(***************************************************************************)
CONSTANT Threads

VARIABLES
    state,      \* PthreadOnce::state
    pc          \* where each thread is

vars == <<state, pc>>

States == {"NeverDone", "Done", "InProgress", "Wait"}
Steps == {"call", "load", "claim", "mark", "wait", "sleep", "init", "store", "notify",
          "reset", "renotify", "return", "exited"}

TypeOK == state \in States /\ pc \in [Threads -> Steps]

Init == state = "NeverDone" /\ pc = [t \in Threads |-> "call"]

Goto(t, step) == pc' = [pc EXCEPT ![t] = step]

Call(t) ==
    /\ pc[t] = "call"
    /\ Goto(t, "load")
    /\ UNCHANGED state

\* The branch on the loaded value; what it finds may be stale in the next step.
Load(t) ==
    /\ pc[t] = "load"
    /\ Goto(t, CASE state = "Done" -> "return"
                 [] state = "NeverDone" -> "claim"
                 [] state = "InProgress" -> "mark"
                 [] state = "Wait" -> "wait")
    /\ UNCHANGED state

\* Mutant: the word is stored without a look at what it is by now.
ClaimBlindly(t) ==
    /\ pc[t] = "claim"
    /\ state' = "InProgress"
    /\ Goto(t, "init")

Claim(t) ==
    /\ pc[t] = "claim"
    /\ IF state = "NeverDone"
       THEN state' = "InProgress" /\ Goto(t, "init")
       ELSE Goto(t, "load") /\ UNCHANGED state

Mark(t) ==
    /\ pc[t] = "mark"
    /\ IF state = "InProgress"
       THEN state' = "Wait" /\ Goto(t, "wait")
       ELSE Goto(t, "load") /\ UNCHANGED state

\* state.wait(Wait): looks and sleeps in one step, and looks again when notified.
Wait(t) ==
    /\ pc[t] = "wait"
    /\ Goto(t, IF state = "Wait" THEN "sleep" ELSE "load")
    /\ UNCHANGED state

\* state.notify_all() by t, which goes on to the given step.
NotifyAll(t, step) ==
    /\ pc' = [u \in Threads |-> IF u = t THEN step
                                ELSE IF pc[u] = "sleep" THEN "wait" ELSE pc[u]]
    /\ UNCHANGED state

\* The routine has returned.
Complete(t) ==
    /\ pc[t] = "init"
    /\ IF state = "InProgress"
       THEN state' = "Done" /\ Goto(t, "return")
       ELSE Goto(t, "store") /\ UNCHANGED state

Store(t) ==
    /\ pc[t] = "store"
    /\ state' = "Done"
    /\ Goto(t, "notify")

Notify(t) == pc[t] = "notify" /\ NotifyAll(t, "return")

\* Mutant: the handler does nothing when there are waiters.
AbandonUnmarked(t) ==
    /\ pc[t] = "init"
    /\ IF state = "InProgress"
       THEN state' = "NeverDone" /\ Goto(t, "exited")
       ELSE Goto(t, "exited") /\ UNCHANGED state

\* once_cancel_handler
Abandon(t) ==
    /\ pc[t] = "init"
    /\ IF state = "InProgress"
       THEN state' = "NeverDone" /\ Goto(t, "exited")
       ELSE Goto(t, "reset") /\ UNCHANGED state

Reset(t) ==
    /\ pc[t] = "reset"
    /\ state' = "NeverDone"
    /\ Goto(t, "renotify")

Renotify(t) == pc[t] = "renotify" /\ NotifyAll(t, "exited")

\* The next call.
Again(t) ==
    /\ pc[t] = "return"
    /\ Goto(t, "call")
    /\ UNCHANGED state

-------------------------------------------------------------------------------
\* What a thread does by itself once it has called.
Continue(t) ==
    \/ Load(t) \/ Claim(t) \/ Mark(t) \/ Wait(t) \/ Complete(t) \/ Store(t) \/ Notify(t)
    \/ Abandon(t) \/ Reset(t) \/ Renotify(t)

Next == \E t \in Threads : Call(t) \/ Continue(t) \/ Again(t)

Spec == Init /\ [][Next]_vars

\* Threads in the call are scheduled, and the routine comes to an end.
Fairness == \A t \in Threads : WF_vars(Continue(t))

FairSpec == Spec /\ Fairness

-------------------------------------------------------------------------------
\* The threads that own the routine's run: inside it, or about to publish its end.
Running == {t \in Threads : pc[t] \in {"init", "store", "reset"}}

\* The word tells the truth: a run that is announced is owned by one thread, and
\* there is none when the word says never or done, though callers act on stale values.
WordMatchesRun ==
    /\ \A t, u \in Running : t = u
    /\ state \in {"InProgress", "Wait"} <=> Running # {}

\* Once the routine has completed it never runs again, and the word stays Done.
DoneIsFinal == [][state = "Done" => state' = "Done" /\ Running' = {}]_vars

\* A caller that sleeps will be looked after: the word still says Wait, or the
\* notification is on its way.
SleeperIsAnnounced ==
    \A t \in Threads : pc[t] = "sleep" =>
        state = "Wait" \/ \E u \in Threads : pc[u] \in {"notify", "renotify"}

\* The word of posix_pthread_once announces a run exactly while there is one, and
\* the sleepers on it are looked after.
OnceSafe == WordMatchesRun /\ SleeperIsAnnounced

Promise == INSTANCE InitOnce WITH
    done <- state = "Done",
    running <- Running,
    returned <- {t \in Threads : pc[t] = "return"}

\* pthread_once runs one routine at a time, none after one has completed, and no call
\* returns before that.
ImplementsInitOnce == Promise!Spec

\* Every caller returns, or is itself cancelled inside the routine.
CallerReturns ==
    \A t \in Threads : pc[t] = "load" ~> (pc[t] \in {"return", "exited"})
===============================================================================
