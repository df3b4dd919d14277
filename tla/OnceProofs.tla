----------------------------- MODULE OnceProofs -----------------------------
(***************************************************************************)
(* Proofs about Once for any set of threads.                               *)
(***************************************************************************)
EXTENDS Once, TLAPS

\* Done is published before its waiters are notified and before any call returns.
DoneBeforeReturn == \A t \in Threads : pc[t] \in {"notify", "return"} => state = "Done"

Invariant == TypeOK /\ WordMatchesRun /\ DoneBeforeReturn

\* Every action keeps the word and the owner of the run in step.
LEMMA InvariantStep == Invariant /\ [Next]_vars => Invariant'
<1> SUFFICES ASSUME Invariant, [Next]_vars
             PROVE  Invariant'
  OBVIOUS
<1> USE DEF Invariant, TypeOK, WordMatchesRun, DoneBeforeReturn, Running, States, Steps, Goto
<1>1. CASE UNCHANGED vars
  BY <1>1 DEF vars
<1>2. ASSUME NEW t \in Threads, Call(t) \/ Again(t) \/ Load(t) \/ Wait(t)
      PROVE  Invariant'
  BY <1>2 DEF Call, Again, Load, Wait
<1>3. ASSUME NEW t \in Threads, Claim(t) \/ Mark(t)
      PROVE  Invariant'
  BY <1>3 DEF Claim, Mark
<1>4. ASSUME NEW t \in Threads, Complete(t) \/ Abandon(t)
      PROVE  Invariant'
  BY <1>4 DEF Complete, Abandon
<1>5. ASSUME NEW t \in Threads, Store(t) \/ Reset(t)
      PROVE  Invariant'
  BY <1>5 DEF Store, Reset
<1>6. ASSUME NEW t \in Threads, Notify(t) \/ Renotify(t)
      PROVE  Invariant'
  BY <1>6 DEF Notify, Renotify, NotifyAll
<1> QED
  BY <1>1, <1>2, <1>3, <1>4, <1>5, <1>6 DEF Next, Continue

\* The invariant holds throughout.
LEMMA Invariance == Spec => []Invariant
<1>1. Init => Invariant
  BY DEF Init, Invariant, TypeOK, WordMatchesRun, DoneBeforeReturn, Running, States, Steps
<1> QED
  BY <1>1, InvariantStep, PTL DEF Spec

\* After the routine has completed it never runs again.
THEOREM OnceDoneIsFinal == Spec => DoneIsFinal
<1>1. Invariant /\ [Next]_vars => [state = "Done" => state' = "Done" /\ Running' = {}]_vars
  <2> SUFFICES ASSUME Invariant, Next, state = "Done"
               PROVE  state' = "Done" /\ Running' = {}
    OBVIOUS
  <2>1. state' = "Done"
    BY DEF Next, Continue, Invariant, TypeOK, WordMatchesRun, DoneBeforeReturn, Running, Goto, NotifyAll, Call, Again,
           Load, Wait, Claim, Mark, Complete, Abandon, Store, Reset, Notify, Renotify
  <2>2. Invariant'
    BY InvariantStep
  <2> QED
    BY <2>1, <2>2 DEF Invariant, WordMatchesRun
<1> QED
  BY <1>1, Invariance, PTL DEF Spec, DoneIsFinal

\* For any number of callers the word of posix_pthread_once matches the run it
\* announces, and no caller sleeps on a word that nobody will change or has yet to
\* notify.
THEOREM OnceIsSafe == Spec => []OnceSafe
<1>1. Init => SleeperIsAnnounced
  BY DEF Init, SleeperIsAnnounced
<1>2. TypeOK /\ SleeperIsAnnounced /\ [Next]_vars => SleeperIsAnnounced'
  <2> SUFFICES ASSUME TypeOK, SleeperIsAnnounced, [Next]_vars
               PROVE  SleeperIsAnnounced'
    OBVIOUS
  <2> USE DEF TypeOK, SleeperIsAnnounced, States, Steps, Goto
  <2>1. CASE UNCHANGED vars
    BY <2>1 DEF vars
  <2>2. ASSUME NEW t \in Threads, Call(t) \/ Again(t) \/ Load(t) \/ Wait(t) \/ Claim(t) \/ Mark(t)
        PROVE  SleeperIsAnnounced'
    BY <2>2 DEF Call, Again, Load, Wait, Claim, Mark
  <2>3. ASSUME NEW t \in Threads, Complete(t) \/ Abandon(t) \/ Store(t) \/ Reset(t)
        PROVE  SleeperIsAnnounced'
    BY <2>3 DEF Complete, Abandon, Store, Reset
  <2>4. ASSUME NEW t \in Threads, Notify(t) \/ Renotify(t)
        PROVE  SleeperIsAnnounced'
    BY <2>4 DEF Notify, Renotify, NotifyAll
  <2> QED
    BY <2>1, <2>2, <2>3, <2>4 DEF Next, Continue
<1> QED
  BY <1>1, <1>2, Invariance, PTL DEF Spec, Invariant, OnceSafe

\* Every behaviour of the code is one that InitOnce allows: one routine at a time,
\* none after one has completed, and no return before that.
THEOREM OnceImplementsInitOnce == Spec => ImplementsInitOnce
<1>1. Init => Promise!Init
  BY DEF Init, Promise!Init, Running
<1>2. Invariant /\ Invariant' /\ [Next]_vars => [Promise!Next]_(Promise!vars)
  <2> SUFFICES ASSUME Invariant, Invariant', [Next]_vars
               PROVE  Promise!Next \/ UNCHANGED Promise!vars
    OBVIOUS
  <2> USE DEF Invariant, TypeOK, WordMatchesRun, DoneBeforeReturn, Running, Goto
  <2>1. CASE UNCHANGED vars
    BY <2>1 DEF vars, Promise!vars
  <2>2. ASSUME NEW t \in Threads, Call(t) \/ Wait(t) \/ Mark(t)
        PROVE  UNCHANGED Promise!vars
    BY <2>2 DEF Call, Wait, Mark, Promise!vars
  <2>3. ASSUME NEW t \in Threads, Again(t)
        PROVE  Promise!Leave(t)
    BY <2>3 DEF Again, Promise!Leave
  <2>4. ASSUME NEW t \in Threads, Load(t)
        PROVE  Promise!Return(t) \/ UNCHANGED Promise!vars
    <3>1. CASE state = "Done"
      BY <2>4, <3>1 DEF Load, Promise!Return
    <3>2. CASE state # "Done"
      BY <2>4, <3>2 DEF Load, Promise!vars, States
    <3> QED
      BY <3>1, <3>2
  <2>5. ASSUME NEW t \in Threads, Claim(t)
        PROVE  Promise!Start(t) \/ UNCHANGED Promise!vars
    <3>1. CASE state = "NeverDone"
      BY <2>5, <3>1 DEF Claim, Promise!Start
    <3>2. CASE state # "NeverDone"
      BY <2>5, <3>2 DEF Claim, Promise!vars
    <3> QED
      BY <3>1, <3>2
  <2>6. ASSUME NEW t \in Threads, Complete(t) \/ Store(t)
        PROVE  Promise!Complete(t) \/ UNCHANGED Promise!vars
    <3>1. CASE state' = "Done"
      BY <2>6, <3>1 DEF Complete, Store, Promise!Complete
    <3>2. CASE state' # "Done"
      BY <2>6, <3>2 DEF Complete, Store, Promise!vars
    <3> QED
      BY <3>1, <3>2
  <2>7. ASSUME NEW t \in Threads, Abandon(t) \/ Reset(t)
        PROVE  Promise!Abandon(t) \/ UNCHANGED Promise!vars
    <3>1. CASE state' = "NeverDone"
      BY <2>7, <3>1 DEF Abandon, Reset, Promise!Abandon
    <3>2. CASE state' # "NeverDone"
      BY <2>7, <3>2 DEF Abandon, Reset, Promise!vars
    <3> QED
      BY <3>1, <3>2
  <2>8. ASSUME NEW t \in Threads, Notify(t) \/ Renotify(t)
        PROVE  Promise!Return(t) \/ UNCHANGED Promise!vars
    BY <2>8 DEF Notify, Renotify, NotifyAll, Promise!Return, Promise!vars
  <2> QED
    BY <2>1, <2>2, <2>3, <2>4, <2>5, <2>6, <2>7, <2>8 DEF Next, Continue, Promise!Next
<1> QED
  BY <1>1, <1>2, Invariance, PTL DEF Spec, ImplementsInitOnce, Promise!Spec
===============================================================================
