--------------------------- MODULE StorageService ---------------------------
(***************************************************************************)
(* What StorageScheduler promises the callers of SubmitRead: a submitted    *)
(* read is answered by one call of its completion, either with the number   *)
(* of units it had delivered into the spans by then, or as cancelled, which *)
(* needs a Cancel or the end of the scheduler.  Nothing is delivered once   *)
(* the read is answered.                                                    *)
(***************************************************************************)
EXTENDS Integers

CONSTANT Requests

VARIABLES
    phase,      \* "new", "pending" or "done"
    size,       \* units asked for
    delivered,  \* units in the spans
    canceled,   \* Cancel was called
    answer,     \* the arguments of the completion
    closed      \* the scheduler is being destroyed

vars == <<phase, size, delivered, canceled, answer, closed>>

NoAnswer == [result |-> 0, canceled |-> FALSE]

Init ==
    /\ phase = [r \in Requests |-> "new"]
    /\ size = [r \in Requests |-> 0]
    /\ delivered = [r \in Requests |-> 0]
    /\ canceled = [r \in Requests |-> FALSE]
    /\ answer = [r \in Requests |-> NoAnswer]
    /\ closed = FALSE

\* An empty read is answered before SubmitRead returns.
Submit(r, n) ==
    /\ phase[r] = "new"
    /\ ~closed
    /\ phase' = [phase EXCEPT ![r] = IF n = 0 THEN "done" ELSE "pending"]
    /\ size' = [size EXCEPT ![r] = n]
    /\ UNCHANGED <<delivered, canceled, answer, closed>>

Deliver(r, n) ==
    /\ phase[r] = "pending"
    /\ delivered[r] + n <= size[r]
    /\ delivered' = [delivered EXCEPT ![r] = @ + n]
    /\ UNCHANGED <<phase, size, canceled, answer, closed>>

Cancel(S) ==
    /\ \A r \in S : phase[r] # "new"
    /\ canceled' = [r \in Requests |-> canceled[r] \/ r \in S]
    /\ UNCHANGED <<phase, size, delivered, answer, closed>>

AnswerWith(r, result, asCanceled) ==
    /\ phase[r] = "pending"
    /\ phase' = [phase EXCEPT ![r] = "done"]
    /\ answer' = [answer EXCEPT ![r] = [result |-> result, canceled |-> asCanceled]]
    /\ UNCHANGED <<size, delivered, canceled, closed>>

Answer(r) == AnswerWith(r, delivered[r], FALSE)

AnswerCanceled(r) == (canceled[r] \/ closed) /\ AnswerWith(r, -1, TRUE)

Close ==
    /\ closed' = TRUE
    /\ UNCHANGED <<phase, size, delivered, canceled, answer>>

Next ==
    \/ \E r \in Requests :
        \/ size'[r] \in Nat /\ Submit(r, size'[r])
        \/ delivered'[r] - delivered[r] \in Nat /\ Deliver(r, delivered'[r] - delivered[r])
        \/ Cancel({r}) \/ Answer(r) \/ AnswerCanceled(r)
    \/ Close

Spec == Init /\ [][Next]_vars
=============================================================================
