---------------------------- MODULE CountingSem ----------------------------
(***************************************************************************)
(* What a counting semaphore promises: a request is pending until it is     *)
(* granted, which takes its tokens in the same step, or denied, which takes  *)
(* none; a caller is told "OK" exactly when its request was granted.         *)
(***************************************************************************)
EXTENDS Naturals

CONSTANT Threads

VARIABLES
    tokens,   \* tokens available
    request,  \* tokens asked for by the request of a thread
    outcome,  \* "none", "pending", "granted" or "denied"
    result    \* what the thread was last told

vars == <<tokens, request, outcome, result>>

Init ==
    /\ tokens \in Nat
    /\ request = [t \in Threads |-> 0]
    /\ outcome = [t \in Threads |-> "none"]
    /\ result = [t \in Threads |-> "none"]

Told(t, ok) ==
    /\ (result'[t] = "OK") <=> ok
    /\ \A u \in Threads \ {t} : result'[u] = result[u]

\* The semaphore gets a count, at creation or when it is reset, and every
\* pending request is denied.
Reset(t) ==
    /\ tokens' \in Nat
    /\ outcome' = [u \in Threads |-> IF outcome[u] = "pending" THEN "denied" ELSE outcome[u]]
    /\ Told(t, TRUE)
    /\ UNCHANGED request

Post ==
    /\ tokens' \in Nat
    /\ tokens' >= tokens
    /\ UNCHANGED <<request, outcome, result>>

\* A request that is served at once.
Take(t) ==
    /\ outcome[t] = "none"
    /\ tokens' \in Nat
    /\ tokens' <= tokens
    /\ Told(t, TRUE)
    /\ UNCHANGED <<request, outcome>>

Ask(t) ==
    /\ outcome[t] = "none"
    /\ outcome' = [outcome EXCEPT ![t] = "pending"]
    /\ request'[t] \in Nat
    /\ \A u \in Threads \ {t} : request'[u] = request[u]
    /\ result' = [result EXCEPT ![t] = "none"]
    /\ UNCHANGED tokens

Grant(t) ==
    /\ outcome[t] = "pending"
    /\ tokens' \in Nat
    /\ tokens = tokens' + request[t]
    /\ outcome' = [outcome EXCEPT ![t] = "granted"]
    /\ UNCHANGED <<request, result>>

\* The caller learns the outcome; a request still pending is withdrawn.
Finish(t) ==
    /\ outcome[t] # "none"
    /\ Told(t, outcome[t] = "granted")
    /\ outcome' = [outcome EXCEPT ![t] = "none"]
    /\ request' = [request EXCEPT ![t] = 0]
    /\ UNCHANGED tokens

\* A call that changes nothing but what the caller is told.
Answer(t) ==
    /\ outcome[t] = "none"
    /\ \A u \in Threads \ {t} : result'[u] = result[u]
    /\ UNCHANGED <<tokens, request, outcome>>

Next ==
    \/ Post
    \/ \E t \in Threads :
        Reset(t) \/ Take(t) \/ Ask(t) \/ Grant(t) \/ Finish(t) \/ Answer(t)

Spec == Init /\ [][Next]_vars
=============================================================================
