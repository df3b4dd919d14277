--------------------------- MODULE OrbisSemCounting ---------------------------
(***************************************************************************)
(* The kernel semaphore of OrbisSem implements the counting semaphore of   *)
(* CountingSem.                                                            *)
(***************************************************************************)
EXTENDS OrbisSem

\* The promise: tokens are neither lost nor handed out twice.
Abstract ==
    INSTANCE CountingSem WITH
        tokens <- token_count,
        request <- [t \in Threads |-> IF Waiting(t) THEN need_count[t] ELSE 0],
        outcome <- [t \in Threads |->
                        CASE ~Waiting(t) -> "none"
                          [] Waiting(t) /\ was[t] = "none" -> "pending"
                          [] Waiting(t) /\ was[t] = "signaled" -> "granted"
                          [] OTHER -> "denied"],
        result <- ret

\* Each call returns ORBIS_OK from a wait exactly when its tokens were taken:
\* the semaphore implements a counting semaphore whose requests are granted or
\* denied atomically.
ImplementsCountingSem == Abstract!Spec
===============================================================================
