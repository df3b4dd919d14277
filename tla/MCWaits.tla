------------------------------- MODULE MCWaits -------------------------------
(***************************************************************************)
(* One run for three components that share nothing and need small           *)
(* instances: POSIX semaphores, under the names of their module, event      *)
(* flags, and the progress of the storage scheduler, whose safety has a run *)
(* of its own.  The one that part names takes its steps; the others stay    *)
(* where they begin.                                                        *)
(***************************************************************************)
EXTENDS PthreadSem, TLC

VARIABLES
    part,
    f_exists, f_mode, f_bits, f_waiters, f_deleted, f_destroyer, f_waiter, f_result, f_ready,
    f_canceled, f_wdeleted, f_notified, f_returned,
    s_impl, s_canceled, s_memory, s_answers, s_discarding, s_run, s_host, s_stop, s_dtor

flagVars == <<f_exists, f_mode, f_bits, f_waiters, f_deleted, f_destroyer, f_waiter, f_result,
              f_ready, f_canceled, f_wdeleted, f_notified, f_returned>>
storageVars == <<s_impl, s_canceled, s_memory, s_answers, s_discarding, s_run, s_host, s_stop,
                 s_dtor>>

Mode(single, fifo) == [single |-> single, fifo |-> fifo]

\* A wait of each kind of clearing.
FlagWait(bits, wait_mode, clear_mode, deadline) ==
    [bits |-> bits, wait_mode |-> wait_mode, clear_mode |-> clear_mode, timed |-> deadline,
     active |-> TRUE]

Flag == INSTANCE EventFlag WITH
        Threads <- {"a", "b", "c"}, NoThread <- "none", Bits <- {1, 2},
        Prio <- [t \in {"a", "b", "c"} |-> IF t = "c" THEN 1 ELSE 2],
        SetPatterns <- {{1}, {2}, {1, 2}}, ClearPatterns <- {{2}}, CancelPatterns <- {{1}},
        WaitRequests <- {FlagWait({1}, "And", "Bits", TRUE), FlagWait({1, 2}, "And", "None", TRUE),
                         FlagWait({1, 2}, "Or", "All", FALSE)},
        Modes <- {Mode(FALSE, TRUE), Mode(FALSE, FALSE), Mode(TRUE, TRUE)},
        exists <- f_exists, mode <- f_mode, m_bits <- f_bits, m_waiters <- f_waiters,
        m_deleted <- f_deleted, destroyer <- f_destroyer, waiter <- f_waiter,
        result <- f_result, ready <- f_ready, canceled <- f_canceled, deleted <- f_wdeleted,
        notified <- f_notified, returned <- f_returned

Read(file, priority, spans) ==
    [file |-> file, offset |-> 0, priority |-> priority, spans |-> spans]

\* A read of two chunks and a more urgent one, which may be empty.
Storage == INSTANCE StorageScheduler WITH
        Requests <- {"r1", "r3"}, NoRequest <- "none", NoFile <- "none",
        Reads <- ("r1" :> {Read("f", 0, <<1, 2>>)})
                 @@ ("r3" :> {Read("g", 1, <<2>>), Read("g", 1, <<>>)}),
        Priorities <- {0, 1}, Faulty <- {"g"}, MaxCancels <- 1, MaxChunkSize <- 2,
        Staging <- {1, 2}, HostWorkers <- {"h1"}, Destroyed <- FALSE,
        impl <- s_impl, canceled <- s_canceled, memory <- s_memory, answers <- s_answers,
        discarding <- s_discarding, run <- s_run, host <- s_host, stop <- s_stop, dtor <- s_dtor

ASSUME PartsAssumption == Flag!EventFlagAssumption

------------------------------------------------------------------------------
PartsInit ==
    /\ part \in {"sem", "flag", "storage"}
    /\ Init /\ Flag!Init /\ Storage!Init

PartsNext ==
    /\ UNCHANGED part
    /\ \/ part = "sem" /\ Next /\ UNCHANGED <<flagVars, storageVars>>
       \/ part = "flag" /\ Flag!Next /\ UNCHANGED <<vars, storageVars>>
       \/ part = "storage" /\ Storage!Next /\ UNCHANGED <<vars, flagVars>>

\* Storage!Fairness, when it is the storage scheduler that moves: its workers have
\* a step to take from the start.
StorageFairness ==
    /\ WF_storageVars(part = "storage" /\ Storage!RunNext)
    /\ WF_storageVars(part = "storage" /\ Storage!HostNext("h1"))
    /\ \A r \in {"r1", "r3"} : WF_storageVars(part = "storage" /\ Storage!CancelDiscard(r))

\* Where the others begin, their fairness asks for nothing.
PartsSpec ==
    /\ PartsInit
    /\ [][PartsNext]_<<part, vars, flagVars, storageVars>>
    /\ Fairness /\ Flag!Fairness /\ StorageFairness

------------------------------------------------------------------------------
(* Properties *)

\* The list of an event flag holds its waiters, none of them could be served by the
\* bits, and a wait that returns ORBIS_OK returns a pattern that satisfies it.
FlagCorrect == [](Flag!ListHoldsWaiters /\ Flag!NoServableWaiter) /\ Flag!ResultSatisfiesWait

\* sceKernelDeleteEventFlag returns: every waiter leaves and the last one tells.
FlagDeleteReturns == Flag!DeleteReturns

\* Every read submitted to the storage scheduler is answered.
ReadsAnswered == Storage!ReadIsAnswered
==============================================================================
