------------------------------ MODULE MCThreads ------------------------------
(***************************************************************************)
(* One run for three parts of libkernel that share nothing and need small   *)
(* instances: pthread_once, under the names of its module, reader/writer    *)
(* locks and thread-specific data.  The one that part names takes its       *)
(* steps; the others stay where they begin.                                 *)
(***************************************************************************)
EXTENDS Once

VARIABLES
    part,
    rw_readers, rw_writer_active, rw_owner, rw_rdlock_count, rw_pc, rw_timed, rw_reads, rw_writes,
    k_allocated, k_destructor, k_seqno, k_lock, k_data, k_dataSeqno, k_dataCount, k_birth, k_pc,
    k_round, k_cursor, k_arg

rwVars == <<rw_readers, rw_writer_active, rw_owner, rw_rdlock_count, rw_pc, rw_timed, rw_reads,
            rw_writes>>
keyVars == <<k_allocated, k_destructor, k_seqno, k_lock, k_data, k_dataSeqno, k_dataCount,
             k_birth, k_pc, k_round, k_cursor, k_arg>>

RW == INSTANCE RwLock WITH
        Threads <- {"a", "b", "c"}, NoThread <- "none", MaxReads <- 2, Deadlines <- BOOLEAN,
        readers <- rw_readers, writer_active <- rw_writer_active, owner <- rw_owner,
        rdlock_count <- rw_rdlock_count, pc <- rw_pc, timed <- rw_timed, reads <- rw_reads,
        writes <- rw_writes

Keys == INSTANCE ThreadKeys WITH
        Threads <- {"a", "b"}, NoThread <- "none", PthreadKeysMax <- 2,
        PthreadDestructorIterations <- 2, MaxBirths <- 2,
        allocated <- k_allocated, destructor <- k_destructor, seqno <- k_seqno,
        KeytableLock <- k_lock, data <- k_data, dataSeqno <- k_dataSeqno,
        dataCount <- k_dataCount, birth <- k_birth, pc <- k_pc, round <- k_round,
        cursor <- k_cursor, arg <- k_arg

ASSUME PartsAssumption == RW!RwLockAssumption /\ Keys!ThreadKeysAssumption

------------------------------------------------------------------------------
PartsInit ==
    /\ part \in {"once", "rwlock", "keys"}
    /\ Init /\ RW!Init /\ Keys!Init

PartsNext ==
    /\ UNCHANGED part
    /\ \/ part = "once" /\ Next /\ UNCHANGED <<rwVars, keyVars>>
       \/ part = "rwlock" /\ RW!Next /\ UNCHANGED <<vars, keyVars>>
       \/ part = "keys" /\ Keys!Next /\ UNCHANGED <<vars, rwVars>>

\* The fairness of each module, for the part that moves; where the others begin,
\* their fairness asks for nothing.
PartsFairness ==
    /\ \A t \in Threads : WF_vars(part = "once" /\ Continue(t))
    /\ \A t \in {"a", "b", "c"} :
        /\ WF_rwVars(part = "rwlock" /\ RW!Continue(t))
        /\ WF_rwVars(part = "rwlock" /\ RW!UnlockBegin(t))
    /\ \A t \in {"a", "b"} :
        /\ WF_keyVars(part = "keys" /\ Keys!Cleanup(t))
        /\ SF_keyVars(part = "keys" /\ Keys!DestructorEnd(t))

PartsSpec ==
    /\ PartsInit
    /\ [][PartsNext]_<<part, vars, rwVars, keyVars>>
    /\ PartsFairness

------------------------------------------------------------------------------
(* Properties *)

\* A writer is alone, the counts of rwlock.cpp and of SharedFirstMutex agree though
\* they change in different steps, and no thread sleeps without a reason.
LocksSafe == RW!LocksSafe

\* A reader that sleeps in SharedFirstMutex is woken when the writer gives the lock back.
ReadersWake == RW!SleepingReaderWakes

\* getspecific returns nothing that was stored under a key deleted since, the count
\* by which _thread_cleanupspecific stops is the number of values, and a destructor
\* gets a value of its own key, which is alive.
KeysCorrect == [](Keys!NoValueOfOldKey /\ Keys!CountMatches) /\ Keys!DestructorOfItsKey

\* _thread_cleanupspecific ends although destructors store values again.
KeyCleanupEnds == Keys!CleanupEnds
==============================================================================
