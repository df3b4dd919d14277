------------------------------ MODULE ThreadKeys ------------------------------
(***************************************************************************)
(* Thread-specific data (threads/pthread_spec.cpp): a table of keys that   *)
(* are deleted and used again, an array of values per thread, and the      *)
(* destructor rounds when a thread exits.  The table is guarded by         *)
(* KeytableLock except during destructor calls; setspecific and            *)
(* getspecific read it without.  A value is represented by the birth of    *)
(* the key it was stored under.  A key is not deleted while another thread *)
(* is inside setspecific for it, which makes setspecific one step.         *)
(***************************************************************************)
EXTENDS Integers, FiniteSetsExt

CONSTANTS
    Threads, NoThread,
    PthreadKeysMax,
    PthreadDestructorIterations,
    MaxBirths           \* bound on how many keys are created

ThreadKeysAssumption ==
    /\ NoThread \notin Threads
    /\ PthreadKeysMax \in Nat \ {0}
    /\ PthreadDestructorIterations \in Nat \ {0}
    /\ MaxBirths \in Nat \ {0}

Keys == 0 .. PthreadKeysMax - 1

\* The null pointer; births start at 1.
Null == 0

VARIABLES
    allocated, destructor, seqno,       \* ThreadKeytable
    KeytableLock,
    data, dataSeqno, dataCount,         \* Pthread::specific, specific_data_count
    birth,                              \* which creation made each key, 0 if none
    pc, round, cursor, arg              \* the cleanup of an exiting thread

tableVars == <<allocated, destructor, seqno, birth>>
dataVars == <<data, dataSeqno, dataCount>>
cleanVars == <<round, cursor, arg>>
vars == <<tableVars, KeytableLock, dataVars, pc, cleanVars>>

TypeOK ==
    /\ allocated \in [Keys -> BOOLEAN]
    /\ destructor \in [Keys -> BOOLEAN]
    /\ seqno \in [Keys -> Nat]
    /\ birth \in [Keys -> 0 .. MaxBirths]
    /\ KeytableLock \in Threads \cup {NoThread}
    /\ data \in [Threads -> [Keys -> 0 .. MaxBirths]]
    /\ dataSeqno \in [Threads -> [Keys -> Nat]]
    /\ dataCount \in [Threads -> 0 .. PthreadKeysMax]
    /\ pc \in [Threads -> {"run", "scan", "destructor", "gone"}]
    /\ round \in [Threads -> 0 .. PthreadDestructorIterations]
    /\ cursor \in [Threads -> 0 .. PthreadKeysMax]
    /\ arg \in [Threads -> 0 .. MaxBirths]

Init ==
    /\ allocated = [k \in Keys |-> FALSE]
    /\ destructor = [k \in Keys |-> FALSE]
    /\ seqno = [k \in Keys |-> 0]
    /\ birth = [k \in Keys |-> 0]
    /\ KeytableLock = NoThread
    /\ data = [t \in Threads |-> [k \in Keys |-> Null]]
    /\ dataSeqno = [t \in Threads |-> [k \in Keys |-> 0]]
    /\ dataCount = [t \in Threads |-> 0]
    /\ pc = [t \in Threads |-> "run"]
    /\ round = [t \in Threads |-> 0]
    /\ cursor = [t \in Threads |-> 0]
    /\ arg = [t \in Threads |-> Null]

\* Guest code runs: the thread's own, or a destructor's.
Running(t) == pc[t] \in {"run", "destructor"}

\* Creations are numbered, so that a value tells which key it was stored under.
NextBirth == 1 + Max({birth[k] : k \in Keys})

-------------------------------------------------------------------------------
\* Mutant: a key that is used again keeps its sequence number.
KeyCreateSameSeqno(t, k, dtor) ==
    /\ Running(t)
    /\ KeytableLock = NoThread
    /\ ~allocated[k] /\ \A j \in Keys : j < k => allocated[j]
    /\ NextBirth <= MaxBirths
    /\ allocated' = [allocated EXCEPT ![k] = TRUE]
    /\ destructor' = [destructor EXCEPT ![k] = dtor]
    /\ birth' = [birth EXCEPT ![k] = NextBirth]
    /\ UNCHANGED <<seqno, KeytableLock, dataVars, pc, cleanVars>>

\* The first free key.
KeyCreate(t, k, dtor) ==
    /\ Running(t)
    /\ KeytableLock = NoThread
    /\ ~allocated[k] /\ \A j \in Keys : j < k => allocated[j]
    /\ NextBirth <= MaxBirths
    /\ allocated' = [allocated EXCEPT ![k] = TRUE]
    /\ destructor' = [destructor EXCEPT ![k] = dtor]
    /\ seqno' = [seqno EXCEPT ![k] = @ + 1]
    /\ birth' = [birth EXCEPT ![k] = NextBirth]
    /\ UNCHANGED <<KeytableLock, dataVars, pc, cleanVars>>

\* The values that threads have under the key stay where they are.
KeyDelete(t, k) ==
    /\ Running(t)
    /\ KeytableLock = NoThread
    /\ allocated[k]
    /\ allocated' = [allocated EXCEPT ![k] = FALSE]
    /\ UNCHANGED <<destructor, seqno, birth, KeytableLock, dataVars, pc, cleanVars>>

\* How the number of values of t changes.
DataCountChange(t, k, value) ==
    IF data[t][k] = Null
    THEN (IF value # Null THEN 1 ELSE 0)
    ELSE (IF value = Null THEN -1 ELSE 0)

SetSpecific(t, k, value) ==
    /\ Running(t)
    /\ allocated[k]
    /\ dataCount' = [dataCount EXCEPT ![t] = @ + DataCountChange(t, k, value)]
    /\ data' = [data EXCEPT ![t][k] = value]
    /\ dataSeqno' = [dataSeqno EXCEPT ![t][k] = seqno[k]]
    /\ UNCHANGED <<tableVars, KeytableLock, pc, cleanVars>>

\* What getspecific returns.
GetSpecific(t, k) ==
    IF allocated[k] /\ dataSeqno[t][k] = seqno[k] THEN data[t][k] ELSE Null

-------------------------------------------------------------------------------
(* _thread_cleanupspecific *)

CleanupBegin(t) ==
    /\ pc[t] = "run"
    /\ KeytableLock = NoThread
    /\ KeytableLock' = t
    /\ pc' = [pc EXCEPT ![t] = "scan"]
    /\ UNCHANGED <<tableVars, dataVars, cleanVars>>

CleanupDone(t) == dataCount[t] = 0 \/ round[t] = PthreadDestructorIterations

\* The value is handed to a destructor.
HasDestructor(t, k) == allocated[k] /\ dataSeqno[t][k] = seqno[k] /\ destructor[k]

\* The value under the cursor is cleared first, then passed to its destructor.
CleanupScan(t) ==
    /\ pc[t] = "scan"
    /\ ~CleanupDone(t)
    /\ cursor[t] < PthreadKeysMax
    /\ LET k == cursor[t] IN
       /\ data' = [data EXCEPT ![t][k] = Null]
       /\ dataCount' = [dataCount EXCEPT ![t] = IF data[t][k] # Null THEN @ - 1 ELSE @]
       /\ IF data[t][k] # Null /\ HasDestructor(t, k)
          THEN /\ pc' = [pc EXCEPT ![t] = "destructor"]
               /\ arg' = [arg EXCEPT ![t] = data[t][k]]
               /\ KeytableLock' = NoThread
          ELSE UNCHANGED <<pc, arg, KeytableLock>>
    /\ cursor' = [cursor EXCEPT ![t] = @ + 1]
    /\ UNCHANGED <<tableVars, dataSeqno, round>>

\* Mutant: the rounds are not counted.
CleanupRoundUncounted(t) ==
    /\ pc[t] = "scan"
    /\ ~CleanupDone(t)
    /\ cursor[t] = PthreadKeysMax
    /\ cursor' = [cursor EXCEPT ![t] = 0]
    /\ UNCHANGED <<tableVars, KeytableLock, dataVars, pc, round, arg>>

CleanupRound(t) ==
    /\ pc[t] = "scan"
    /\ ~CleanupDone(t)
    /\ cursor[t] = PthreadKeysMax
    /\ round' = [round EXCEPT ![t] = @ + 1]
    /\ cursor' = [cursor EXCEPT ![t] = 0]
    /\ UNCHANGED <<tableVars, KeytableLock, dataVars, pc, arg>>

\* The destructor returns.
DestructorEnd(t) ==
    /\ pc[t] = "destructor"
    /\ KeytableLock = NoThread
    /\ KeytableLock' = t
    /\ pc' = [pc EXCEPT ![t] = "scan"]
    /\ arg' = [arg EXCEPT ![t] = Null]
    /\ UNCHANGED <<tableVars, dataVars, round, cursor>>

CleanupEnd(t) ==
    /\ pc[t] = "scan"
    /\ CleanupDone(t)
    /\ KeytableLock' = NoThread
    /\ pc' = [pc EXCEPT ![t] = "gone"]
    /\ UNCHANGED <<tableVars, dataVars, cleanVars>>

-------------------------------------------------------------------------------
Cleanup(t) == CleanupScan(t) \/ CleanupRound(t) \/ DestructorEnd(t) \/ CleanupEnd(t)

Next ==
    \E t \in Threads :
        \/ Cleanup(t) \/ CleanupBegin(t)
        \/ \E k \in Keys :
            \/ \E dtor \in BOOLEAN : KeyCreate(t, k, dtor)
            \/ KeyDelete(t, k)
            \/ \E value \in {Null, birth[k]} : SetSpecific(t, k, value)

Spec == Init /\ [][Next]_vars

\* Exiting threads are scheduled, destructors return, and KeytableLock starves nobody.
Fairness == \A t \in Threads : WF_vars(Cleanup(t)) /\ SF_vars(DestructorEnd(t))

FairSpec == Spec /\ Fairness

-------------------------------------------------------------------------------
\* getspecific never returns a value stored under a key that was deleted since, even
\* when the same slot of the table has become a key again.
NoValueOfOldKey ==
    \A t \in Threads, k \in Keys : GetSpecific(t, k) \in {Null, birth[k]}

\* specific_data_count is the number of values a thread has, of keys alive, deleted or
\* used again; the cleanup loops stop by it.
CountMatches ==
    /\ TypeOK
    /\ \A t \in Threads : dataCount[t] = Cardinality({k \in Keys : data[t][k] # Null})

\* A destructor gets a value of its own key, and "the destructor is not invoked" for a
\* key that was deleted first.
DestructorOfItsKey ==
    [][\A t \in Threads : pc[t] = "scan" /\ pc'[t] = "destructor" =>
           allocated[cursor[t]] /\ arg'[t] = birth[cursor[t]]]_vars

\* Destructors that store values again do not keep a thread from exiting.
CleanupEnds == \A t \in Threads : pc[t] = "scan" ~> pc[t] = "gone"
===============================================================================
