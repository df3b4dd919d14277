--------------------------------- MODULE Aio ---------------------------------
(***************************************************************************)
(* Asynchronous I/O (core/libraries/kernel/aio.cpp).  A submission makes a  *)
(* record for its commands, or one for each; a command is a scheduled read, *)
(* which StorageService answers, or an operation of the AIO worker.  The    *)
(* thread that has an answer runs Complete, whose steps are loads, stores   *)
(* and short critical sections, beside guest threads that submit, cancel,   *)
(* wait and delete.                                                         *)
(*                                                                          *)
(* A record is a number in order of creation.  Its id, a slot and the       *)
(* generation of the slot, resolves to it while it is in the table and to   *)
(* nothing afterwards: 2^22 - 1 reuses of the slot, after which generations *)
(* repeat, are beyond the bounds.  The data of a command are abstract:      *)
(* whether its buffer was written, and the state of its result.             *)
(***************************************************************************)
EXTENDS Integers, SequencesExt

CONSTANTS
    Guests,             \* guest threads
    Submitters,         \* the ones that submit commands
    Watchers,           \* the ones that cancel, wait and delete
    Hdd, AioWork,       \* the storage worker and the AIO worker
    Batches,            \* for the values of MaxRequests that are tried, what a submission
                        \* may be: sequences of kinds
    MaxCommands         \* bound on the commands submitted, and so on the records

ASSUME AioAssumption ==
    /\ Hdd \notin Guests /\ AioWork \notin Guests /\ Hdd # AioWork
    /\ DOMAIN Batches \subseteq Nat \ {0, 1}
    /\ \A n \in DOMAIN Batches : Batches[n] \subseteq Seq({"scheduled", "empty", "bad", "native"})
    /\ MaxCommands \in Nat
    /\ Submitters \subseteq Guests /\ Watchers \subseteq Guests

VARIABLES
    max_requests,                       \* MaxRequests: slots are 1 .. max_requests - 1
    records, next_slot,                 \* AioManager, under records_mutex
    record, made,                       \* the AioRecords
    command, used,                      \* rec and kind of a command
    result,                             \* OrbisKernelAioResult::state of a command
    buffer,                             \* whether the AIO worker wrote the buffer
    work, native,                       \* AioManager::work, and what the worker runs
    call,                               \* the call a guest thread is in
    completing,                         \* the Complete a thread is in
    deleted,                            \* records removed by a successful delete
    phase, size, delivered, canceled, answer, closed

Commands == 1 .. MaxCommands
Records == Commands
Slots == 1 .. max_requests - 1
Actors == Submitters \cup {Hdd, AioWork}

Storage == INSTANCE StorageService WITH Requests <- Commands

managerVars == <<max_requests, records, next_slot>>
recordVars == <<record, made>>
commandVars == <<command, used, result, buffer>>
workVars == <<work, native>>
storageVars == <<phase, size, delivered, canceled, answer, closed>>
vars == <<managerVars, recordVars, commandVars, workVars, call, completing, deleted, storageVars>>

NoCall == [step |-> "idle", cmds |-> <<>>, multiple |-> FALSE, next |-> 1, recs |-> <<>>,
           awaited |-> {}, any |-> FALSE, missed |-> FALSE]

NoCompletion == [step |-> "idle", cmd |-> 0, failed |-> FALSE, canceled |-> FALSE]

Init ==
    /\ max_requests \in DOMAIN Batches
    /\ records = [s \in Slots |-> 0]
    /\ next_slot = 1
    /\ record = [r \in Records |-> [state |-> "none", remaining |-> 0,
                                    cancel_requested |-> FALSE, abort_on_error |-> FALSE,
                                    storage_requests |-> {}]]
    /\ made = 0
    /\ command = [k \in Commands |-> [rec |-> 0, kind |-> "none"]]
    /\ used = 0
    /\ result = [k \in Commands |-> "none"]
    /\ buffer = [k \in Commands |-> FALSE]
    /\ work = <<>> /\ native = 0
    /\ call = [g \in Guests |-> NoCall]
    /\ completing = [a \in Actors |-> NoCompletion]
    /\ deleted = {}
    /\ Storage!Init

Finished(r) == record[r].state \in {"COMPLETED", "ABORTED"}

\* Lookup: the ids of the records in the table are the ones that resolve.
Live == {records[s] : s \in Slots} \ {0}

Goto(g, step) == call' = [call EXCEPT ![g].step = step]

Return(g) == call' = [call EXCEPT ![g] = NoCall]

Publish(cmds, state) ==
    result' = [k \in Commands |-> IF Contains(cmds, k) THEN state ELSE result[k]]

------------------------------------------------------------------------------
(* Complete *)

StartComplete(a, k, failed, wasCanceled) ==
    completing' = [completing EXCEPT ![a] =
                       [step |-> "publish", cmd |-> k, failed |-> failed, canceled |-> wasCanceled]]

\* A cancel between the load of cancel_requested and the result comes too late.
CompletePublish(a) ==
    /\ completing[a].step = "publish"
    /\ LET c == completing[a]
           cancellation == c.canceled \/ record[command[c.cmd].rec].cancel_requested
       IN  /\ Publish(<<c.cmd>>, IF cancellation \/ c.failed THEN "ABORTED" ELSE "COMPLETED")
           /\ completing' = [completing EXCEPT ![a].step = "count", ![a].canceled = cancellation]
    /\ UNCHANGED <<managerVars, recordVars, command, used, buffer, workVars, call, deleted,
                   storageVars>>

\* Mutant: every completion finishes the record.
CompleteCountAny(a) ==
    /\ completing[a].step = "count"
    /\ LET r == command[completing[a].cmd].rec
       IN  record' = [record EXCEPT ![r].remaining = @ - 1]
    /\ completing' = [completing EXCEPT ![a].step = "finish"]
    /\ UNCHANGED <<managerVars, made, commandVars, workVars, call, deleted, storageVars>>

CompleteCount(a) ==
    /\ completing[a].step = "count"
    /\ LET r == command[completing[a].cmd].rec
       IN  /\ record' = [record EXCEPT ![r].remaining = @ - 1]
           /\ completing' = [completing EXCEPT ![a] =
                                IF record[r].remaining = 1 THEN [@ EXCEPT !.step = "finish"]
                                                           ELSE NoCompletion]
    /\ UNCHANGED <<managerVars, made, commandVars, workVars, call, deleted, storageVars>>

\* Mutant: nobody is told that the record is finished.
CompleteFinishSilently(a) ==
    /\ completing[a].step = "finish"
    /\ LET r == command[completing[a].cmd].rec
           c == completing[a]
           abort == c.canceled \/ (c.failed /\ record[r].abort_on_error)
       IN  record' = [record EXCEPT ![r].storage_requests = {},
                                    ![r].state = IF abort THEN "ABORTED" ELSE "COMPLETED"]
    /\ completing' = [completing EXCEPT ![a] = NoCompletion]
    /\ UNCHANGED <<managerVars, made, commandVars, workVars, call, deleted, storageVars>>

CompleteFinish(a) ==
    /\ completing[a].step = "finish"
    /\ LET r == command[completing[a].cmd].rec
           c == completing[a]
           abort == c.canceled \/ (c.failed /\ record[r].abort_on_error)
       IN  record' = [record EXCEPT ![r].storage_requests = {},
                                    ![r].state = IF abort THEN "ABORTED" ELSE "COMPLETED"]
    /\ completing' = [completing EXCEPT ![a].step = "notify"]
    /\ UNCHANGED <<managerVars, made, commandVars, workVars, call, deleted, storageVars>>

\* wait_cv.notify_all() without wait_mutex: a waiter that has found its predicate
\* false and is not yet asleep misses it.
CompleteNotify(a) ==
    /\ completing[a].step = "notify"
    /\ completing' = [completing EXCEPT ![a] = NoCompletion]
    /\ call' = [g \in Guests |-> CASE call[g].step = "asleep" -> [call[g] EXCEPT !.step = "check"]
                                   [] call[g].step = "checked" -> [call[g] EXCEPT !.missed = TRUE]
                                   [] OTHER -> call[g]]
    /\ UNCHANGED <<managerVars, recordVars, commandVars, workVars, deleted, storageVars>>

Complete(a) ==
    CompletePublish(a) \/ CompleteCount(a) \/ CompleteFinish(a)
    \/ CompleteNotify(a)

Busy(a) == completing[a].step # "idle"

------------------------------------------------------------------------------
(* SubmitCommands *)

\* The commands are checked and their results say SUBMITTED.
Submit(g, batch, multiple) ==
    /\ call[g].step = "idle"
    /\ used + Len(batch) <= MaxCommands
    /\ LET cmds == [i \in DOMAIN batch |-> used + i]
       IN  /\ call' = [call EXCEPT ![g] = [NoCall EXCEPT !.step = "allocate", !.cmds = cmds,
                                                         !.multiple = multiple]]
           /\ command' = [k \in Commands |->
                             IF Contains(cmds, k) THEN [rec |-> 0, kind |-> batch[k - used]]
                                                  ELSE command[k]]
           /\ Publish(cmds, "SUBMITTED")
    /\ used' = used + Len(batch)
    /\ UNCHANGED <<managerVars, recordVars, buffer, workVars, completing, deleted, storageVars>>

\* Allocate goes once around the slots, past the ones whose record is in flight.
Usable(s) == records[s] \notin {r \in Records : ~Finished(r)}

After(s) == IF s = max_requests - 1 THEN 1 ELSE s + 1

Distance(s) == (s - next_slot) % (max_requests - 1)

AllocatedSlot == CHOOSE s \in Slots : Usable(s) /\ \A t \in Slots : Usable(t) =>
                                                     Distance(s) <= Distance(t)

Allocate(g) ==
    /\ call[g].step = "allocate"
    /\ \E s \in Slots : Usable(s)
    /\ LET r == made + 1
           c == call[g]
           mine == IF c.multiple THEN <<c.cmds[c.next]>> ELSE c.cmds
           last == ~c.multiple \/ c.next = Len(c.cmds)
       IN  /\ records' = [records EXCEPT ![AllocatedSlot] = r]
           /\ next_slot' = After(AllocatedSlot)
           /\ record' = [record EXCEPT ![r].state = "PROCESSING", ![r].remaining = Len(mine),
                                       ![r].abort_on_error = c.multiple]
           /\ command' = [k \in Commands |-> IF Contains(mine, k) THEN [command[k] EXCEPT !.rec = r]
                                                                  ELSE command[k]]
           /\ call' = [call EXCEPT ![g].recs = Append(@, r),
                                   ![g].step = IF last THEN "issue" ELSE "allocate",
                                   ![g].next = IF last THEN 1 ELSE @ + 1]
    /\ made' = made + 1
    /\ UNCHANGED <<max_requests, used, result, buffer, workVars, completing, deleted,
                   storageVars>>

\* No slot: the records made so far are removed one by one, and every command fails.
AllocateFailed(g) ==
    /\ call[g].step = "allocate"
    /\ \A s \in Slots : ~Usable(s)
    /\ Goto(g, "abandon")
    /\ UNCHANGED <<managerVars, recordVars, commandVars, workVars, completing, deleted,
                   storageVars>>

Abandon(g) ==
    /\ call[g].step = "abandon"
    /\ IF call[g].recs # <<>>
       THEN /\ records' = [s \in Slots |-> IF records[s] = Head(call[g].recs) THEN 0
                                                                              ELSE records[s]]
            /\ call' = [call EXCEPT ![g].recs = Tail(@)]
            /\ UNCHANGED result
       ELSE /\ Publish(call[g].cmds, "ABORTED")
            /\ Return(g)
            /\ UNCHANGED records
    /\ UNCHANGED <<max_requests, next_slot, recordVars, command, used, buffer, workVars, completing, deleted,
                   storageVars>>

\* The next command goes to the storage scheduler or to the AIO worker, or fails.
Issue(g) ==
    /\ call[g].step = "issue"
    /\ ~Busy(g)
    /\ call[g].next <= Len(call[g].cmds)
    /\ LET k == call[g].cmds[call[g].next]
       IN  /\ Publish(<<k>>, "PROCESSING")
           /\ \/ /\ command[k].kind = "scheduled"
                 /\ Storage!Submit(k, 1)
                 /\ Goto(g, "attach")
                 /\ UNCHANGED <<work, completing>>
              \/ /\ command[k].kind = "empty"
                 /\ Storage!Submit(k, 0)
                 /\ StartComplete(g, k, FALSE, FALSE)
                 /\ Goto(g, "attach")
                 /\ UNCHANGED work
              \/ /\ command[k].kind = "bad"
                 /\ StartComplete(g, k, TRUE, FALSE)
                 /\ call' = [call EXCEPT ![g].next = @ + 1]
                 /\ UNCHANGED <<work, storageVars>>
              \/ /\ command[k].kind = "native"
                 /\ work' = Append(work, k)
                 /\ call' = [call EXCEPT ![g].next = @ + 1]
                 /\ UNCHANGED <<completing, storageVars>>
    /\ UNCHANGED <<managerVars, recordVars, command, used, buffer, native, deleted>>

\* Mutant: a cancel that came before the attachment is not looked for.
AttachUnchecked(g) ==
    /\ call[g].step = "attach"
    /\ ~Busy(g)
    /\ LET k == call[g].cmds[call[g].next]
           r == command[k].rec
       IN  record' = [record EXCEPT ![r].storage_requests = IF Finished(r) THEN @ ELSE @ \cup {k}]
    /\ call' = [call EXCEPT ![g].step = "issue", ![g].next = @ + 1]
    /\ UNCHANGED <<managerVars, made, commandVars, workVars, completing, deleted, storageVars>>

\* AttachStorageRequest, under the mutex of the record.
Attach(g) ==
    /\ call[g].step = "attach"
    /\ ~Busy(g)
    /\ LET k == call[g].cmds[call[g].next]
           r == command[k].rec
       IN  /\ Storage!Cancel(IF record[r].cancel_requested THEN {k} ELSE {})
           /\ record' = [record EXCEPT ![r].storage_requests = IF Finished(r) THEN @ ELSE @ \cup {k}]
    /\ call' = [call EXCEPT ![g].step = "issue", ![g].next = @ + 1]
    /\ UNCHANGED <<managerVars, made, commandVars, workVars, completing, deleted>>

SubmitReturn(g) ==
    /\ call[g].step = "issue"
    /\ ~Busy(g)
    /\ call[g].next > Len(call[g].cmds)
    /\ Return(g)
    /\ UNCHANGED <<managerVars, recordVars, commandVars, workVars, completing, deleted,
                   storageVars>>

------------------------------------------------------------------------------
(* The other calls.  An id can be used as soon as SubmitCommands has stored it. *)

\* Cancel: the flag first, then the attached requests under the mutex of the record.
Cancel(g, r) ==
    /\ call[g].step = "idle"
    /\ r \in Live
    /\ ~Finished(r)
    /\ record' = [record EXCEPT ![r].cancel_requested = TRUE]
    /\ call' = [call EXCEPT ![g].step = "cancel", ![g].recs = <<r>>]
    /\ UNCHANGED <<managerVars, made, commandVars, workVars, completing, deleted, storageVars>>

CancelStorage(g) ==
    /\ call[g].step = "cancel"
    /\ Storage!Cancel(record[Head(call[g].recs)].storage_requests)
    /\ Return(g)
    /\ UNCHANGED <<managerVars, recordVars, commandVars, workVars, completing, deleted>>

\* Mutant: a record in flight is deleted.
DeleteInFlight(g, r) ==
    /\ call[g].step = "idle"
    /\ r \in Live
    /\ records' = [s \in Slots |-> IF records[s] = r THEN 0 ELSE records[s]]
    /\ deleted' = deleted \cup {r}
    /\ UNCHANGED <<max_requests, next_slot, recordVars, commandVars, workVars, call, completing,
                   storageVars>>

Delete(g, r) ==
    /\ call[g].step = "idle"
    /\ r \in Live
    /\ Finished(r)
    /\ records' = [s \in Slots |-> IF records[s] = r THEN 0 ELSE records[s]]
    /\ deleted' = deleted \cup {r}
    /\ UNCHANGED <<max_requests, next_slot, recordVars, commandVars, workVars, call, completing, storageVars>>

\* For one record the modes AND and OR agree.
Wait(g, recs, any) ==
    /\ call[g].step = "idle"
    /\ recs \subseteq Live
    /\ any => Cardinality(recs) > 1
    /\ call' = [call EXCEPT ![g] = [NoCall EXCEPT !.step = "check", !.awaited = recs, !.any = any]]
    /\ UNCHANGED <<managerVars, recordVars, commandVars, workVars, completing, deleted,
                   storageVars>>

Predicate(g) ==
    IF call[g].any THEN \E r \in call[g].awaited : Finished(r)
                   ELSE \A r \in call[g].awaited : Finished(r)

\* wait_mutex is held from the predicate to the sleep.
WaitMutexFree == \A g \in Guests : call[g].step # "checked"

WaitStep(g) ==
    /\ \/ /\ call[g].step = "check" /\ WaitMutexFree
          /\ IF Predicate(g) THEN Return(g) ELSE Goto(g, "checked")
       \/ /\ call[g].step = "checked"
          /\ Goto(g, "asleep")
    /\ UNCHANGED <<managerVars, recordVars, commandVars, workVars, completing, deleted,
                   storageVars>>

\* A wait that has a timeout gives up.
WaitTimeout(g) ==
    /\ call[g].step = "asleep"
    /\ Return(g)
    /\ UNCHANGED <<managerVars, recordVars, commandVars, workVars, completing, deleted,
                   storageVars>>

------------------------------------------------------------------------------
(* The storage worker, as StorageService describes it, and the AIO worker *)

HddDeliver(k) ==
    /\ ~Busy(Hdd)
    /\ Storage!Deliver(k, 1)
    /\ UNCHANGED <<managerVars, recordVars, commandVars, workVars, call, completing, deleted>>

HddAnswer(k) ==
    /\ ~Busy(Hdd)
    /\ Storage!Answer(k) \/ Storage!AnswerCanceled(k)
    /\ StartComplete(Hdd, k, answer'[k].result < 0, answer'[k].canceled)
    /\ UNCHANGED <<managerVars, recordVars, commandVars, workVars, call, deleted>>

\* Mutant: an operation of a cancelled record is dropped.
WorkTakeDrops ==
    /\ ~Busy(AioWork)
    /\ native = 0
    /\ work # <<>>
    /\ work' = Tail(work)
    /\ native' = IF record[command[Head(work)].rec].cancel_requested THEN 0 ELSE Head(work)
    /\ UNCHANGED <<managerVars, recordVars, commandVars, call, completing, deleted, storageVars>>

\* An operation of a cancelled record is not started.
WorkTake ==
    /\ ~Busy(AioWork)
    /\ native = 0
    /\ work # <<>>
    /\ work' = Tail(work)
    /\ IF record[command[Head(work)].rec].cancel_requested
       THEN StartComplete(AioWork, Head(work), TRUE, TRUE) /\ UNCHANGED native
       ELSE native' = Head(work) /\ UNCHANGED completing
    /\ UNCHANGED <<managerVars, recordVars, commandVars, call, deleted, storageVars>>

\* ReadNative or WriteNative.
WorkRun ==
    /\ native # 0
    /\ \E ok \in BOOLEAN :
        /\ buffer' = [buffer EXCEPT ![native] = ok]
        /\ StartComplete(AioWork, native, ~ok, FALSE)
    /\ native' = 0
    /\ UNCHANGED <<managerVars, recordVars, command, used, result, work, call, deleted,
                   storageVars>>

------------------------------------------------------------------------------
GuestGoesOn(g) ==
    Allocate(g) \/ AllocateFailed(g) \/ Abandon(g) \/ Issue(g) \/ Attach(g) \/ SubmitReturn(g)
    \/ CancelStorage(g) \/ WaitStep(g)

GuestCalls ==
    \/ \E g \in Submitters, batch \in Batches[max_requests], multiple \in BOOLEAN :
          Submit(g, batch, multiple)
    \/ \E g \in Watchers, r \in Live : Cancel(g, r) \/ Delete(g, r)
    \/ \E g \in Watchers, recs \in SUBSET Live \ {{}}, any \in BOOLEAN : Wait(g, recs, any)
    \/ \E g \in Watchers : WaitTimeout(g)

Next ==
    \/ \E a \in Actors : Complete(a)
    \/ \E g \in Guests : GuestGoesOn(g)
    \/ GuestCalls
    \/ \E k \in Commands : HddDeliver(k) \/ HddAnswer(k)
    \/ WorkTake
    \/ WorkRun

\* The threads run, and StorageService answers what it was given.
Fairness ==
    /\ \A a \in Actors : WF_vars(Complete(a))
    /\ \A g \in Guests : WF_vars(GuestGoesOn(g))
    /\ WF_vars(\E k \in Commands : HddAnswer(k))
    /\ WF_vars(WorkTake \/ WorkRun)

Spec == Init /\ [][Next]_vars /\ Fairness

------------------------------------------------------------------------------
(* Properties *)

Final(k) == result[k] \in {"COMPLETED", "ABORTED"}

\* A record is finished only when every command of it has its final result and
\* no thread will touch its buffer again: the count of Complete, taken by up to
\* three threads, reaches zero after the last PublishResult.
FinishedHasResults ==
    \A k \in Commands :
        command[k].rec # 0 /\ Finished(command[k].rec) =>
            Final(k) /\ phase[k] # "pending" /\ native # k /\ ~Contains(work, k)

\* A Cancel that has returned has reached every storage request of the record,
\* also one that SubmitCommands was about to attach when it came.
CancelReachesStorage ==
    \A k \in Commands :
        LET r == command[k].rec
        IN  phase[k] = "pending" /\ r # 0 /\ record[r].cancel_requested =>
              \/ canceled[k]
              \/ \E g \in Guests : call[g].step = "cancel" /\ Head(call[g].recs) = r
              \/ \E g \in Guests : call[g].step = "attach" /\ call[g].cmds[call[g].next] = k

\* A waiter sleeps beside records that satisfy it only if the notification is
\* still to come or fell between its predicate and its sleep: that window is the
\* only one in which a wake-up is lost.
WakeMissedOnlyInWindow ==
    \A g \in Guests :
        call[g].step = "asleep" /\ Predicate(g) =>
            \/ call[g].missed
            \/ \E a \in Actors : completing[a].step = "notify"

\* The comment at Delete: "no completion can publish into guest memory after a
\* successful delete"; nor does one once the result of the command is final.
NothingAfterTheEnd ==
    [][\A k \in Commands :
          Final(k) \/ command[k].rec \in deleted =>
              UNCHANGED <<result[k], buffer[k], delivered[k]>>]_vars

\* Every record in the table finishes, or leaves the table because its submission
\* failed: no slot is in flight forever.
RecordFinishes ==
    \A r \in Records : (r \in Live) ~> (Finished(r) \/ r \notin Live)
==============================================================================
