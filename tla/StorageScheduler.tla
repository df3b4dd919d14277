-------------------------- MODULE StorageScheduler --------------------------
(***************************************************************************)
(* The app0 storage scheduler (core/file_sys/storage_scheduler.cpp).  One   *)
(* worker (Run) takes the queued reads by priority and serves one chunk of  *)
(* one read at a time; host workers (RunHostWorker) read the chunks into a  *)
(* small pool of staging buffers, most of them ahead of their turn.  Reads  *)
(* are submitted and cancelled by guest threads at any time, and the        *)
(* destructor stops the workers.                                            *)
(*                                                                          *)
(* impl is the state under Impl::mutex, and what a critical section does to *)
(* it is a composition of the operators named after the methods.  A unit of *)
(* a file stands for some bytes; the modelled time of a transfer only says  *)
(* how long the worker waits, so a deadline passes at any moment.           *)
(***************************************************************************)
EXTENDS Integers, SequencesExt

CONSTANTS
    Requests, NoRequest,
    Reads,              \* the reads a request may be: [Requests -> sets of reads]
    Priorities,         \* the buckets that are used
    NoFile,
    Faulty,             \* the files whose host reads may fail or come short
    MaxCancels,         \* bound on the reads that are cancelled
    MaxChunkSize,       \* units of a chunk
    Staging,            \* the staging buffers
    HostWorkers,
    Destroyed           \* whether the scheduler is destroyed at some point

ASSUME StorageAssumption ==
    /\ NoRequest \notin Requests
    /\ Priorities \subseteq Int
    /\ MaxCancels \in Nat
    /\ Destroyed \in BOOLEAN
    /\ MaxChunkSize \in Nat \ {0}
    /\ IsFiniteSet(Staging) /\ Cardinality(Staging) > 1
    /\ \A r \in Requests : \A read \in Reads[r] :
        /\ read.file # NoFile
        /\ read.offset \in Nat
        /\ read.priority \in Priorities
        /\ read.spans \in Seq(Nat)

VARIABLES
    impl,               \* what Impl::mutex protects, and the staging buffers
    canceled,           \* StorageRequest::canceled
    memory,             \* the guest memory of the spans of a request
    answers,            \* the calls of a request's completion
    discarding,         \* requests whose Cancel has only set the flag
    run,                \* the worker: its step and locals
    host,               \* the host workers: step and task
    stop,               \* the threads asked to stop
    dtor                \* the step of ~Impl

vars == <<impl, canceled, memory, answers, discarding, run, host, stop, dtor>>

Empty == [file |-> NoFile, offset |-> 0, priority |-> 0, spans |-> <<>>]

Idle == [read |-> Empty, requested |-> 0, processed |-> 0, host_state |-> "Idle",
         staging_index |-> 0, staged_offset |-> 0, staged_size |-> 0, staged_read |-> 0,
         scheduled |-> FALSE]

Unread == <<NoFile, 0>>

Init ==
    /\ impl = [pending |-> [r \in Requests |-> Idle], queues |-> [p \in Priorities |-> <<>>],
               continuations |-> [k \in {} |-> NoRequest], host_tasks |-> <<>>,
               free_staging |-> Staging,
               staging_buffers |-> [b \in Staging |-> <<>>], head |-> Unread, notified |-> 0]
    /\ canceled = [r \in Requests |-> FALSE]
    /\ memory = [r \in Requests |-> <<>>]
    /\ answers = [r \in Requests |-> <<>>]
    /\ discarding = {}
    /\ run = [step |-> "wait", pending |-> NoRequest, staging_index |-> 0, read |-> 0,
              result |-> 0, canceled |-> FALSE, left |-> <<>>]
    /\ host = [h \in HostWorkers |-> [step |-> "wait", task |-> NoRequest, read |-> 0]]
    /\ stop = {}
    /\ dtor = "none"

-----------------------------------------------------------------------------
(* The methods that run under the mutex, as functions of what it protects. *)
(* notified counts the calls of host_cv.notify_one.                        *)

Key(s, r) == <<s.pending[r].read.file, s.pending[r].read.offset + s.pending[r].processed>>

\* queue_depth != 0
SomeQueued(s) == \E p \in Priorities : s.queues[p] # <<>>

\* Mutant: prefetches may take the last buffer.
QueueHostReadNoReserve(s, r, urgent) ==
    LET p == s.pending[r]
        b == CHOOSE b \in s.free_staging : TRUE
    IN  CASE p.host_state = "Queued" /\ urgent ->
               [s EXCEPT !.host_tasks = [i \in DOMAIN @ |-> IF @[i].pending = r
                                                            THEN [@[i] EXCEPT !.urgent = TRUE]
                                                            ELSE @[i]],
                         !.notified = @ + 1]
          [] p.host_state = "Idle" /\ s.free_staging # {} ->
               [s EXCEPT !.pending[r].staging_index = b,
                         !.pending[r].staged_offset = p.read.offset + p.processed,
                         !.pending[r].staged_size = Min({MaxChunkSize, p.requested - p.processed}),
                         !.pending[r].staged_read = 0,
                         !.pending[r].host_state = "Queued",
                         !.free_staging = @ \ {b},
                         !.host_tasks = Append(@, [pending |-> r, urgent |-> urgent]),
                         !.notified = @ + 1]
          [] OTHER -> s

QueueHostRead(s, r, urgent) ==
    LET p == s.pending[r]
        b == CHOOSE b \in s.free_staging : TRUE
    IN  CASE p.host_state = "Queued" /\ urgent ->
               [s EXCEPT !.host_tasks = [i \in DOMAIN @ |-> IF @[i].pending = r
                                                            THEN [@[i] EXCEPT !.urgent = TRUE]
                                                            ELSE @[i]],
                         !.notified = @ + 1]
          [] p.host_state = "Idle" /\ Cardinality(s.free_staging) > IF urgent THEN 0 ELSE 1 ->
               [s EXCEPT !.pending[r].staging_index = b,
                         !.pending[r].staged_offset = p.read.offset + p.processed,
                         !.pending[r].staged_size = Min({MaxChunkSize, p.requested - p.processed}),
                         !.pending[r].staged_read = 0,
                         !.pending[r].host_state = "Queued",
                         !.free_staging = @ \ {b},
                         !.host_tasks = Append(@, [pending |-> r, urgent |-> urgent]),
                         !.notified = @ + 1]
          [] OTHER -> s

Enqueue(s, r) ==
    LET key == Key(s, r)
        queued == [s EXCEPT !.queues[s.pending[r].read.priority] = Append(@, r),
                            !.pending[r].scheduled = TRUE,
                            !.continuations = @ @@ (key :> r)]
    IN  QueueHostRead(queued, r, FALSE)

RemoveQueued(s, r) ==
    LET key == Key(s, r)
        known == key \in DOMAIN s.continuations /\ s.continuations[key] = r
    IN  [s EXCEPT !.continuations = IF known THEN Restrict(@, DOMAIN @ \ {key}) ELSE @,
                  !.queues[s.pending[r].read.priority] = SelectSeq(@, LAMBDA q : q # r),
                  !.pending[r].scheduled = FALSE]

HighestPriority(s) == Max({p \in Priorities : s.queues[p] # <<>>})

\* The read that continues where the head is, if it is in the highest bucket.
SelectNext(s) ==
    LET bucket == HighestPriority(s)
        next == s.continuations[s.head]
    IN  IF s.head \in DOMAIN s.continuations /\ s.pending[next].read.priority = bucket
        THEN next
        ELSE Head(s.queues[bucket])

Buckets == SetToSortSeq(Priorities, LAMBDA p, q : p > q)

\* The idle reads, in the order in which PrimeHostReads comes to them.
PrimeCandidates(s) ==
    SelectSeq(FoldLeft(LAMBDA all, p : all \o s.queues[p], <<>>, Buckets),
              LAMBDA r : ~canceled[r] /\ s.pending[r].host_state = "Idle")

\* QueueHostRead leaves the last free buffer alone.
PrimeHostReads(s) ==
    FoldLeft(LAMBDA acc, r : QueueHostRead(acc, r, FALSE), s, PrimeCandidates(s))

\* The staged fields and the contents of the buffer mean nothing from here on,
\* and are forgotten.
ReleaseStaging(s, r) ==
    PrimeHostReads([s EXCEPT !.free_staging = @ \cup {s.pending[r].staging_index},
                             !.staging_buffers[s.pending[r].staging_index] = <<>>,
                             !.pending[r].host_state = "Idle",
                             !.pending[r].staging_index = 0,
                             !.pending[r].staged_offset = 0,
                             !.pending[r].staged_size = 0,
                             !.pending[r].staged_read = 0])

\* Mutant: a host read that is under way is discarded too.
DiscardPrefetchAny(s, r) ==
    CASE s.pending[r].scheduled /\ s.pending[r].host_state = "Queued" ->
           ReleaseStaging([s EXCEPT !.host_tasks = SelectSeq(@, LAMBDA t : t.pending # r)], r)
      [] s.pending[r].scheduled /\ s.pending[r].host_state # "Idle" -> ReleaseStaging(s, r)
      [] OTHER -> s

DiscardPrefetch(s, r) ==
    CASE s.pending[r].scheduled /\ s.pending[r].host_state = "Queued" ->
           ReleaseStaging([s EXCEPT !.host_tasks = SelectSeq(@, LAMBDA t : t.pending # r)], r)
      [] s.pending[r].scheduled /\ s.pending[r].host_state = "Ready" -> ReleaseStaging(s, r)
      [] OTHER -> s

-----------------------------------------------------------------------------
(* The mutex and the condition variables *)

Worker == "worker"

\* A thread whose predicate was false keeps the mutex until it is asleep.
MutexFree == run.step \notin {"doze", "doze_ready"} /\ \A h \in HostWorkers : host[h].step # "doze"

\* The critical section leaves s behind; it called host_cv.notify_one s.notified times.
Leave(after, hosts) ==
    \E s \in {after} :
        LET asleep == {h \in HostWorkers : hosts[h].step = "asleep"}
            n == Cardinality(asleep)
        IN  /\ impl' = [s EXCEPT !.notified = 0]
            /\ \E woken \in kSubset(IF s.notified < n THEN s.notified ELSE n, asleep) :
                  host' = [h \in HostWorkers |->
                              IF h \in woken THEN [hosts[h] EXCEPT !.step = "wait"] ELSE hosts[h]]

\* cv.notify_one or notify_all: only the worker waits on cv.
NotifyWorker ==
    run' = [run EXCEPT !.step = CASE @ = "asleep" -> "wait"
                                  [] @ = "asleep_ready" -> "await"
                                  [] OTHER -> @]

-----------------------------------------------------------------------------
(* The worker *)

RunGoto(step) == run' = [run EXCEPT !.step = step]

RunComplete(result, wasCanceled, step) ==
    run' = [run EXCEPT !.step = step, !.result = result, !.canceled = wasCanceled]

RunSelect ==
    /\ run.step = "wait"
    /\ MutexFree
    /\ Worker \notin stop
    /\ SomeQueued(impl)
    /\ \E r \in {SelectNext(impl)} : \E taken \in {RemoveQueued(impl, r)} :
       \E queued \in {QueueHostRead(taken, r, TRUE)} :
        LET drop == canceled[r] /\ impl.pending[r].host_state = "Idle"
            failed == ~drop /\ queued.pending[r].host_state = "Idle"
        IN  /\ run' = [run EXCEPT !.pending = r,
                                  !.step = IF drop \/ failed THEN "complete" ELSE "await",
                                  !.result = -1,
                                  !.canceled = drop]
            /\ Leave(IF drop THEN taken ELSE queued, host)
    /\ UNCHANGED <<canceled, memory, answers, discarding, stop, dtor>>

\* cv.wait(lock, queue_depth != 0) found nothing; the mutex is released with the sleep.
RunDoze ==
    /\ \/ /\ run.step = "wait"
          /\ MutexFree
          /\ ~SomeQueued(impl)
          /\ Worker \notin stop
          /\ RunGoto("doze")
       \/ /\ run.step = "await"
          /\ MutexFree
          /\ impl.pending[run.pending].host_state # "Ready"
          /\ Worker \notin stop
          /\ RunGoto("doze_ready")
       \/ run.step = "doze" /\ RunGoto("asleep")
       \/ run.step = "doze_ready" /\ RunGoto("asleep_ready")
    /\ UNCHANGED <<impl, canceled, memory, answers, discarding, host, stop, dtor>>

\* The chunk is in its buffer.
RunAwait ==
    /\ run.step = "await"
    /\ MutexFree
    /\ Worker \notin stop
    /\ impl.pending[run.pending].host_state = "Ready"
    /\ run' = [run EXCEPT !.step = "timer",
                          !.staging_index = impl.pending[run.pending].staging_index,
                          !.read = impl.pending[run.pending].staged_read]
    /\ UNCHANGED <<impl, canceled, memory, answers, discarding, host, stop, dtor>>

\* A stop ends the wait for the chunk and the wait for its deadline.
RunStopped ==
    /\ Worker \in stop
    /\ \/ run.step = "wait" /\ MutexFree /\ RunGoto("drain")
       \/ run.step = "await" /\ MutexFree /\ RunComplete(-1, TRUE, "complete_exit")
       \/ run.step = "timer" /\ RunComplete(-1, TRUE, "complete_exit")
    /\ UNCHANGED <<impl, canceled, memory, answers, discarding, host, stop, dtor>>

\* The deadline has passed, or a Cancel cut the wait short.
RunTimer ==
    /\ run.step = "timer"
    /\ Worker \notin stop
    /\ ~canceled[run.pending]
    /\ RunGoto("publish")
    /\ UNCHANGED <<impl, canceled, memory, answers, discarding, host, stop, dtor>>

RunCanceled ==
    /\ run.step = "timer"
    /\ Worker \notin stop
    /\ canceled[run.pending]
    /\ MutexFree
    /\ Leave(ReleaseStaging(impl, run.pending), host)
    /\ RunComplete(-1, TRUE, "complete")
    /\ UNCHANGED <<canceled, memory, answers, discarding, stop, dtor>>

\* Mutant: a span is always written from its beginning.
PublishFromStart(mem, request_offset, data) ==
    [i \in DOMAIN mem |-> [k \in DOMAIN mem[i] |-> IF k \in DOMAIN data THEN data[k] ELSE mem[i][k]]]

\* Copies data to where the request has come to, span by span.
Publish(mem, request_offset, data) ==
    LET Span(acc, i) ==
            LET end == acc.logical + Len(mem[i])
                in_span == Max({0, acc.request - acc.logical})
                copy == Min({Len(mem[i]) - in_span, Len(data) - acc.source})
            IN  IF acc.request < end /\ acc.source < Len(data)
                THEN [mem |-> [acc.mem EXCEPT ![i] =
                                [k \in DOMAIN @ |-> IF k > in_span /\ k <= in_span + copy
                                                    THEN data[acc.source + k - in_span]
                                                    ELSE @[k]]],
                      source |-> acc.source + copy,
                      request |-> acc.request + copy,
                      logical |-> end]
                ELSE [acc EXCEPT !.logical = end]
    IN  FoldLeft(Span, [mem |-> mem, source |-> 0, request |-> request_offset, logical |-> 0],
                 [i \in DOMAIN mem |-> i]).mem

RunPublish ==
    /\ run.step = "publish"
    /\ LET r == run.pending
       IN  /\ memory' = [memory EXCEPT ![r] =
                  Publish(@, impl.pending[r].processed,
                          SubSeq(impl.staging_buffers[run.staging_index], 1, run.read))]
           /\ impl' = [impl EXCEPT !.pending[r].processed = @ + run.read]
    /\ RunGoto("account")
    /\ UNCHANGED <<canceled, answers, discarding, host, stop, dtor>>

RunAccount ==
    /\ run.step = "account"
    /\ MutexFree
    /\ LET r == run.pending
           p == impl.pending[r]
           chunk_size == Min({MaxChunkSize, p.requested - (p.processed - run.read)})
       IN  /\ Leave(ReleaseStaging([impl EXCEPT !.head = Key(impl, r)], r), host)
           /\ IF run.read # chunk_size \/ p.processed = p.requested
              THEN RunComplete(p.processed, FALSE, "complete")
              ELSE RunGoto("requeue")
    /\ UNCHANGED <<canceled, memory, answers, discarding, stop, dtor>>

RunRequeue ==
    /\ run.step = "requeue"
    /\ MutexFree
    /\ Leave(PrimeHostReads(Enqueue(impl, run.pending)), host)
    /\ run' = [run EXCEPT !.step = "wait", !.pending = NoRequest,
                          !.staging_index = 0, !.read = 0, !.result = 0]
    /\ UNCHANGED <<canceled, memory, answers, discarding, stop, dtor>>

Answered(r, result, wasCanceled) ==
    answers' = [answers EXCEPT ![r] = Append(@, [result |-> result, canceled |-> wasCanceled])]

\* Mutant: after the answer at a stop the worker does not break out of its loop.
RunAnswerGoesOn ==
    /\ run.step \in {"complete", "complete_exit"}
    /\ Answered(run.pending, run.result, run.canceled)
    /\ run' = IF run.step = "complete"
              THEN [run EXCEPT !.step = "wait", !.pending = NoRequest, !.result = 0,
                               !.canceled = FALSE, !.staging_index = 0, !.read = 0]
              ELSE [run EXCEPT !.step = IF run.staging_index = 0 THEN "drain" ELSE "publish"]
    /\ UNCHANGED <<impl, canceled, memory, discarding, host, stop, dtor>>

\* The completion runs without the mutex.
RunAnswer ==
    /\ run.step \in {"complete", "complete_exit"}
    /\ Answered(run.pending, run.result, run.canceled)
    /\ run' = [run EXCEPT !.step = IF @ = "complete" THEN "wait" ELSE "drain",
                          !.pending = NoRequest, !.result = 0, !.canceled = FALSE,
                          !.staging_index = 0, !.read = 0]
    /\ UNCHANGED <<impl, canceled, memory, discarding, host, stop, dtor>>

\* After the loop: what is still queued is answered as cancelled.
RunDrain ==
    /\ run.step = "drain"
    /\ MutexFree
    /\ run' = [run EXCEPT !.step = "leave",
                          !.left = FoldLeft(LAMBDA all, p : impl.queues[p] \o all, <<>>,
                                            Buckets)]
    /\ impl' = [impl EXCEPT !.queues = [p \in Priorities |-> <<>>]]
    /\ UNCHANGED <<canceled, memory, answers, discarding, host, stop, dtor>>

RunLeave ==
    /\ run.step = "leave"
    /\ IF run.left = <<>>
       THEN RunGoto("exited") /\ UNCHANGED answers
       ELSE /\ Answered(Head(run.left), -1, TRUE)
            /\ run' = [run EXCEPT !.left = Tail(@)]
    /\ UNCHANGED <<impl, canceled, memory, discarding, host, stop, dtor>>

-----------------------------------------------------------------------------
(* The host workers *)

HostUnchanged == UNCHANGED <<canceled, memory, answers, discarding, stop, dtor>>

\* max_element: urgent tasks first, then by priority, then the oldest.
Better(i, j) ==
    LET l == impl.host_tasks[i]
        r == impl.host_tasks[j]
        Prio(t) == impl.pending[t.pending].read.priority
    IN  IF l.urgent # r.urgent THEN l.urgent
        ELSE IF Prio(l) # Prio(r) THEN Prio(l) > Prio(r)
        ELSE i < j

HostTake(h) ==
    /\ host[h].step = "wait"
    /\ MutexFree
    /\ h \notin stop
    /\ \E best \in DOMAIN impl.host_tasks :
        /\ \A i \in DOMAIN impl.host_tasks \ {best} : Better(best, i)
        /\ LET r == impl.host_tasks[best].pending
           IN  /\ impl' = [impl EXCEPT !.host_tasks = RemoveAt(@, best),
                                       !.pending[r].host_state = "Reading"]
               /\ host' = [host EXCEPT ![h] = [step |-> "read", task |-> r, read |-> 0]]
    /\ UNCHANGED run
    /\ HostUnchanged

HostDoze(h) ==
    /\ \/ /\ host[h].step = "wait"
          /\ MutexFree
          /\ h \notin stop
          /\ impl.host_tasks = <<>>
          /\ host' = [host EXCEPT ![h].step = "doze"]
       \/ /\ host[h].step = "doze"
          /\ host' = [host EXCEPT ![h].step = "asleep"]
    /\ UNCHANGED <<impl, run>>
    /\ HostUnchanged

\* ReadHost: PRead may come short, and a failed read counts as nothing read.
HostRead(h) ==
    /\ host[h].step = "read"
    /\ LET p == impl.pending[host[h].task]
       IN  \E n \in IF p.read.file \in Faulty THEN 0 .. p.staged_size ELSE {p.staged_size} :
             /\ impl' = [impl EXCEPT !.staging_buffers[p.staging_index] =
                    [i \in 1 .. n |-> <<p.read.file, p.staged_offset + i - 1>>]]
             /\ host' = [host EXCEPT ![h].step = "done", ![h].read = n]
    /\ UNCHANGED run
    /\ HostUnchanged

\* Mutant: the worker is not told.
HostDoneSilently(h) ==
    /\ host[h].step = "done"
    /\ MutexFree
    /\ LET r == host[h].task
           ready == [impl EXCEPT !.pending[r].staged_read = host[h].read,
                                 !.pending[r].host_state = "Ready"]
       IN  Leave(IF canceled[r] THEN DiscardPrefetch(ready, r) ELSE ready,
                 [host EXCEPT ![h] = [step |-> "wait", task |-> NoRequest, read |-> 0]])
    /\ UNCHANGED run
    /\ HostUnchanged

HostDone(h) ==
    /\ host[h].step = "done"
    /\ MutexFree
    /\ LET r == host[h].task
           ready == [impl EXCEPT !.pending[r].staged_read = host[h].read,
                                 !.pending[r].host_state = "Ready"]
       IN  Leave(IF canceled[r] THEN DiscardPrefetch(ready, r) ELSE ready,
                 [host EXCEPT ![h] = [step |-> "wait", task |-> NoRequest, read |-> 0]])
    /\ NotifyWorker
    /\ HostUnchanged

HostExit(h) ==
    /\ host[h].step = "wait"
    /\ MutexFree
    /\ h \in stop
    /\ host' = [host EXCEPT ![h].step = "exited"]
    /\ UNCHANGED <<impl, run>>
    /\ HostUnchanged

-----------------------------------------------------------------------------
(* Guest threads; the scheduler is not used once its destructor has begun *)

Submitted(r) == impl.pending[r].read # Empty

SubmitRead(r, read) ==
    /\ ~Submitted(r)
    /\ dtor = "none"
    /\ MutexFree
    /\ LET requested == FoldSeq(+, 0, read.spans)
           s == [impl EXCEPT !.pending[r].read = read, !.pending[r].requested = requested]
       IN  \/ /\ requested = 0
              /\ impl' = s
              /\ Answered(r, 0, FALSE)
              /\ UNCHANGED <<host, run>>
           \/ /\ requested > 0
              /\ Leave(Enqueue(s, r), host)
              /\ NotifyWorker
              /\ UNCHANGED answers
    /\ memory' = [memory EXCEPT ![r] = [i \in DOMAIN read.spans |->
                                          [k \in 1 .. read.spans[i] |-> Unread]]]
    /\ UNCHANGED <<canceled, discarding, stop, dtor>>

\* Cancel sets the flag, and only then takes the mutex.
Cancel(r) ==
    /\ Submitted(r)
    /\ dtor = "none"
    /\ ~canceled[r]
    /\ Cardinality({q \in Requests : canceled[q]}) < MaxCancels
    /\ canceled' = [canceled EXCEPT ![r] = TRUE]
    /\ discarding' = discarding \cup {r}
    /\ UNCHANGED <<impl, memory, answers, run, host, stop, dtor>>

CancelDiscard(r) ==
    /\ r \in discarding
    /\ MutexFree
    /\ discarding' = discarding \ {r}
    /\ Leave(DiscardPrefetch(impl, r), host)
    /\ NotifyWorker
    /\ UNCHANGED <<canceled, memory, answers, stop, dtor>>

\* A new profile, with the workers running, makes the head's position unknown.
Configure ==
    /\ dtor = "none"
    /\ MutexFree
    /\ impl' = [impl EXCEPT !.head = Unread]
    /\ UNCHANGED <<canceled, memory, answers, discarding, run, host, stop, dtor>>

\* ~Impl asks the threads to stop and notifies them, without the mutex.
Destroy ==
    /\ \/ /\ dtor = "none"
          /\ Destroyed
          /\ discarding = {}
          /\ stop' = {Worker}
          /\ dtor' = "stop"
          /\ UNCHANGED <<run, host>>
       \/ /\ dtor = "stop"
          /\ stop' = stop \cup HostWorkers
          /\ dtor' = "notify"
          /\ UNCHANGED <<run, host>>
       \/ /\ dtor = "notify"
          /\ NotifyWorker
          /\ dtor' = "notify_host"
          /\ UNCHANGED <<stop, host>>
       \/ /\ dtor = "notify_host"
          /\ host' = [h \in HostWorkers |->
                         IF host[h].step = "asleep" THEN [host[h] EXCEPT !.step = "wait"]
                                                    ELSE host[h]]
          /\ dtor' = "join"
          /\ UNCHANGED <<stop, run>>
       \/ /\ dtor = "join"
          /\ run.step = "exited" /\ \A h \in HostWorkers : host[h].step = "exited"
          /\ dtor' = "done"
          /\ UNCHANGED <<stop, run, host>>
    /\ UNCHANGED <<impl, canceled, memory, answers, discarding>>

RunNext ==
    \/ RunSelect \/ RunDoze \/ RunAwait \/ RunStopped \/ RunTimer \/ RunCanceled \/ RunPublish
    \/ RunAccount \/ RunRequeue \/ RunAnswer \/ RunDrain \/ RunLeave

HostNext(h) == HostTake(h) \/ HostDoze(h) \/ HostRead(h) \/ HostDone(h) \/ HostExit(h)

GuestNext(r) == (\E read \in Reads[r] : SubmitRead(r, read)) \/ Cancel(r) \/ CancelDiscard(r)

Next ==
    \/ RunNext
    \/ \E h \in HostWorkers : HostNext(h)
    \/ \E r \in Requests : GuestNext(r)
    \/ Configure
    \/ Destroy

\* The threads run, a host read ends, and a Cancel that has begun goes on.
Fairness ==
    /\ WF_vars(RunNext)
    /\ \A h \in HostWorkers : WF_vars(HostNext(h))
    /\ \A r \in Requests : WF_vars(CancelDiscard(r))
    /\ WF_vars(dtor # "none" /\ Destroy)

Spec == Init /\ [][Next]_vars /\ Fairness

-----------------------------------------------------------------------------
(* Properties *)

\* The buffers are shared out: each is free or belongs to the one request that
\* has a host read on its way or unpublished.  QueueHostRead takes one from
\* free_staging, and ReleaseStaging, from four places, gives it back.
StagingConserved ==
    LET holders == {r \in Requests : impl.pending[r].host_state # "Idle"}
    IN  /\ \A r \in holders : impl.pending[r].staging_index \in Staging \ impl.free_staging
        /\ \A r, q \in holders :
              impl.pending[r].staging_index = impl.pending[q].staging_index => r = q
        /\ Cardinality(impl.free_staging) + Cardinality(holders) = Cardinality(Staging)

\* The comment at QueueHostRead: one buffer is kept in reserve, so the read that
\* the worker has selected always finds one, and "Failed to reserve an app0
\* staging buffer" is never logged.
ReserveSuffices ==
    ~(run.step = "complete" /\ run.result = -1 /\ ~run.canceled)

\* A continuation names a queued read that stands at its key, so that SelectNext
\* removes a read that is in the bucket it is removed from.
ContinuationsQueued ==
    Worker \notin stop => \A key \in DOMAIN impl.continuations :
        LET r == impl.continuations[key]
        IN  /\ key = Key(impl, r)
            /\ Contains(impl.queues[impl.pending[r].read.priority], r)

\* What the mutex protects stays in order: the buffers, and the index of the queued
\* reads by the position they continue at.
QueuesInOrder == StagingConserved /\ ContinuationsQueued

\* The guest memory of a read holds the file from its offset on, as far as it was
\* processed, and is otherwise untouched: no chunk is published twice, skipped or
\* taken from a buffer that was given to another read, across short reads,
\* requeued chunks and prefetches.
MemoryIsFile ==
    \A r \in Requests :
        LET p == impl.pending[r]
            flat == FlattenSeq(memory[r])
        IN  \A i \in DOMAIN flat :
                flat[i] = IF i <= p.processed THEN <<p.read.file, p.read.offset + i - 1>> ELSE Unread

Service ==
    INSTANCE StorageService WITH
        phase <- [r \in Requests |-> IF ~Submitted(r) THEN "new"
                                     ELSE IF answers[r] = <<>> THEN "pending" ELSE "done"],
        size <- [r \in Requests |-> impl.pending[r].requested],
        delivered <- [r \in Requests |-> impl.pending[r].processed],
        answer <- [r \in Requests |-> IF answers[r] = <<>> THEN [result |-> 0, canceled |-> FALSE] ELSE Last(answers[r])],
        closed <- stop # {}

\* The scheduler keeps the promise of StorageService: one answer per read, with
\* what was delivered, or cancelled for a reason; nothing delivered afterwards.
ImplementsService == Service!Spec

\* Every read is answered, unless the scheduler is destroyed first: no wake-up of
\* the worker or of a host worker is lost, and no read waits for a buffer forever.
ReadIsAnswered ==
    \A r \in Requests : Submitted(r) ~> (answers[r] # <<>> \/ stop # {})

\* ~Impl joins threads that it has told to stop, and returns.
DestructorReturns == (dtor # "none") ~> (dtor = "done")
=============================================================================
