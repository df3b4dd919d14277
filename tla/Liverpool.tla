------------------------------- MODULE Liverpool -------------------------------
(***************************************************************************)
(* Submission of work to the GPU command processor.  Guest threads enter    *)
(* through the driver (gnmdriver.cpp), which holds them at the submission   *)
(* lock after a sceGnmSubmitDone, and put tasks into the queues of          *)
(* Liverpool (video_core/amdgpu/liverpool.h, liverpool.cpp); its thread     *)
(* resumes the tasks queue by queue, runs the commands sent by the host     *)
(* side, and signals GpuIdle, which lifts the lock.  submit_mutex and       *)
(* m_submission are held within a step; a step ends where the code lets go  *)
(* of every lock or reads or writes something no lock protects.             *)
(*                                                                          *)
(* A command buffer is one cell of the copy buffer, and the constant        *)
(* engine's buffer, which is copied the same way, is not told apart.  What  *)
(* a task does is left out, except that it may yield and be resumed.        *)
(***************************************************************************)
EXTENDS Integers, FiniteSets, SequencesExt

CONSTANTS
    Graphics,       \* the thread that submits graphics and ends the frames
    Compute,        \* the threads that ring doorbells of the compute queue
    NoThread,
    Tasks,          \* bound: the tasks that exist at a time
    NoTask,
    CopyCmds,       \* Config::copyGPUCmdBuffers()
    Reserved,       \* bound: the capacity of dcb_buffer, in command buffers
    Modulus,        \* num_submits is unsigned and wraps here
    MaxCommands     \* bound: the commands sent

Guests == {Graphics} \cup Compute

GpuAssumption ==
    /\ Graphics \notin Compute
    /\ NoThread \notin Guests
    /\ NoTask \notin Tasks
    /\ Reserved \in Nat \ {0}
    /\ MaxCommands \in Nat
    /\ IsFiniteSet(Tasks) /\ Modulus > 2 * Cardinality(Tasks)

VARIABLES
    submits,            \* mapped_queues[q].submits; queue 0 is GfxQueueId
    num_submits,
    num_mapped_queues,
    command_queue,      \* the sender to release, or NoThread; its length is num_commands
    submit_done,
    dcb_buffer,         \* the task whose commands a cell of the copy buffer holds
    dcb_buffer_offset,
    dcb,                \* the cell a task reads its commands from
    gpu,                \* the command processor: pc, curr_qid and the task it resumes
    yielded,            \* the tasks that have yielded
    submission_lock,
    send_init_packet,
    pc,                 \* where a guest is in its call
    call,
    task,               \* the task a guest is submitting
    sent                \* commands sent

vars == <<submits, num_submits, num_mapped_queues, command_queue, submit_done,
          dcb_buffer, dcb_buffer_offset, dcb, gpu, yielded, submission_lock,
          send_init_packet, pc, call, task, sent>>

copyVars == <<dcb_buffer, dcb_buffer_offset, dcb>>
queueVars == <<submits, num_submits, num_mapped_queues>>
guestVars == <<pc, call, task, sent, send_init_packet>>
processorVars == <<gpu, yielded>>

Init ==
    /\ submits = [q \in 0 .. 1 |-> <<>>]
    /\ num_submits = 0
    /\ num_mapped_queues = 1
    /\ command_queue = <<>>
    /\ submit_done = FALSE
    /\ dcb_buffer = [i \in 0 .. Reserved - 1 |-> NoTask]
    /\ dcb_buffer_offset = 0
    /\ dcb = [t \in Tasks |-> 0]
    /\ gpu = [pc |-> "wait", qid |-> -1, task |-> NoTask]
    /\ yielded = {}
    /\ submission_lock = FALSE
    /\ send_init_packet = TRUE
    /\ pc = [g \in Guests |-> "run"]
    /\ call = [g \in Guests |-> "none"]
    /\ task = [g \in Guests |-> NoTask]
    /\ sent = 0

Queued == UNION {Range(submits[q]) : q \in 0 .. 1}

Free == Tasks \ (Queued \cup Range(task))

\* submit_cv.notify_one(): only the processor waits for it.
Notified == [gpu EXCEPT !.pc = IF @ = "sleep" THEN "wait" ELSE @]

QueueOf(g) == IF g = Graphics THEN 0 ELSE 1

Goto(g, l) == pc' = [pc EXCEPT ![g] = l]

-----------------------------------------------------------------------------
(* The driver's calls.                                                      *)

\* A doorbell submits the ring in one part, or in two where the ring wraps.
Calls(g) == IF g = Graphics THEN {"submit", "done"} ELSE {"ring", "wrap"}

FirstStep(c) ==
    CASE c = "submit" -> "copy"
      [] c \in {"ring", "wrap"} -> "emplace"
      [] c = "done" -> "test"

\* WaitGpuIdle of gnmdriver.cpp, entered by call c.
WaitGpuIdle(g, c) == Goto(g, IF submission_lock THEN "gated" ELSE FirstStep(c))

Enter(g, c) ==
    /\ pc[g] = "run"
    /\ c = "submit" => dcb_buffer_offset + 2 <= Reserved
    /\ call' = [call EXCEPT ![g] = c]
    /\ WaitGpuIdle(g, c)
    /\ UNCHANGED <<queueVars, copyVars, processorVars, command_queue, submit_done,
                   submission_lock, send_init_packet, task, sent>>

Regate(g) ==
    /\ pc[g] = "woken"
    /\ WaitGpuIdle(g, call[g])
    /\ UNCHANGED <<queueVars, copyVars, processorVars, command_queue, submit_done,
                   submission_lock, send_init_packet, call, task, sent>>

\* SubmitGfx up to the task: the copy is made and the offset moves on.
CopyCmdBuffers(g) ==
    /\ pc[g] = "copy"
    /\ dcb_buffer_offset < Reserved
    /\ \E t \in Free :
        /\ t = CHOOSE u \in Free : TRUE
        /\ task' = [task EXCEPT ![g] = t]
        /\ IF CopyCmds
           THEN /\ dcb_buffer' = [dcb_buffer EXCEPT ![dcb_buffer_offset] = t]
                /\ dcb' = [dcb EXCEPT ![t] = dcb_buffer_offset]
                /\ dcb_buffer_offset' = dcb_buffer_offset + 1
           ELSE UNCHANGED copyVars
    /\ Goto(g, "emplace")
    /\ UNCHANGED <<queueVars, processorVars, command_queue, submit_done,
                   submission_lock, send_init_packet, call, sent>>

\* queue.submits.emplace(task.handle), under the queue's m_access.
Emplace(g) ==
    /\ pc[g] = "emplace"
    /\ \E t \in IF g = Graphics THEN {task[g]} ELSE Free :
        /\ g # Graphics => t = CHOOSE u \in Free : TRUE
        /\ submits' = [submits EXCEPT ![QueueOf(g)] = Append(@, t)]
    /\ task' = [task EXCEPT ![g] = NoTask]
    /\ Goto(g, "count")
    /\ UNCHANGED <<num_submits, num_mapped_queues, copyVars, processorVars, command_queue,
                   submit_done, submission_lock, send_init_packet, call, sent>>

\* The init packet is followed by the command buffers of the arguments, one
\* by one, and the first part of a wrapped ring by the second.
AfterSubmit(g) ==
    CASE call[g] = "ring" -> {"run"}
      [] call[g] = "wrap" -> {"emplace"}
      [] OTHER -> {l \in {"run", "copy"} :
                    /\ l = "run" => ~send_init_packet
                    /\ l = "copy" => dcb_buffer_offset < Reserved}

\* Mutant of Count: the processor is not notified.
CountSilently(g) ==
    /\ pc[g] = "count"
    /\ num_submits' = (num_submits + 1) % Modulus
    /\ num_mapped_queues' = IF g = Graphics THEN num_mapped_queues ELSE 2
    /\ \E l \in AfterSubmit(g) :
        /\ Goto(g, l)
        /\ call' = [call EXCEPT ![g] = IF l = "run" THEN "none"
                                       ELSE IF @ = "wrap" THEN "ring" ELSE @]
    /\ send_init_packet' = (send_init_packet /\ g # Graphics)
    /\ UNCHANGED <<submits, copyVars, processorVars, command_queue, submit_done,
                   submission_lock, task, sent>>

Count(g) ==
    /\ pc[g] = "count"
    /\ num_submits' = (num_submits + 1) % Modulus
    /\ num_mapped_queues' = IF g = Graphics THEN num_mapped_queues ELSE 2
    /\ gpu' = Notified
    /\ \E l \in AfterSubmit(g) :
        /\ Goto(g, l)
        /\ call' = [call EXCEPT ![g] = IF l = "run" THEN "none"
                                       ELSE IF @ = "wrap" THEN "ring" ELSE @]
    /\ send_init_packet' = (send_init_packet /\ g # Graphics)
    /\ UNCHANGED <<submits, copyVars, yielded, command_queue, submit_done, submission_lock,
                   task, sent>>

\* sceGnmSubmitDone reads num_submits, then sets the lock without m_submission.
TestIdle(g) ==
    /\ pc[g] = "test"
    /\ Goto(g, IF num_submits = 0 THEN "done" ELSE "lock")
    /\ UNCHANGED <<queueVars, copyVars, processorVars, command_queue, submit_done,
                   submission_lock, send_init_packet, call, task, sent>>

SetLock(g) ==
    /\ pc[g] = "lock"
    /\ submission_lock' = TRUE
    /\ Goto(g, "done")
    /\ UNCHANGED <<queueVars, copyVars, processorVars, command_queue, submit_done,
                   send_init_packet, call, task, sent>>

SubmitDone(g) ==
    /\ pc[g] = "done"
    /\ dcb_buffer_offset' = 0
    /\ submit_done' = TRUE
    /\ gpu' = Notified
    /\ send_init_packet' = TRUE
    /\ Goto(g, "run")
    /\ call' = [call EXCEPT ![g] = "none"]
    /\ UNCHANGED <<queueVars, dcb_buffer, dcb, yielded, command_queue, submission_lock,
                   task, sent>>

\* SendCommand<wait> by a thread other than the processor.
SendCommand(g, wait) ==
    /\ pc[g] = "run"
    /\ sent < MaxCommands
    /\ sent' = sent + 1
    /\ command_queue' = Append(command_queue, IF wait THEN g ELSE NoThread)
    /\ gpu' = Notified
    /\ Goto(g, IF wait THEN "acquire" ELSE "run")
    /\ UNCHANGED <<queueVars, copyVars, yielded, submit_done, submission_lock,
                   send_init_packet, call, task>>

-----------------------------------------------------------------------------
(* The command processor, Process of liverpool.cpp.                         *)

GpuAt(l) == gpu' = [gpu EXCEPT !.pc = l]

gpuUnchanged == <<guestVars, copyVars, num_mapped_queues>>

\* The predicate of the wait.
GpuWait ==
    /\ gpu.pc = "wait"
    /\ GpuAt(IF command_queue # <<>> \/ num_submits # 0 \/ submit_done
             THEN "loop" ELSE "sleep")
    /\ UNCHANGED <<gpuUnchanged, submits, num_submits, command_queue, submit_done, yielded,
                   submission_lock>>

\* curr_qid is -1 when the loop is entered the next time.
GpuLoop ==
    /\ gpu.pc = "loop"
    /\ gpu' = IF num_submits # 0 \/ command_queue # <<>>
              THEN [gpu EXCEPT !.pc = "commands"]
              ELSE [gpu EXCEPT !.pc = "idle", !.qid = -1]
    /\ UNCHANGED <<gpuUnchanged, submits, num_submits, command_queue, submit_done, yielded,
                   submission_lock>>

\* One turn of ProcessCommands, in the loop or between two packets of a task.
ProcessCommands ==
    /\ gpu.pc \in {"commands", "resume"}
    /\ command_queue # <<>>
    /\ LET sender == Head(command_queue) IN
       pc' = IF sender = NoThread THEN pc ELSE [pc EXCEPT ![sender] = "run"]
    /\ command_queue' = Tail(command_queue)
    /\ UNCHANGED <<queueVars, copyVars, processorVars, submit_done, submission_lock,
                   send_init_packet, call, task, sent>>

\* The next queue's first task, if it has one.
GpuPick ==
    /\ gpu.pc = "commands"
    /\ command_queue = <<>>
    /\ LET qid == (gpu.qid + 1) % num_mapped_queues IN
       gpu' = IF submits[qid] = <<>>
              THEN [pc |-> "loop", qid |-> qid, task |-> NoTask]
              ELSE [pc |-> "resume", qid |-> qid, task |-> Head(submits[qid])]
    /\ UNCHANGED <<gpuUnchanged, submits, num_submits, command_queue, submit_done, yielded,
                   submission_lock>>

\* The task waits for a label; bound: once.
GpuYield ==
    /\ gpu.pc = "resume"
    /\ gpu.task \notin yielded
    /\ yielded' = yielded \cup {gpu.task}
    /\ gpu' = [gpu EXCEPT !.pc = "loop", !.task = NoTask]
    /\ UNCHANGED <<gpuUnchanged, submits, num_submits, command_queue, submit_done,
                   submission_lock>>

GpuRetire ==
    /\ gpu.pc = "resume"
    /\ submits' = [submits EXCEPT ![gpu.qid] = Tail(@)]
    /\ num_submits' = (num_submits - 1) % Modulus
    /\ yielded' = yielded \ {gpu.task}
    /\ gpu' = [gpu EXCEPT !.pc = "loop", !.task = NoTask]
    /\ UNCHANGED <<gpuUnchanged, command_queue, submit_done, submission_lock>>

GpuTestDone ==
    /\ gpu.pc = "idle"
    /\ GpuAt(IF submit_done THEN "flush" ELSE "signal")
    /\ UNCHANGED <<gpuUnchanged, submits, num_submits, command_queue, submit_done, yielded,
                   submission_lock>>

GpuFlush ==
    /\ gpu.pc = "flush"
    /\ submit_done' = FALSE
    /\ GpuAt("signal")
    /\ UNCHANGED <<gpuUnchanged, submits, num_submits, command_queue, yielded, submission_lock>>

\* Signal(GpuIdle) runs ResetSubmissionLock on the processor's thread.
GpuSignal ==
    /\ gpu.pc = "signal"
    /\ submission_lock' = FALSE
    /\ pc' = [g \in Guests |-> IF pc[g] = "gated" THEN "woken" ELSE pc[g]]
    /\ GpuAt("wait")
    /\ UNCHANGED <<queueVars, copyVars, command_queue, submit_done, yielded,
                   send_init_packet, call, task, sent>>

GpuNext ==
    \/ GpuWait \/ GpuLoop \/ ProcessCommands \/ GpuPick \/ GpuYield \/ GpuRetire
    \/ GpuTestDone \/ GpuFlush \/ GpuSignal

\* The steps of a guest inside a call.
Continue(g) ==
    \/ Regate(g) \/ CopyCmdBuffers(g) \/ Emplace(g) \/ Count(g)
    \/ TestIdle(g) \/ SetLock(g) \/ SubmitDone(g)

Next ==
    \/ GpuNext
    \/ \E g \in Guests :
        \/ Continue(g)
        \/ \E c \in Calls(g) : Enter(g, c)
        \/ \E wait \in BOOLEAN : SendCommand(g, wait)

Spec == Init /\ [][Next]_vars

-----------------------------------------------------------------------------
(* Properties.                                                              *)

TypeOK ==
    /\ submits \in [0 .. 1 -> Seq(Tasks)]
    /\ num_submits \in 0 .. Modulus - 1
    /\ num_mapped_queues \in 1 .. 2
    /\ command_queue \in Seq(Guests \cup {NoThread})
    /\ submit_done \in BOOLEAN
    /\ dcb_buffer \in [0 .. Reserved - 1 -> Tasks \cup {NoTask}]
    /\ dcb_buffer_offset \in 0 .. Reserved
    /\ dcb \in [Tasks -> 0 .. Reserved - 1]
    /\ gpu \in [pc : {"wait", "sleep", "loop", "commands", "resume", "idle", "flush", "signal"},
                qid : -1 .. 1, task : Tasks \cup {NoTask}]
    /\ yielded \subseteq Tasks
    /\ submission_lock \in BOOLEAN
    /\ send_init_packet \in BOOLEAN
    /\ pc \in [Guests -> {"run", "gated", "woken", "copy", "emplace", "count", "test", "lock",
                          "done", "acquire"}]
    /\ call \in [Guests -> {"none", "submit", "done", "ring", "wrap"}]
    /\ task \in [Guests -> Tasks \cup {NoTask}]
    /\ sent \in 0 .. MaxCommands

Uncounted == {g \in Guests : pc[g] = "count"}

\* num_submits, which is raised after the task is in its queue and may wrap
\* below zero when the processor is faster, is off by exactly the guests that
\* have yet to count; and when the processor sleeps there is nothing for it to
\* do, and a submission lock still set is about to be lifted because the
\* guest that set it has not reached SubmitDone (Process, SubmitGfx,
\* SubmitAsc, sceGnmSubmitDone).
SleepsOnlyIdle ==
    /\ TypeOK
    /\ num_submits = (Len(submits[0]) + Len(submits[1]) - Cardinality(Uncounted)) % Modulus
    /\ \A g \in Guests : pc[g] = "gated" => submission_lock
    /\ gpu.pc = "sleep" =>
        /\ num_submits = 0 /\ command_queue = <<>> /\ ~submit_done
        /\ submission_lock => \E g \in Guests : pc[g] = "done"

\* With copyGPUCmdBuffers, the commands of a graphics task that is not
\* processed yet are the ones that were submitted: no later submission has
\* been copied over them (CopyCmdBuffers, SubmitDone).
CopiesIntact ==
    CopyCmds => \A t \in Range(submits[0]) : dcb_buffer[dcb[t]] = t
=============================================================================
