------------------------------- MODULE VideoOut -------------------------------
(***************************************************************************)
(* Flips of one open port (videoout/driver.cpp, videoout/video_out.cpp):    *)
(* the guest asks for them directly or at the end of a frame's commands     *)
(* (gnmdriver.cpp), the GPU thread performs them and locks the buffer by    *)
(* its label, the present thread shows them and releases the label of the   *)
(* buffer shown before, for which a later frame may wait.                   *)
(*                                                                          *)
(* The program draws its frames to FrameBuffers in turn, waiting for the    *)
(* label of each (sceGnmInsertWaitFlipDone), and flips CpuBuffers directly. *)
(* Two flips of one buffer in a row, which release the label of a buffer    *)
(* that is shown, are therefore left out, and so are closing the port,      *)
(* changing its mode and registering buffers while flips are under way.     *)
(***************************************************************************)
EXTENDS Integers, Sequences, FiniteSets

CONSTANTS
    FrameBuffers,       \* how many buffers the frames use: 0 .. FrameBuffers - 1
    CpuBuffers,         \* buffers that are flipped by sceVideoOutSubmitFlip
    NoBuffer,           \* -1: no flip has been shown yet
    MaxPending,         \* SubmitFlip refuses above this
    MaxFrames           \* bound: frames submitted and not yet flipped

Frames == 0 .. FrameBuffers - 1
Indices == Frames \cup CpuBuffers

VideoOutAssumption ==
    /\ FrameBuffers \in Nat \ {0, 1}
    /\ Frames \cap CpuBuffers = {} /\ NoBuffer \notin Indices
    /\ MaxPending \in Nat \ {0} /\ MaxFrames \in Nat \ {0}

VARIABLES
    buffer_labels,      \* the frame buffers whose label is 1
    prev_index,
    flip_pending_num, gc_queue_num, current_buffer,     \* flip_status
    requests,           \* flips for the present thread, oldest first
    subscribers,        \* one_time_subscribers of GfxFlip: the buffers to flip
    frames,             \* submitted frames, by the buffer they draw to
    next,               \* the buffer of the program's next frame
    command_queue,      \* flips sent to the GPU thread
    gpu,                \* where the GPU thread is in a frame
    present, req        \* where the present thread is, and the flip it shows

vars == <<buffer_labels, prev_index, flip_pending_num, gc_queue_num, current_buffer, requests,
          subscribers, frames, next, command_queue, gpu, present, req>>

programVars == <<subscribers, next>>
statusVars == <<flip_pending_num, gc_queue_num, current_buffer>>
presentVars == <<present, req, prev_index>>

Flip(i, eop) == [index |-> i, eop |-> eop]

\* The frame buffer after b.
Following(b) == IF b + 1 = FrameBuffers THEN 0 ELSE b + 1

Init ==
    /\ buffer_labels = {}
    /\ prev_index = NoBuffer
    /\ flip_pending_num = 0 /\ gc_queue_num = 0
    /\ current_buffer = Flip(NoBuffer, FALSE)
    /\ requests = <<>>
    /\ subscribers = <<>>
    /\ frames = <<>>
    /\ next = 0
    /\ command_queue = <<>>
    /\ gpu = "loop"
    /\ present = "vblank"
    /\ req = Flip(NoBuffer, FALSE)

-----------------------------------------------------------------------------
(* The guest.                                                               *)

\* PatchFlipRequest and sceVideoOutSubmitEopFlip: the flip is registered with the
\* interrupt before the frame is submitted.
PatchFlipRequest ==
    /\ Len(subscribers) = Len(frames)
    /\ Len(frames) < MaxFrames
    /\ subscribers' = Append(subscribers, next)
    /\ UNCHANGED <<buffer_labels, statusVars, requests, frames, next, command_queue, gpu,
                   presentVars>>

SubmitFrame ==
    /\ Len(subscribers) > Len(frames)
    /\ frames' = Append(frames, next)
    /\ next' = Following(next)
    /\ UNCHANGED <<buffer_labels, statusVars, requests, subscribers, command_queue, gpu,
                   presentVars>>

\* sceVideoOutSubmitFlip: counted and sent to the GPU thread, which performs it.
SubmitFlip(i) ==
    /\ flip_pending_num <= MaxPending
    /\ flip_pending_num' = flip_pending_num + 1
    /\ command_queue' = Append(command_queue, Flip(i, FALSE))
    /\ UNCHANGED <<buffer_labels, gc_queue_num, current_buffer, requests, programVars, frames,
                   gpu, presentVars>>

-----------------------------------------------------------------------------
(* The GPU thread.                                                          *)

\* ProcessCommands, in the loop and between packets, but not inside a wait.
RunCommand ==
    /\ gpu \in {"loop", "wait", "yield", "draw", "irq"}
    /\ command_queue # <<>>
    /\ requests' = Append(requests, Head(command_queue))
    /\ command_queue' = Tail(command_queue)
    /\ UNCHANGED <<buffer_labels, statusVars, programVars, frames, gpu, presentVars>>

StartFrame ==
    /\ gpu = "loop"
    /\ frames # <<>>
    /\ gpu' = "wait"
    /\ UNCHANGED <<buffer_labels, statusVars, requests, programVars, frames, command_queue,
                   presentVars>>

\* WaitRegMem on the label of the frame's buffer.  When other queues have work the
\* task yields and tests again; otherwise the thread sleeps in WaitVoLabel.
WaitRegMem(others) ==
    /\ gpu = "wait"
    /\ gpu' = IF Head(frames) \notin buffer_labels THEN "draw"
              ELSE IF others THEN "yield" ELSE "sleep"
    /\ UNCHANGED <<buffer_labels, statusVars, requests, programVars, frames, command_queue,
                   presentVars>>

TestAgain ==
    /\ gpu = "yield"
    /\ Head(frames) \notin buffer_labels
    /\ gpu' = "draw"
    /\ UNCHANGED <<buffer_labels, statusVars, requests, programVars, frames, command_queue,
                   presentVars>>

WaitVoLabel ==
    /\ gpu = "woken"
    /\ gpu' = IF Head(frames) \in buffer_labels THEN "sleep" ELSE "draw"
    /\ UNCHANGED <<buffer_labels, statusVars, requests, programVars, frames, command_queue,
                   presentVars>>

\* The packets PatchFlipRequest wrote: the label, then the interrupt.
LockLabel ==
    /\ gpu = "draw"
    /\ buffer_labels' = buffer_labels \cup {Head(frames)}
    /\ gpu' = "irq"
    /\ UNCHANGED <<statusVars, requests, programVars, frames, command_queue, presentVars>>

\* The interrupt runs its oldest subscriber, which counts the flip.
GfxFlip ==
    /\ gpu = "irq"
    /\ flip_pending_num <= MaxPending
    /\ flip_pending_num' = flip_pending_num + 1
    /\ gc_queue_num' = gc_queue_num + 1
    /\ gpu' = "flip"
    /\ UNCHANGED <<buffer_labels, current_buffer, requests, programVars, frames, command_queue,
                   presentVars>>

SubmitFlipInternal ==
    /\ gpu = "flip"
    /\ requests' = Append(requests, Flip(Head(subscribers), TRUE))
    /\ subscribers' = Tail(subscribers)
    /\ frames' = Tail(frames)
    /\ gpu' = "loop"
    /\ UNCHANGED <<buffer_labels, statusVars, next, command_queue, presentVars>>

-----------------------------------------------------------------------------
(* The present thread.                                                      *)

ReceiveRequest ==
    /\ present = "vblank"
    /\ requests # <<>>
    /\ req' = Head(requests)
    /\ requests' = Tail(requests)
    /\ present' = "flip"
    /\ UNCHANGED <<buffer_labels, prev_index, statusVars, programVars, frames, command_queue, gpu>>

\* Present, and the new flip_status.
Present ==
    /\ present = "flip"
    /\ current_buffer' = req
    /\ gc_queue_num' = IF req.eop THEN gc_queue_num - 1 ELSE gc_queue_num
    /\ flip_pending_num' = flip_pending_num - 1
    /\ present' = "label"
    /\ UNCHANGED <<buffer_labels, prev_index, req, requests, programVars, frames, command_queue,
                   gpu>>

\* Mutant: the label of the buffer now shown is reset.
ResetShownLabel ==
    /\ present = "label"
    /\ buffer_labels' = buffer_labels \ {req.index}
    /\ present' = "signal"
    /\ UNCHANGED <<prev_index, req, statusVars, requests, programVars, frames, command_queue, gpu>>

\* The label of the buffer shown before is written without vo_mutex.
ResetLabel ==
    /\ present = "label"
    /\ buffer_labels' = buffer_labels \ {prev_index}
    /\ present' = "signal"
    /\ UNCHANGED <<prev_index, req, statusVars, requests, programVars, frames, command_queue, gpu>>

SignalVoLabel ==
    /\ present = "signal"
    /\ gpu' = IF gpu = "sleep" /\ prev_index # NoBuffer THEN "woken" ELSE gpu
    /\ prev_index' = req.index
    /\ present' = "vblank"
    /\ UNCHANGED <<buffer_labels, req, statusVars, requests, programVars, frames, command_queue>>

Next ==
    \/ PatchFlipRequest \/ SubmitFrame \/ \E i \in CpuBuffers : SubmitFlip(i)
    \/ RunCommand \/ StartFrame \/ (\E others \in BOOLEAN : WaitRegMem(others))
    \/ TestAgain \/ WaitVoLabel \/ LockLabel \/ GfxFlip \/ SubmitFlipInternal
    \/ ReceiveRequest \/ Present \/ ResetLabel \/ SignalVoLabel

Spec == Init /\ [][Next]_vars

-----------------------------------------------------------------------------
(* Properties.                                                              *)

Flips == [index : Indices \cup {NoBuffer}, eop : BOOLEAN]

TypeOK ==
    /\ buffer_labels \subseteq Frames
    /\ prev_index \in Indices \cup {NoBuffer}
    /\ flip_pending_num \in Int /\ gc_queue_num \in Int
    /\ current_buffer \in Flips /\ req \in Flips
    /\ requests \in Seq(Flips) /\ command_queue \in Seq([index : CpuBuffers, eop : {FALSE}])
    /\ frames \in Seq(Frames) /\ subscribers \in Seq(Frames) /\ next \in Frames
    /\ gpu \in {"loop", "wait", "yield", "sleep", "woken", "draw", "irq", "flip"}
    /\ present \in {"vblank", "flip", "label", "signal"}

One(condition) == IF condition THEN 1 ELSE 0

\* The flips on a list that end a frame, by their places on it.
Eops(list) == {n \in DOMAIN list : list[n].eop}

\* The counters of flip_status, which SubmitFlip raises on the threads of the guest and
\* the GPU and Flip lowers on the present thread, are the flips on their way, and those
\* of them that end a frame.
FlipsCounted ==
    /\ flip_pending_num =
        Len(command_queue) + Len(requests) + One(gpu = "flip") + One(present = "flip")
    /\ gc_queue_num =
        Cardinality(Eops(requests)) + One(gpu = "flip") + One(present = "flip" /\ req.eop)

\* A frame is drawn only to a buffer that is neither on screen nor about to be, and
\* the interrupt at its end flips that buffer (WaitRegMem, PatchFlipRequest, Flip).
DrawnUnseen ==
    gpu \in {"draw", "irq", "flip"} =>
        /\ Head(subscribers) = Head(frames)
        /\ current_buffer.index # Head(frames)
        /\ present = "flip" => req.index # Head(frames)
        /\ \A n \in 1 .. Len(requests) : requests[n].index # Head(frames)

\* The buffer that is on screen when everything on its way has been shown.
Newest ==
    IF requests # <<>> THEN requests[Len(requests)].index
    ELSE IF present = "flip" THEN req.index ELSE current_buffer.index

\* The GPU thread, asleep in WaitVoLabel, runs no commands and sees no submissions;
\* but a flip that will release the label is on its way, or its notification is.
VoWaitEnds ==
    gpu = "sleep" =>
        IF Head(frames) \in buffer_labels
        THEN Newest # Head(frames)
        ELSE present = "signal" /\ prev_index = Head(frames)

\* What Flip, SubmitFlip and WaitVoLabel keep between the three threads.
FlipsSafe == TypeOK /\ FlipsCounted /\ DrawnUnseen /\ VoWaitEnds
=============================================================================
