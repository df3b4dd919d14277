---------------------------- MODULE MCLifecycleGpu ----------------------------
(***************************************************************************)
(* One run for three parts that share nothing: the lifecycle of threads,    *)
(* under the names of its module, submissions to the GPU, and flips.  The   *)
(* one that part names takes its steps; the others stay where they begin.   *)
(***************************************************************************)
EXTENDS MCThreadLifecycle

VARIABLES
    part,
    g_submits, g_num_submits, g_mapped, g_command_queue, g_submit_done, g_buffer, g_offset, g_dcb,
    g_gpu, g_yielded, g_lock, g_init_packet, g_pc, g_call, g_task, g_sent,
    v_labels, v_prev, v_pending, v_gc, v_current, v_requests, v_subscribers, v_frames, v_next,
    v_command_queue, v_gpu, v_present, v_req

gpuVars == <<g_submits, g_num_submits, g_mapped, g_command_queue, g_submit_done, g_buffer,
             g_offset, g_dcb, g_gpu, g_yielded, g_lock, g_init_packet, g_pc, g_call, g_task,
             g_sent>>

Gpu == INSTANCE Liverpool WITH
        Graphics <- "graphics", Compute <- {"compute"}, NoThread <- "none", Tasks <- 1 .. 2,
        NoTask <- 0, CopyCmds <- FALSE, Reserved <- 2, Modulus <- 5, MaxCommands <- 1,
        submits <- g_submits, num_submits <- g_num_submits, num_mapped_queues <- g_mapped,
        command_queue <- g_command_queue, submit_done <- g_submit_done, dcb_buffer <- g_buffer,
        dcb_buffer_offset <- g_offset, dcb <- g_dcb, gpu <- g_gpu, yielded <- g_yielded,
        submission_lock <- g_lock, send_init_packet <- g_init_packet, pc <- g_pc,
        call <- g_call, task <- g_task, sent <- g_sent

videoVars == <<v_labels, v_prev, v_pending, v_gc, v_current, v_requests, v_subscribers, v_frames,
               v_next, v_command_queue, v_gpu, v_present, v_req>>

Video == INSTANCE VideoOut WITH
        FrameBuffers <- 2, CpuBuffers <- {2}, NoBuffer <- -1, MaxPending <- 3, MaxFrames <- 2,
        buffer_labels <- v_labels, prev_index <- v_prev, flip_pending_num <- v_pending,
        gc_queue_num <- v_gc, current_buffer <- v_current, requests <- v_requests,
        subscribers <- v_subscribers, frames <- v_frames, next <- v_next,
        command_queue <- v_command_queue, gpu <- v_gpu, present <- v_present, req <- v_req

ASSUME PartsAssumption == Gpu!GpuAssumption /\ Video!VideoOutAssumption

-------------------------------------------------------------------------------
PartsInit ==
    /\ part \in {"lifecycle", "gpu", "video"}
    /\ Init /\ Gpu!Init /\ Video!Init

PartsNext ==
    /\ UNCHANGED part
    /\ \/ part = "lifecycle" /\ Next /\ UNCHANGED <<gpuVars, videoVars>>
       \/ part = "gpu" /\ Gpu!Next /\ UNCHANGED <<vars, videoVars>>
       \/ part = "video" /\ Video!Next /\ UNCHANGED <<vars, gpuVars>>

PartsSpec == PartsInit /\ [][PartsNext]_<<part, vars, gpuVars, videoVars>>

-------------------------------------------------------------------------------
(* Properties *)

\* num_submits is off by exactly the guests that have yet to count their task, and the
\* command processor sleeps only when there is nothing to do and no guest depends on it
\* to lift the submission lock (Process, SubmitGfx, SubmitAsc, sceGnmSubmitDone).
SleepsOnlyIdle == part = "gpu" => Gpu!SleepsOnlyIdle

\* Pending flips are counted, a frame is drawn only to a buffer that is not and will not
\* be on screen, and the GPU thread does not sleep for a label that nobody will release
\* (SubmitFlip, Flip, WaitVoLabel).
FlipsSafe == part = "video" => Video!FlipsSafe
===============================================================================
