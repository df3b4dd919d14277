------------------------------- MODULE MCQueues -------------------------------
(***************************************************************************)
(* One run for two parts of libkernel that share nothing: kernel semaphores, *)
(* under the names of their module, with threads of two priorities, and      *)
(* event queues.  The one that part names takes its steps; the other stays   *)
(* where it begins.                                                          *)
(***************************************************************************)
EXTENDS OrbisSemCounting, TLC

CONSTANTS a, b, c

MCPrio == [t \in Threads |-> IF t = c THEN 0 ELSE 1]
MCSetCounts == {-1, 1}

VARIABLES
    part,
    e_events, e_triggered, e_armed, e_queued, e_io, e_ioId, e_small, e_expired,
    e_pc, e_arg, e_num, e_timed


equeueVars == <<e_events, e_triggered, e_armed, e_queued, e_io, e_ioId, e_small, e_expired,
                e_pc, e_arg, e_num, e_timed>>

Queue == INSTANCE Equeue WITH
        Threads <- {a, b}, Level <- {}, Edge <- {"edge"}, Periodic <- {"timer"},
        OneShot <- {"hrtimer"}, Small <- TRUE, NoId <- "none", Nums <- {1, 2}, MaxQueued <- 1,
        Deadlines <- {TRUE},
        m_events <- e_events, triggered <- e_triggered, armed <- e_armed, queued <- e_queued,
        io <- e_io, ioId <- e_ioId, m_small_timers <- e_small, expired <- e_expired,
        pc <- e_pc, arg <- e_arg, num <- e_num, timed <- e_timed

ASSUME PartsAssumption == Queue!EqueueAssumption

\* a and b have the same priority, and nothing else tells them apart.
Alike == Permutations({a, b})

-------------------------------------------------------------------------------
PartsInit ==
    /\ part \in {"semaphore", "equeue"}
    /\ Init /\ Queue!Init

PartsNext ==
    /\ UNCHANGED part
    /\ \/ part = "semaphore" /\ Next /\ UNCHANGED equeueVars
       \/ part = "equeue" /\ Queue!Next /\ UNCHANGED vars

PartsSpec == PartsInit /\ [][PartsNext]_<<part, vars, equeueVars>>

-------------------------------------------------------------------------------
(* Properties *)

\* A thread sleeps in WaitForEvents only while no event that is received once is there
\* for it, or a notification, or a thread that got one, is under way.
NoMissedEdge == part = "equeue" => Queue!NoMissedEdge

\* A registered timer has a pending wait or its callback on the way, however it is
\* removed and added again while TimerCallback runs.
TimersStayAlive == part = "equeue" => Queue!TimersStayAlive

\* Once triggered, an event stays so until GetTriggeredEvents hands it to a waiting
\* thread or somebody deletes it.
TriggeredStays == Queue!TriggeredStays
===============================================================================
