------------------------- MODULE MCStorageScheduler -------------------------
(* Small instances of StorageScheduler for TLC. *)
EXTENDS StorageScheduler

CONSTANTS r1, r2, r3, f, g, h1, h2

Read(file, offset, priority, spans) ==
    [file |-> file, offset |-> offset, priority |-> priority, spans |-> spans]

\* r1 takes two chunks of two spans, r2 starts where the first chunk of r1 ends
\* and r3 is more urgent.
MCReads == (r1 :> {Read(f, 0, 0, <<1, 2>>)}) @@ (r2 :> {Read(f, 2, 0, <<1>>)})
           @@ (r3 :> {Read(g, 0, 1, <<1>>)})

MCSymmetry == Permutations(HostWorkers)
=============================================================================
