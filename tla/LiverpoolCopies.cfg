\* Command buffers are copied; three tasks, two of which fit into the copy buffer.
CONSTANTS
    Graphics = "graphics"
    Compute = {"compute"}
    NoThread = "none"
    Tasks = {1, 2, 3}
    NoTask = 0
    CopyCmds = TRUE
    Reserved = 2
    Modulus = 8
    MaxCommands = 0
SPECIFICATION Spec
INVARIANT CopiesIntact
