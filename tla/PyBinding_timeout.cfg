\* A command whose response is a pointer times out.
CONSTANTS
    Lidar = {h1}
    NoLidar = NoLidar
    StartsAgain = FALSE
    DataSends = FALSE
    Kind = {k1, k2}
    Pointer = {k2}
    Cmd = {c1, c2}
    NoCmd = NoCmd
    Paced = TRUE
SPECIFICATION PySpec
INVARIANT TimeoutHarmless
\* Uninit and a callback may wait for each other: see PyBinding_uninit.cfg.
CHECK_DEADLOCK FALSE
