\* One LiDAR, two commands of two kinds: the lock between the program, the IO
\* thread and a data thread.
CONSTANTS
    Lidar = {h1}
    NoLidar = NoLidar
    StartsAgain = FALSE
    DataSends = FALSE
    Kind = {k1, k2}
    Pointer = {k2}
    Cmd = {c1, c2}
    NoCmd = NoCmd
    Paced = TRUE
SPECIFICATION PyFairSpec
INVARIANT PythonAlone
PROPERTY CallbackReturns
\* Uninit and a callback may wait for each other: see PyBinding_uninit.cfg.
CHECK_DEADLOCK FALSE
