\* PyUninit while a callback waits for the lock.
CONSTANTS
    Lidar = {h1}
    NoLidar = NoLidar
    StartsAgain = FALSE
    DataSends = FALSE
    Kind = {k1, k2}
    Pointer = {}
    Cmd = {c1, c2}
    NoCmd = NoCmd
    Paced = TRUE
SPECIFICATION PyFairSpec
PROPERTY PyUninitReturns
\* The violation is itself a deadlock.
CHECK_DEADLOCK FALSE
