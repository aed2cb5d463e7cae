\* Two commands over a wire that loses, duplicates and reorders.
CONSTANTS
    Cmd = {c1, c2}
    NoCmd = NoCmd
    SeqMax = 4
    CmdTimeout = 1
    HbPeriod = 1
    HbLimit = 0
    PacketLife = 1
    MaxStall = 1
    Faulty = TRUE
SPECIFICATION Spec
SYMMETRY CmdSymmetry
INVARIANTS ReportedOnce SuccessMeansExecuted
PROPERTIES SilentAfterClose KeepsPromise
\* The channel closes once the device is given up: the system may stop.
CHECK_DEADLOCK FALSE
