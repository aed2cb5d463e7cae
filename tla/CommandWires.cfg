\* One command.  On the reliable wire a datagram takes up to a tick and the IO
\* thread is up to a tick late; a smaller limit of silence would be too small.
CONSTANTS
    Cmd = {c1}
    NoCmd = NoCmd
    SeqMax = 4
    CmdTimeout = 1
    HbPeriod = 1
    MaxStall = 1
    LossyHbLimit = 2
    PacketLife = 1
SPECIFICATION Spec
INVARIANT AnsweredDeviceKept
PROPERTIES EveryCommandSettles DeadDeviceDropped
\* The channel closes once the device is given up: the system may stop.
CHECK_DEADLOCK FALSE
