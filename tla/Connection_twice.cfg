\* Broadcasts at any distance: the IO thread works off a backlog, so that a
\* second broadcast is processed before the first handshake is answered.
CONSTANTS
    d1 = d1
    Device = {d1}
    NoDevice = NoDevice
    MaxHandle = 2
    ExpireTicks = 1
    HbLimit = 1
    BroadcastGap <- Hurried
    BindFails = FALSE
    MaxAttempts = 3
SPECIFICATION Spec
PROPERTY HeartbeatTimeout
