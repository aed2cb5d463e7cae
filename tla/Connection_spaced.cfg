\* Two devices: the broadcasts of one are processed further apart than a
\* handshake lives (two ticks against one), those of the other at any
\* distance; channels that may get no socket.
CONSTANTS
    d1 = d1
    Device = {d1, d2}
    NoDevice = NoDevice
    MaxHandle = 2
    ExpireTicks = 1
    HbLimit = 1
    BroadcastGap <- OneSpaced
    BindFails = TRUE
    MaxAttempts = 3
SPECIFICATION FairSpec
INVARIANTS OneSession SessionsPaired
PROPERTIES RemovedWasSilent ToldTheTruth SilentDeviceRemoved ConnectionAnnounced
