\* Two channels, of one handle or of two, handshakes and a stranger on three
\* descriptors; a thread that posts for ever.
CONSTANTS
    NFd = 3
    Discovery = Discovery
    Channel = {1, 2}
    Handle = {h1, h2}
    Foreign = Foreign
    Nobody = Nobody
    User = {u1}
    MaxPollSize = 4
    DrainSize = 5
    MaxPending = 2
SPECIFICATION LoopSpec
INVARIANTS RegisteredAsOwned NoLostWakeup
PROPERTIES CalledAlive TaskRuns PollsAgain ChannelServed
