\* A Mid40 and a Horizon; one disconnection or loss of state and one failure
\* per run of a program.  A write buffer that the third packet of a frame
\* cross, and sentences of which more than one fits into Synchro's buffer.
CONSTANTS
    h1 = h1
    h2 = h2
    Handles = {h1, h2}
    TypeOf <- OneTypeEach
    MaxEvents = 1
    MaxFaults = 1
    CommandLines <- Lines
    MaxFrames = 1
    FileFrames = 3
    MaxSentences = 2
    WriteBufferLen = 3000
    MaxDevices = 2
    PacketTypes = {"Cartesian", "TripleExtendSpherical", "Imu"}
    MaxPackets = 3
    BufLen = 128
    BodyLen = 40
    NoiseSizes = {0, 2, 30}
SPECIFICATION ProgramsSpec
INVARIANTS AskedForEveryBit SamplingIsTrue SampleStateIsTrue HeaderComplete FramesChain TimeReachesAll LossBounded
PROPERTIES EveryDeviceSamples RecordingStarts
\* Programs end.
CHECK_DEADLOCK FALSE
