\* A Mid40 and a Horizon, plugged in or not; one handshake at a time (a late
\* broadcast still starts a second one for a hub that is connected), one loss
\* or change and one failure per run of a program.
CONSTANTS
    u1 = u1
    u2 = u2
    Units = {u1, u2}
    TypeOf <- OneTypeEach
    Hub = hubHandle
    MaxShakes = 1
    MaxEvents = 1
    MaxFaults = 1
    MaxFrames = 1
SPECIFICATION ProgramsSpec
INVARIANTS UnitsTold HubBitIsAsked SamplingIsTrue
PROPERTY RecordingStarts
\* Programs end.
CHECK_DEADLOCK FALSE
