\* Packets of three and five bytes, preambles of two, of which some claim no
\* length, less than a checksum, no more than a preamble, or more than the cache
\* of 11 bytes can hold: 5 for a packet that is waited for and 6 for the move
\* limit.
CONSTANTS
    PreambleLen = 2
    CrcSize = 2
    Lens = {0, 1, 2, 3, 5, 12}
    CacheSize = 11
    MoveLimit = 6
    MaxDatagram = 5
    MaxPackets = 3
SPECIFICATION FairSpec
INVARIANTS NothingLost NoneLost
PROPERTY ParsingEnds
\* No datagram comes any more.
CHECK_DEADLOCK FALSE
