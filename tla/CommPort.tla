-------------------------------- MODULE CommPort --------------------------------
(***************************************************************************)
(* The cache and the parser of CommPort (comm_port.cpp, sdk_protocol.cpp), *)
(* through which every datagram of a channel, and of all the sockets of    *)
(* the discovery together, is turned into packets.                         *)
(*                                                                         *)
(* A byte is known by the packet it was sent in, the length that packet    *)
(* claims, and its offset.  The checksums are taken to do their work: a    *)
(* preamble is accepted where the first bytes of one packet stand in their *)
(* order, a packet where all of them do.  A preamble may claim any length; *)
(* one that is not longer than the preamble is no packet's, and nothing of *)
(* its kind comes but preambles.  A datagram is any stretch of a packet or *)
(* of such a preamble, or the rest of the packet that the last one began.  *)
(***************************************************************************)
EXTENDS Integers, Sequences

CONSTANTS
    PreambleLen,  \* GetPreambleLen: the length is in the preamble
    CrcSize,      \* kSdkPacketCrcSize: the checksum at the end of a packet
    Lens,         \* the lengths that preambles claim
    CacheSize,    \* kCacheSize
    MoveLimit,    \* kMoveCacheLimit
    MaxDatagram,  \* no datagram is longer
    MaxPackets    \* bound of the model on the packets that are begun

ASSUME PreambleAssumption == PreambleLen \in Nat \ {0}
ASSUME LensAssumption == Lens \subseteq Nat /\ CrcSize \in 0..PreambleLen
ASSUME CacheAssumption == CacheSize \in Nat /\ MoveLimit \in Nat
ASSUME BoundAssumption == MaxDatagram \in Nat /\ MaxPackets \in Nat

\* What the constants of the code satisfy: preambles of 9 bytes, datagrams
\* below 1500, a move limit of 1536 and a cache of 8192.
ASSUME RoomAssumption ==
    /\ MaxDatagram < MoveLimit
    /\ PreambleLen + MoveLimit <= CacheSize
    /\ \A l \in Lens : l > CacheSize \/ l + MoveLimit <= CacheSize

VARIABLES
    rd, wr,     \* cache_.rd_idx, cache_.wr_idx
    valid,      \* the bytes between them
    step,       \* parse_step_: kSearchPacketPreamble, kGetPacketData; or the
                \* process is gone
    parsing,    \* inside the loop of OnData that calls ParseCommStream
    sent,       \* the number of packets that have been begun
    cut,        \* the last packet as begun: its length, what has come of it
    whole,      \* the packets all of whose bytes have come, in order
    delivered,  \* the packets ParseCommStream has yielded
    lost,       \* a byte was received that is not in the cache
    wiped       \* the packets with bytes in the cache when it was emptied

vars ==
    <<rd, wr, valid, step, parsing, sent, cut, whole, delivered, lost, wiped>>
wire == <<sent, cut, whole>>

NoCut == [len |-> 0, upto |-> 0]

Byte == [pkt : 1..MaxPackets, len : Lens, off : Nat]

TypeOK ==
    /\ rd \in 0..CacheSize - 1 /\ wr \in 0..CacheSize - 1
    /\ valid \in Seq(Byte) /\ wr = rd + Len(valid)
    /\ step \in {"search", "get", "crashed"}
    /\ parsing \in BOOLEAN
    /\ sent \in 0..MaxPackets
    /\ cut \in [len : Lens \cup {0}, upto : Nat]
    /\ whole \subseteq 1..MaxPackets
    /\ delivered \in Seq(1..MaxPackets)
    /\ lost \in BOOLEAN
    /\ wiped \subseteq 1..MaxPackets

Init ==
    /\ rd = 0 /\ wr = 0
    /\ valid = <<>>
    /\ step = "search"
    /\ parsing = FALSE
    /\ sent = 0
    /\ cut = NoCut
    /\ whole = {}
    /\ delivered = <<>>
    /\ lost = FALSE
    /\ wiped = {}

-----------------------------------------------------------------------------
(* The cache.                                                              *)

\* Mutant: the move waits until the cache is full.
Crowded_WhenFull == wr + 1 >= CacheSize

\* GetCacheTailSize() < kMoveCacheLimit
Crowded == CacheSize - wr < MoveLimit

\* Where UpdateCache leaves the read and the write index.
MovedRd == IF Crowded THEN 0 ELSE rd
MovedWr == IF Crowded THEN Len(valid) ELSE wr

\* What RecvFrom gets into the free space; the rest of a datagram is gone.
Received(datagram, free) ==
    IF Len(datagram) <= free THEN datagram ELSE SubSeq(datagram, 1, free)

(* FetchCacheFreeSpace, RecvFrom and UpdateCacheWrIdx, which refuses to    *)
(* fill the cache to the brim; the caller ignores that and parses anyway.  *)
Write(datagram) ==
    LET got == Received(datagram, CacheSize - MovedWr)
        fits == MovedWr + Len(got) < CacheSize
    IN /\ rd' = MovedRd
       /\ wr' = IF fits THEN MovedWr + Len(got) ELSE MovedWr
       /\ valid' = IF fits THEN valid \o got ELSE valid
       /\ lost' = (lost \/ ~fits \/ got # datagram)

-----------------------------------------------------------------------------
(* Datagrams.                                                              *)

Bytes(pkt, len, from, to) ==
    [i \in 1..to - from |-> [pkt |-> pkt, len |-> len, off |-> from + i - 1]]

\* A packet is longer than its preamble.
Sound(len) == len > PreambleLen

\* The bytes there are of what claims that length.
Size(len) == IF Sound(len) THEN len ELSE PreambleLen

\* The bytes from..to-1 of a new packet: all of it, its head, or any piece; or
\* a preamble that claims to be one, or a piece of that.
OnData(len, from, to) ==
    /\ ~parsing /\ step # "crashed" /\ sent < MaxPackets
    /\ from < to /\ to - from <= MaxDatagram
    /\ Write(Bytes(sent + 1, len, from, to))
    /\ sent' = sent + 1
    /\ cut' = IF Sound(len) /\ from = 0 /\ to < len THEN [len |-> len, upto |-> to] ELSE NoCut
    /\ whole' = IF Sound(len) /\ from = 0 /\ to = len THEN whole \cup {sent + 1} ELSE whole
    /\ parsing' = TRUE
    /\ UNCHANGED <<step, delivered, wiped>>

\* The rest of the packet whose head came last.
OnRest ==
    /\ ~parsing /\ step # "crashed" /\ cut.len # 0
    /\ cut.len - cut.upto <= MaxDatagram
    /\ Write(Bytes(sent, cut.len, cut.upto, cut.len))
    /\ cut' = NoCut
    /\ whole' = whole \cup {sent}
    /\ parsing' = TRUE
    /\ UNCHANGED <<step, sent, delivered, wiped>>

-----------------------------------------------------------------------------
(* ParseCommStream, one turn of its loop after the other.                  *)

\* The first n valid bytes are the first n of one packet.
StartsPacket(n) ==
    /\ n <= Len(valid)
    /\ \A i \in 1..n : valid[i] = [valid[1] EXCEPT !.off = i - 1]

Skip(n) ==
    /\ rd' = rd + n
    /\ valid' = SubSeq(valid, n + 1, Len(valid))
    /\ UNCHANGED wr

PackLen == valid[1].len

\* At most a preamble is left, or ...
StopParsing ==
    /\ parsing /\ Len(valid) <= PreambleLen
    /\ parsing' = FALSE
    /\ UNCHANGED <<rd, wr, valid, step, wire, delivered, lost, wiped>>

Search ==
    /\ parsing /\ Len(valid) > PreambleLen /\ step = "search"
    /\ IF StartsPacket(PreambleLen)
       THEN step' = "get" /\ UNCHANGED <<rd, wr, valid>>
       ELSE step' = step /\ Skip(1)
    /\ UNCHANGED <<parsing, wire, delivered, lost, wiped>>

\* Mutants: a bad packet is skipped by the length it claims, or not at all.
BadSkip_Claimed == PackLen
BadSkip_None == 0

\* How far the parser goes on when the packet's checksum is wrong.
BadSkip == PreambleLen

\* GetValidDataSize() >= CUR_PACK_LEN && CUR_PACK_LEN
Complete == Len(valid) >= PackLen /\ PackLen # 0

\* CheckPacket: the last bytes the length counts are the packet's checksum.
CheckPacket == Sound(PackLen) /\ StartsPacket(PackLen)

GetPacket ==
    /\ parsing /\ Len(valid) > PreambleLen /\ step = "get"
    /\ Complete
    /\ step' = "search"
    /\ IF CheckPacket
       THEN delivered' = Append(delivered, valid[1].pkt) /\ Skip(PackLen)
       ELSE delivered' = delivered /\ Skip(BadSkip)
    /\ UNCHANGED <<parsing, wire, lost, wiped>>

(* A length below that of the checksum: CheckPacket reads before the packet*)
(* and sums up 2^32 bytes less a few.  What it finds may be the wrong sum, *)
(* as in GetPacket, or the end of the memory.                              *)
Overrun ==
    /\ parsing /\ Len(valid) > PreambleLen /\ step = "get"
    /\ Complete /\ PackLen < CrcSize
    /\ step' = "crashed" /\ parsing' = FALSE
    /\ UNCHANGED <<rd, wr, valid, wire, delivered, lost, wiped>>

\* CUR_PACK_LEN > cache_.size
Hopeless == PackLen > CacheSize

\* ... the packet is not complete: it is waited for, unless that is hopeless.
Await ==
    /\ parsing /\ Len(valid) > PreambleLen /\ step = "get"
    /\ ~Complete
    /\ parsing' = FALSE
    /\ IF Hopeless
       THEN /\ rd' = 0 /\ wr' = 0 /\ valid' = <<>> /\ step' = "search"
            /\ wiped' = wiped \cup {valid[i].pkt : i \in DOMAIN valid}
       ELSE UNCHANGED <<rd, wr, valid, step, wiped>>
    /\ UNCHANGED <<wire, delivered, lost>>

Parse == StopParsing \/ Search \/ GetPacket \/ Overrun \/ Await

Next ==
    \/ \E len \in Lens : \E from, to \in 0..Size(len) : OnData(len, from, to)
    \/ OnRest
    \/ Parse

Spec == Init /\ [][Next]_vars

\* The loop of OnData runs on while the thread is scheduled.
FairSpec == Spec /\ WF_vars(Parse)

-----------------------------------------------------------------------------
\* The lengths of packets that the cache can hold.
Fitting == {l \in Lens : l <= CacheSize}

\* The parser waits for a packet of no length, and for ever.
Jammed == step = "get" /\ PackLen = 0

\* No byte of a datagram is dropped, unless the parser waits for a packet that
\* claims the length 0: there is always room for the next datagram, whatever
\* incomplete packet the parser is waiting for.
NothingLost == lost => Jammed

\* Between two datagrams the parser holds less than one packet: what it
\* waits for can still come, and whatever stands behind an incomplete packet
\* is reached as soon as that many bytes are there.
HoldsLessThanAPacket ==
    ~parsing /\ step # "crashed" =>
        Len(valid) <= PreambleLen \/ Jammed \/ \E l \in Fitting : Len(valid) < l

\* The packets that stand complete among the valid bytes.
Standing ==
    {valid[i].pkt : i \in {j \in DOMAIN valid :
        /\ Sound(valid[j].len)
        /\ valid[j].off = 0 /\ j + valid[j].len - 1 <= Len(valid)
        /\ \A k \in 0..valid[j].len - 1 : valid[j + k] = [valid[j] EXCEPT !.off = k]}}

\* As long as no byte was dropped, no complete packet is passed over, though
\* the bytes before it are those of a packet that was cut, or of none, and
\* packets come out in the order in which they came in, each once.  Only the
\* ones behind a preamble that claims more than the cache can hold go, with all
\* that is in it.
NoneLost ==
    ~lost =>
        /\ whole \ wiped = Standing \cup {delivered[i] : i \in DOMAIN delivered}
        /\ \A i, j \in DOMAIN delivered : i < j => delivered[i] < delivered[j]

\* The parser comes to an end with every datagram.
ParsingEnds == parsing ~> ~parsing
=============================================================================
