----------------------------- MODULE CommPort_proof -----------------------------
(***************************************************************************)
(* Whatever the sizes: unless the parser waits for a packet of no length,  *)
(* the cache always has room for the next datagram and holds less than one *)
(* packet between two of them; no packet that has come completely is lost  *)
(* before a datagram is.                                                   *)
(***************************************************************************)
EXTENDS CommPort, TLAPS

USE PreambleAssumption, LensAssumption, CacheAssumption, BoundAssumption

\* What is in the cache while no parsing goes on, and while a packet is got.
Waiting ==
    /\ step = "get" => Len(valid) > PreambleLen
    /\ ~parsing => \/ Len(valid) <= PreambleLen
                   \/ step = "get" /\ Len(valid) < PackLen /\ PackLen <= CacheSize
                   \/ Jammed \/ step = "crashed"

\* A packet of which the rest may come has been begun and is not whole.
Begun ==
    cut.len # 0 =>
        sent \in 1..MaxPackets /\ Sound(cut.len) /\ cut.upto \in 0..cut.len

Inv == TypeOK /\ Waiting /\ Begun /\ NothingLost

-----------------------------------------------------------------------------
(* Sequences.                                                              *)

\* What is left when the first n elements of a sequence are gone.
LEMMA SkipSeq ==
    ASSUME NEW S, NEW s \in Seq(S), NEW n \in 0..Len(s)
    PROVE  /\ SubSeq(s, n + 1, Len(s)) \in Seq(S)
           /\ Len(SubSeq(s, n + 1, Len(s))) = Len(s) - n
  OBVIOUS

\* One sequence behind another.
LEMMA ConcatSeq ==
    ASSUME NEW S, NEW s \in Seq(S), NEW t \in Seq(S)
    PROVE  /\ s \o t \in Seq(S) /\ Len(s \o t) = Len(s) + Len(t)
           /\ Len(s) > 0 => (s \o t)[1] = s[1]
  OBVIOUS

\* The bytes of a piece of a packet are bytes, as many as the piece is long.
LEMMA BytesSeq ==
    ASSUME NEW pkt \in 1..MaxPackets, NEW len \in Lens,
           NEW from \in Nat, NEW to \in Nat, from <= to
    PROVE  /\ Bytes(pkt, len, from, to) \in Seq(Byte)
           /\ Len(Bytes(pkt, len, from, to)) = to - from
  <1>1. to - from \in Nat
    OBVIOUS
  <1>2. \A i \in 1..to - from :
            [pkt |-> pkt, len |-> len, off |-> from + i - 1] \in Byte
    BY <1>1 DEF Byte
  <1> QED  BY <1>1, <1>2 DEF Bytes

\* The first byte tells the length of a packet.
LEMMA FirstByte ==
    ASSUME TypeOK, Len(valid) > 0
    PROVE  PackLen \in Lens /\ PackLen \in Nat
  <1>1. valid[1] \in Byte
    BY DEF TypeOK
  <1> QED  BY <1>1 DEF PackLen, Byte

-----------------------------------------------------------------------------
(* A datagram always fits, and leaves the head of the cache what it is.    *)

\* While the parser waits the cache holds no more than the move limit leaves.
LEMMA LittleHeld ==
    ASSUME TypeOK, Waiting, ~parsing, ~Jammed, step # "crashed"
    PROVE  Len(valid) + MoveLimit <= CacheSize
  <1>0. Len(valid) \in Nat
    BY DEF TypeOK
  <1>1. CASE Len(valid) <= PreambleLen
    BY <1>0, <1>1, RoomAssumption
  <1>2. CASE Len(valid) > PreambleLen
    <2>1. Len(valid) < PackLen /\ PackLen <= CacheSize
      BY <1>0, <1>2 DEF Waiting
    <2>2. PackLen \in Lens /\ PackLen \in Nat
      BY <1>0, <1>2, FirstByte
    <2>3. PackLen + MoveLimit <= CacheSize
      BY <2>1, <2>2, RoomAssumption
    <2> QED  BY <1>0, <2>1, <2>2, <2>3
  <1> QED  BY <1>0, <1>1, <1>2

\* Whatever is written stands behind what is there, and within the cache.
LEMMA WriteType ==
    ASSUME TypeOK, NEW d \in Seq(Byte), Write(d)
    PROVE  /\ valid' \in Seq(Byte) /\ Len(valid') \in Nat /\ Len(valid') >= Len(valid)
           /\ Len(valid) > 0 => valid'[1] = valid[1]
           /\ rd' \in 0..CacheSize - 1 /\ wr' \in 0..CacheSize - 1
           /\ wr' = rd' + Len(valid')
           /\ lost' \in BOOLEAN
  <1> DEFINE got == Received(d, CacheSize - MovedWr)
  <1>0. /\ Len(valid) \in Nat /\ valid \in Seq(Byte) /\ Len(d) \in Nat
        /\ rd \in 0..CacheSize - 1 /\ wr \in 0..CacheSize - 1
        /\ wr = rd + Len(valid) /\ CacheSize \in Nat
    BY DEF TypeOK
  <1>1. /\ MovedRd \in Nat /\ MovedWr \in Nat /\ MovedWr < CacheSize
        /\ MovedWr = MovedRd + Len(valid)
    BY <1>0 DEF MovedWr, MovedRd
  <1>2. got \in Seq(Byte) /\ Len(got) \in Nat
    <2>1. CacheSize - MovedWr \in Nat
      BY <1>0, <1>1
    <2> DEFINE free == CacheSize - MovedWr
    <2> HIDE DEF free
    <2>4. free \in Nat /\ got = Received(d, free)
      BY <2>1 DEF free
    <2>2. CASE Len(d) <= free
      BY <1>0, <2>2, <2>4 DEF Received
    <2>3. CASE ~(Len(d) <= free)
      <3>1. SubSeq(d, 1, free) \in Seq(Byte) /\ Len(SubSeq(d, 1, free)) = free
        BY <1>0, <2>3, <2>4
      <3> QED  BY <2>3, <2>4, <3>1 DEF Received
    <2> QED  BY <2>2, <2>3
  <1>3. /\ rd' = MovedRd /\ lost' \in BOOLEAN
        /\ \/ MovedWr + Len(got) < CacheSize /\ wr' = MovedWr + Len(got) /\ valid' = valid \o got
           \/ wr' = MovedWr /\ valid' = valid
    BY DEF Write
  <1> HIDE DEF got
  <1>4. /\ valid \o got \in Seq(Byte) /\ Len(valid \o got) = Len(valid) + Len(got)
        /\ Len(valid) > 0 => (valid \o got)[1] = valid[1]
    BY <1>0, <1>2, ConcatSeq
  <1>5. CASE MovedWr + Len(got) < CacheSize /\ wr' = MovedWr + Len(got) /\ valid' = valid \o got
    <2>1. Len(valid') = Len(valid) + Len(got)
      BY <1>4, <1>5
    <2>2. Len(valid') \in Nat /\ Len(valid') >= Len(valid) /\ wr' = rd' + Len(valid')
      BY <1>0, <1>1, <1>2, <1>3, <1>5, <2>1
    <2>3. rd' \in 0..CacheSize - 1 /\ wr' \in 0..CacheSize - 1
      BY <1>0, <1>1, <1>2, <1>3, <1>5
    <2> QED  BY <1>3, <1>4, <1>5, <2>2, <2>3
  <1>6. CASE wr' = MovedWr /\ valid' = valid
    BY <1>0, <1>1, <1>3, <1>6
  <1> QED  BY <1>3, <1>5, <1>6

\* What is not lost is all there.
LEMMA WriteKeeps ==
    ASSUME NEW d, Write(d), ~lost'
    PROVE  ~lost /\ valid' = valid \o d
  BY DEF Write

\* While the parser waits for what may come there is room for a datagram.
LEMMA WriteFits ==
    ASSUME TypeOK, Waiting, NothingLost, ~parsing, ~Jammed, step # "crashed",
           NEW d \in Seq(Byte), Len(d) <= MaxDatagram, Write(d)
    PROVE  ~lost'
  <1>0. /\ Len(valid) \in Nat /\ Len(d) \in Nat
        /\ rd \in 0..CacheSize - 1 /\ wr \in 0..CacheSize - 1
        /\ wr = rd + Len(valid)
    BY DEF TypeOK
  <1>1. MovedWr \in Nat /\ MovedWr + Len(d) < CacheSize
    BY <1>0, LittleHeld, RoomAssumption DEF MovedWr, Crowded
  <1>2. Received(d, CacheSize - MovedWr) = d
    BY <1>0, <1>1 DEF Received
  <1> QED  BY <1>1, <1>2 DEF Write, NothingLost

\* What the parser waits for stays what it is.
LEMMA WriteJammed ==
    ASSUME TypeOK, Waiting, NEW d \in Seq(Byte), Write(d), step' = step, Jammed
    PROVE  Jammed'
  <1>1. Len(valid) > 0
    BY DEF Waiting, Jammed, TypeOK
  <1> QED  BY <1>1, WriteType DEF Jammed, PackLen

\* What is held while a datagram is parsed says the same of its first packet.
LEMMA WriteWaiting ==
    ASSUME TypeOK, Waiting, ~parsing, parsing', step' = step,
           Len(valid') \in Nat, Len(valid') >= Len(valid)
    PROVE  Waiting'
  <1>1. Len(valid) \in Nat
    BY DEF TypeOK
  <1> QED  BY <1>1 DEF Waiting

-----------------------------------------------------------------------------
\* The empty cache.
LEMMA InitInv == Init => Inv
  <1> SUFFICES ASSUME Init PROVE Inv
    OBVIOUS
  <1> USE DEF Init
  <1>0. /\ 0 \in 0..CacheSize - 1
        /\ valid \in Seq(Byte) /\ Len(valid) = 0
        /\ delivered \in Seq(1..MaxPackets)
        /\ cut \in [len : Lens \cup {0}, upto : Nat]
    BY RoomAssumption DEF NoCut
  <1>1. TypeOK
    <2>1. wr = rd + Len(valid) /\ sent \in 0..MaxPackets
      BY <1>0
    <2> QED  BY <1>0, <2>1 DEF TypeOK
  <1>2. Waiting /\ Begun /\ NothingLost
    BY DEF Waiting, Begun, NothingLost, NoCut
  <1> QED  BY <1>1, <1>2 DEF Inv

\* There is as much of what claims a length as that.
LEMMA SizeNat ==
    ASSUME NEW len \in Nat
    PROVE  Size(len) \in Nat /\ (Sound(len) => Size(len) = len)
  BY DEF Size

\* A new packet, or a piece of it.
LEMMA OnDataInv ==
    ASSUME Inv, NEW len \in Lens, NEW from \in 0..Size(len), NEW to \in 0..Size(len),
           OnData(len, from, to)
    PROVE  Inv'
  <1> DEFINE d == Bytes(sent + 1, len, from, to)
  <1>0. /\ TypeOK /\ Waiting /\ NothingLost /\ ~parsing /\ len \in Nat
        /\ sent \in 0..MaxPackets /\ sent < MaxPackets
        /\ from < to /\ to - from <= MaxDatagram /\ Write(d)
        /\ sent' = sent + 1 /\ parsing' = TRUE /\ step # "crashed"
        /\ UNCHANGED <<step, delivered, wiped>>
        /\ Size(len) \in Nat /\ from \in Nat /\ to \in Nat /\ from <= to
    <2>1. len \in Nat
      OBVIOUS
    <2>2. Size(len) \in Nat
      BY <2>1, SizeNat
    <2>3. from \in Nat /\ to \in Nat /\ (from < to => from <= to)
      BY <2>2
    <2> QED  BY <2>1, <2>2, <2>3 DEF Inv, OnData, TypeOK
  <1>1. sent + 1 \in 1..MaxPackets
    BY <1>0
  <1>2. d \in Seq(Byte) /\ Len(d) = to - from
    BY <1>0, <1>1, BytesSeq
  <1>3. Len(d) <= MaxDatagram
    BY <1>0, <1>2
  <1> HIDE DEF d
  <1>4. /\ valid' \in Seq(Byte) /\ Len(valid') \in Nat /\ Len(valid') >= Len(valid)
        /\ rd' \in 0..CacheSize - 1 /\ wr' \in 0..CacheSize - 1
        /\ wr' = rd' + Len(valid') /\ lost' \in BOOLEAN
    BY <1>0, <1>2, WriteType
  <1>5. cut' \in [len : Lens \cup {0}, upto : Nat] /\ Begun'
    <2>1. cut' = NoCut \/ cut' = [len |-> len, upto |-> to]
      BY DEF OnData
    <2>2. CASE cut' = NoCut
      BY <1>0, <2>2 DEF NoCut, Begun
    <2>3. CASE cut' = [len |-> len, upto |-> to] /\ cut' # NoCut
      <3>1. Sound(len) /\ to < len
        BY <2>3 DEF OnData
      <3> QED  BY <1>0, <1>1, <2>3, <3>1 DEF Begun
    <2> QED  BY <2>1, <2>2, <2>3
  <1>6. whole' \subseteq 1..MaxPackets
    BY <1>1 DEF OnData, Inv, TypeOK
  <1>7. TypeOK'
    <2>0. sent' \in 0..MaxPackets
      BY <1>0
    <2>1. parsing' \in BOOLEAN /\ lost' \in BOOLEAN
      BY <1>0, <1>4
    <2> QED  BY <1>0, <1>4, <1>5, <1>6, <2>0, <2>1 DEF TypeOK
  <1>8. NothingLost'
    BY <1>0, <1>2, <1>3, WriteFits, WriteJammed DEF NothingLost
  <1>9. Waiting'
    BY <1>0, <1>4, WriteWaiting
  <1> QED  BY <1>5, <1>7, <1>8, <1>9 DEF Inv

\* The rest of a packet.
LEMMA OnRestInv ==
    ASSUME Inv, OnRest
    PROVE  Inv'
  <1> DEFINE d == Bytes(sent, cut.len, cut.upto, cut.len)
  <1>0. /\ TypeOK /\ Waiting /\ Begun /\ NothingLost /\ ~parsing
        /\ cut.len # 0 /\ cut.len - cut.upto <= MaxDatagram /\ Write(d)
        /\ cut' = NoCut /\ whole' = whole \cup {sent} /\ parsing' = TRUE
        /\ step # "crashed" /\ UNCHANGED <<step, sent, delivered, wiped>>
    BY DEF Inv, OnRest
  <1>1. /\ sent \in 1..MaxPackets /\ cut.upto \in 0..cut.len
        /\ cut.len \in Lens /\ cut.len \in Nat
    BY <1>0 DEF Begun, TypeOK
  <1>2. d \in Seq(Byte) /\ Len(d) = cut.len - cut.upto
    <2>1. cut.upto \in Nat /\ cut.upto <= cut.len
      BY <1>1
    <2> QED  BY ZenonT(60), <1>1, <2>1, BytesSeq
  <1>3. Len(d) <= MaxDatagram
    BY <1>0, <1>2
  <1> HIDE DEF d
  <1>4. /\ valid' \in Seq(Byte) /\ Len(valid') \in Nat /\ Len(valid') >= Len(valid)
        /\ rd' \in 0..CacheSize - 1 /\ wr' \in 0..CacheSize - 1
        /\ wr' = rd' + Len(valid') /\ lost' \in BOOLEAN
    BY <1>0, <1>2, WriteType
  <1>5. cut' \in [len : Lens \cup {0}, upto : Nat] /\ Begun'
    BY <1>0 DEF NoCut, Begun
  <1>7. TypeOK'
    BY <1>0, <1>1, <1>4, <1>5 DEF TypeOK
  <1>8. NothingLost'
    BY <1>0, <1>2, <1>3, WriteFits, WriteJammed DEF NothingLost
  <1>9. Waiting'
    BY <1>0, <1>4, WriteWaiting
  <1> QED  BY <1>5, <1>7, <1>8, <1>9 DEF Inv

\* At most a preamble is left.
LEMMA StopParsingInv ==
    ASSUME Inv, StopParsing
    PROVE  Inv'
  <1> USE DEF Inv, StopParsing
  <1>1. TypeOK'
    BY DEF TypeOK, wire
  <1>2. Waiting'
    BY DEF Waiting
  <1>3. Begun' /\ NothingLost'
    BY DEF Begun, NothingLost, Jammed, PackLen, wire
  <1> QED  BY <1>1, <1>2, <1>3

\* The read index goes forward over bytes that are there.
LEMMA SkipType ==
    ASSUME TypeOK, NEW n \in 0..Len(valid), Skip(n)
    PROVE  /\ valid' \in Seq(Byte)
           /\ rd' \in 0..CacheSize - 1 /\ wr' \in 0..CacheSize - 1
           /\ wr' = rd' + Len(valid')
  <1>0. /\ Len(valid) \in Nat /\ valid \in Seq(Byte)
        /\ rd \in 0..CacheSize - 1 /\ wr \in 0..CacheSize - 1
        /\ wr = rd + Len(valid)
    BY DEF TypeOK
  <1>1. /\ rd' = rd + n /\ wr' = wr
        /\ valid' = SubSeq(valid, n + 1, Len(valid))
    BY DEF Skip
  <1>2. valid' \in Seq(Byte) /\ Len(valid') = Len(valid) - n
    BY <1>0, <1>1, SkipSeq
  <1>3. Len(valid') \in Nat /\ Len(valid') <= Len(valid)
    BY <1>0, <1>2
  <1>4. wr' = rd' + Len(valid')
    <2>1. /\ n \in Nat /\ rd \in Int /\ rd' = rd + n
          /\ Len(valid') = Len(valid) - n /\ wr' = rd + Len(valid)
      BY <1>0, <1>1, <1>2
    <2> QED  BY <1>0, <2>1
  <1>5. rd' \in 0..CacheSize - 1
    BY <1>0, <1>1, <1>3, <1>4
  <1> QED  BY <1>0, <1>1, <1>2, <1>4, <1>5

\* A preamble, or one byte that begins none.
LEMMA SearchInv ==
    ASSUME Inv, Search
    PROVE  Inv'
  <1>0. /\ TypeOK /\ parsing' = parsing /\ parsing /\ Len(valid) > PreambleLen
        /\ step = "search" /\ UNCHANGED <<parsing, wire, delivered, lost, wiped>>
        /\ ~lost
    BY DEF Inv, Search, NothingLost, Jammed
  <1>1. CASE step' = "get" /\ UNCHANGED <<rd, wr, valid>>
    <2>1. TypeOK'
      BY <1>0, <1>1 DEF TypeOK, wire
    <2> QED  BY <1>0, <1>1, <2>1 DEF Inv, Waiting, Begun, NothingLost, wire
  <1>2. CASE step' = step /\ Skip(1)
    <2>0. 1 \in 0..Len(valid)
      BY <1>0 DEF TypeOK
    <2>1. /\ valid' \in Seq(Byte)
          /\ rd' \in 0..CacheSize - 1 /\ wr' \in 0..CacheSize - 1
          /\ wr' = rd' + Len(valid')
      BY <1>0, <1>2, <2>0, SkipType
    <2>2. TypeOK'
      BY <1>0, <1>2, <2>1 DEF TypeOK, wire
    <2> QED  BY <1>0, <1>2, <2>2 DEF Inv, Waiting, Begun, NothingLost, wire
  <1> QED  BY <1>1, <1>2 DEF Search

\* A packet, or a preamble that no packet follows.
LEMMA GetPacketInv ==
    ASSUME Inv, GetPacket
    PROVE  Inv'
  <1>0. /\ TypeOK /\ parsing /\ Len(valid) > PreambleLen /\ Len(valid) \in Nat
        /\ Len(valid) >= PackLen /\ step' = "search"
        /\ UNCHANGED <<parsing, wire, lost, wiped>> /\ ~lost
    BY DEF Inv, GetPacket, Complete, NothingLost, Jammed, TypeOK
  <1>1. PackLen \in 0..Len(valid) /\ BadSkip \in 0..Len(valid)
    BY <1>0, FirstByte DEF BadSkip
  <1>2. PICK n \in 0..Len(valid) : Skip(n)
    BY <1>1 DEF GetPacket
  <1>3. /\ valid' \in Seq(Byte)
        /\ rd' \in 0..CacheSize - 1 /\ wr' \in 0..CacheSize - 1
        /\ wr' = rd' + Len(valid')
    BY <1>0, <1>2, SkipType
  <1>4. delivered' \in Seq(1..MaxPackets)
    <2>1. valid[1] \in Byte
      BY <1>0 DEF TypeOK
    <2>2. valid[1].pkt \in 1..MaxPackets
      BY <2>1 DEF Byte
    <2>3. delivered \in Seq(1..MaxPackets)
      BY <1>0 DEF TypeOK
    <2>4. delivered' = Append(delivered, valid[1].pkt) \/ delivered' = delivered
      BY DEF GetPacket
    <2>5. CASE delivered' = Append(delivered, valid[1].pkt)
      BY <2>2, <2>3, <2>5
    <2> QED  BY <2>3, <2>4, <2>5
  <1>5. TypeOK'
    BY <1>0, <1>3, <1>4 DEF TypeOK, wire
  <1> QED  BY <1>0, <1>5 DEF Inv, Waiting, Begun, NothingLost, wire

\* A length below that of the checksum.
LEMMA OverrunInv ==
    ASSUME Inv, Overrun
    PROVE  Inv'
  <1>0. /\ TypeOK /\ ~lost /\ step' = "crashed" /\ parsing' = FALSE
        /\ UNCHANGED <<rd, wr, valid, wire, delivered, lost, wiped>>
    BY DEF Inv, Overrun, Complete, NothingLost, Jammed
  <1>1. TypeOK'
    BY <1>0 DEF TypeOK, wire
  <1> QED  BY <1>0, <1>1 DEF Inv, Waiting, Begun, NothingLost, wire

\* A packet that is not complete.
LEMMA AwaitInv ==
    ASSUME Inv, Await
    PROVE  Inv'
  <1>0. /\ TypeOK /\ Len(valid) \in Nat /\ Len(valid) > PreambleLen
        /\ step = "get" /\ (Len(valid) < PackLen \/ PackLen = 0) /\ parsing' = FALSE
        /\ UNCHANGED <<wire, delivered, lost>> /\ PackLen \in Nat
    <2>1. TypeOK /\ Len(valid) \in Nat /\ Len(valid) > PreambleLen
      BY DEF Inv, Await, TypeOK
    <2>2. PackLen \in Nat
      BY <2>1, FirstByte
    <2> QED  BY <2>1, <2>2 DEF Await, Complete
  <1>1. CASE Hopeless
    <2>0. /\ rd' = 0 /\ wr' = 0 /\ valid' = <<>> /\ step' = "search"
          /\ wiped' = wiped \cup {valid[i].pkt : i \in DOMAIN valid}
      BY <1>1 DEF Await
    <2>1. \A i \in DOMAIN valid : valid[i] \in Byte
      BY <1>0 DEF TypeOK
    <2>2. wiped' \subseteq 1..MaxPackets
      BY <1>0, <2>0, <2>1 DEF TypeOK, Byte
    <2>3. valid' \in Seq(Byte) /\ Len(valid') = 0
      BY <2>0
    <2>4. TypeOK'
      <3>1. /\ rd' \in 0..CacheSize - 1 /\ wr' \in 0..CacheSize - 1
            /\ wr' = rd' + Len(valid')
        BY <2>0, <2>3, RoomAssumption
      <3> QED  BY <1>0, <2>0, <2>2, <2>3, <3>1 DEF TypeOK, wire
    <2>5. ~lost
      BY <1>0, <1>1 DEF Inv, NothingLost, Jammed, Hopeless
    <2> QED  BY <1>0, <2>0, <2>3, <2>4, <2>5 DEF Inv, Waiting, Begun, NothingLost, wire
  <1>2. CASE ~Hopeless
    <2>0. UNCHANGED <<rd, wr, valid, step, wiped>>
      BY <1>2 DEF Await
    <2>1. TypeOK'
      BY <1>0, <2>0 DEF TypeOK, wire
    <2>2. PackLen <= CacheSize
      BY <1>0, <1>2, FirstByte DEF Hopeless
    <2>3. Waiting'
      BY <1>0, <2>0, <2>2 DEF Waiting, Jammed, PackLen
    <2>4. Begun' /\ NothingLost'
      BY <1>0, <2>0 DEF Inv, Begun, NothingLost, Jammed, PackLen, wire
    <2> QED  BY <2>1, <2>3, <2>4 DEF Inv
  <1> QED  BY <1>1, <1>2

\* Every step keeps the invariant.
LEMMA StepInv == Inv /\ [Next]_vars => Inv'
  <1> SUFFICES ASSUME Inv, [Next]_vars PROVE Inv'
    OBVIOUS
  <1>1. CASE \E len \in Lens : \E from, to \in 0..Size(len) : OnData(len, from, to)
    BY <1>1, OnDataInv
  <1>2. CASE OnRest
    BY <1>2, OnRestInv
  <1>3. CASE StopParsing
    BY <1>3, StopParsingInv
  <1>4. CASE Search
    BY <1>4, SearchInv
  <1>5. CASE GetPacket
    BY <1>5, GetPacketInv
  <1>6. CASE Await
    BY <1>6, AwaitInv
  <1>7. CASE Overrun
    BY <1>7, OverrunInv
  <1>8. CASE UNCHANGED vars
    BY <1>8 DEF vars, Inv, TypeOK, Waiting, Begun, NothingLost, Jammed, PackLen
  <1> QED  BY <1>1, <1>2, <1>3, <1>4, <1>5, <1>6, <1>7, <1>8 DEF Next, Parse

\* The invariant holds in every state of every behaviour.
THEOREM Invariant == Spec => []Inv
  BY InitInv, StepInv, PTL DEF Spec

-----------------------------------------------------------------------------
\* The indices stay within the cache of CommPort, and the bytes between them
\* are the ones that are valid.
THEOREM TypeCorrect == Spec => []TypeOK
  <1>1. Inv => TypeOK
    BY DEF Inv
  <1> QED  BY <1>1, Invariant, PTL

\* FetchCacheFreeSpace always finds room for a datagram, and UpdateCacheWrIdx
\* never refuses one, however the packets are cut and whatever lengths they
\* claim, unless the parser waits for a packet that claims the length 0.
THEOREM NothingLostAlways == Spec => []NothingLost
  <1>1. Inv => NothingLost
    BY DEF Inv
  <1> QED  BY <1>1, Invariant, PTL

\* ParseCommStream goes back to the socket only when less than a packet that
\* the cache can hold is left in it, or a packet of no length is waited for.
THEOREM HoldsLessThanAPacketAlways == Spec => []HoldsLessThanAPacket
  <1>1. Inv => HoldsLessThanAPacket
    <2> SUFFICES ASSUME Inv, ~parsing, step # "crashed", ~Jammed,
                        ~(Len(valid) <= PreambleLen)
                 PROVE  \E l \in Fitting : Len(valid) < l
      BY DEF HoldsLessThanAPacket
    <2>1. TypeOK /\ Len(valid) \in Nat /\ Len(valid) > 0
      BY DEF Inv, TypeOK
    <2>2. PackLen \in Lens
      BY <2>1, FirstByte
    <2>3. Len(valid) < PackLen /\ PackLen <= CacheSize
      BY DEF Inv, Waiting
    <2> QED  BY <2>2, <2>3 DEF Fitting
  <1> QED  BY <1>1, Invariant, PTL

\* A preamble that claims the length 0 is the last that the parser reads:
\* CUR_PACK_LEN keeps it waiting, and nothing is yielded any more.
THEOREM JammedForEver == Spec => [][Jammed => Jammed' /\ delivered' = delivered]_vars
  <1>1. ASSUME Inv, Jammed, [Next]_vars
        PROVE  Jammed' /\ delivered' = delivered
    <2>0. TypeOK /\ Waiting /\ step = "get" /\ PackLen = 0
      BY <1>1 DEF Inv, Jammed
    <2>1. ASSUME NEW len \in Lens, NEW from \in 0..Size(len), NEW to \in 0..Size(len),
                 OnData(len, from, to)
          PROVE  Jammed' /\ delivered' = delivered
      <3>1. sent + 1 \in 1..MaxPackets /\ from < to /\ len \in Nat
        BY <2>0, <2>1 DEF OnData, TypeOK
      <3>2. from \in Nat /\ to \in Nat /\ from <= to
        BY <2>1, <3>1, SizeNat
      <3>3. Bytes(sent + 1, len, from, to) \in Seq(Byte)
        BY <3>1, <3>2, BytesSeq
      <3> QED  BY <1>1, <2>0, <2>1, <3>3, WriteJammed DEF OnData
    <2>2. CASE OnRest
      <3>1. /\ sent \in 1..MaxPackets /\ cut.len \in Lens
            /\ cut.upto \in Nat /\ cut.len \in Nat /\ cut.upto <= cut.len
        <4>1. cut.len # 0 /\ Begun /\ cut.len \in Lens \cup {0}
          BY <1>1, <2>0, <2>2 DEF OnRest, Inv, TypeOK
        <4>2. sent \in 1..MaxPackets /\ cut.upto \in 0..cut.len
          BY <4>1 DEF Begun
        <4>3. cut.len \in Lens /\ cut.len \in Nat
          BY <4>1
        <4> QED  BY <4>2, <4>3
      <3>2. Bytes(sent, cut.len, cut.upto, cut.len) \in Seq(Byte)
        BY <3>1, BytesSeq
      <3> QED  BY <1>1, <2>0, <2>2, <3>2, WriteJammed DEF OnRest
    <2>3. CASE StopParsing
      BY <2>3, <2>0 DEF StopParsing, Jammed, PackLen
    <2>4. CASE Await
      BY <2>4, <2>0 DEF Await, Hopeless, Jammed, PackLen
    <2>5. CASE UNCHANGED vars
      BY <1>1, <2>5 DEF vars, Jammed, PackLen
    <2>6. ~Search /\ ~GetPacket /\ ~Overrun
      BY <2>0 DEF Search, GetPacket, Overrun, Complete
    <2> QED  BY <1>1, <2>1, <2>2, <2>3, <2>4, <2>5, <2>6 DEF Next, Parse
  <1> QED  BY <1>1, Invariant, PTL DEF Spec

-----------------------------------------------------------------------------
(* No packet is lost.  The bytes in the cache are those of the packets in  *)
(* the order of the stream, and the head of the packet that was cut last   *)
(* is there, all of it, as long as its rest may come.                      *)

\* The byte at the offset x of the packet of byte b.
IsAt(c, b, x) == c.pkt = b.pkt /\ c.len = b.len /\ c.off = x

\* In the order of the stream: a packet's bytes side by side, then a later one.
Ordered ==
    \A i, j \in DOMAIN valid : i < j =>
        \/ valid[i].pkt < valid[j].pkt
        \/ IsAt(valid[j], valid[i], valid[i].off + (j - i))

\* Bytes of packets that have been begun, each within its packet.
Known ==
    /\ \A i \in DOMAIN valid : valid[i].pkt <= sent /\ valid[i].off < Size(valid[i].len)
    /\ whole \subseteq 1..sent /\ wiped \subseteq 1..sent

\* Byte i is the one that the head of the last packet has there.
IsHead(i) ==
    /\ valid[i].pkt = sent /\ valid[i].len = cut.len
    /\ valid[i].off = i - (Len(valid) - cut.upto) - 1

HeadHeld ==
    cut.len # 0 =>
        /\ sent \notin whole /\ Sound(cut.len)
        /\ cut.upto \in 1..cut.len - 1
        /\ sent \in wiped => \A i \in DOMAIN valid : valid[i].pkt # sent
        /\ sent \notin wiped =>
              /\ cut.upto <= Len(valid)
              /\ \A i \in Len(valid) - cut.upto + 1..Len(valid) : IsHead(i)

\* The parser has read a preamble only where one is.
PreambleFound == step = "get" => StartsPacket(PreambleLen)

\* Of the packets that are out no byte is left, nor of any before.
DeliveredBefore ==
    \A i \in DOMAIN delivered, j \in DOMAIN valid : delivered[i] < valid[j].pkt

Rest == Ordered /\ Known /\ HeadHeld /\ DeliveredBefore
Loss == Rest /\ PreambleFound /\ NoneLost

\* No datagram is lost, or all of it holds.
LossInv == Inv /\ (~lost => Loss)

\* The indices of the last u of n bytes.
LEMMA HeadIndex ==
    ASSUME NEW n \in Nat, NEW u \in Nat, u <= n, NEW k \in Nat, k < u,
           NEW h \in Nat, h = n - u + 1
    PROVE  /\ h + k \in n - u + 1..n /\ h + k \in 1..n
           /\ (h + k) - (n - u) - 1 = k
  OBVIOUS

LEMMA ByteFields ==
    ASSUME NEW b \in Byte
    PROVE  b.pkt \in 1..MaxPackets /\ b.len \in Lens /\ b.len \in Nat /\ b.off \in Nat
  <1>1. b.pkt \in 1..MaxPackets /\ b.len \in Lens /\ b.off \in Nat
    BY DEF Byte
  <1> QED  BY <1>1

LEMMA ByteAt ==
    ASSUME NEW b \in Byte, NEW c \in Byte, NEW x
    PROVE  c = [b EXCEPT !.off = x] <=> IsAt(c, b, x)
  BY DEF Byte, IsAt

\* A whole packet stands from byte j of the sequence s.
StandsAt(s, j) ==
    /\ Sound(s[j].len)
    /\ s[j].off = 0 /\ j + s[j].len - 1 <= Len(s)
    /\ \A k \in 0..s[j].len - 1 : IsAt(s[j + k], s[j], k)

Stands(s) == {s[j].pkt : j \in {i \in DOMAIN s : StandsAt(s, i)}}

LEMMA StandsWhere ==
    ASSUME NEW s \in Seq(Byte), NEW j \in DOMAIN s
    PROVE  StandsAt(s, j) <=>
             /\ Sound(s[j].len)
             /\ s[j].off = 0 /\ j + s[j].len - 1 <= Len(s)
             /\ \A k \in 0..s[j].len - 1 : s[j + k] = [s[j] EXCEPT !.off = k]
  <1>1. j \in 1..Len(s) /\ Len(s) \in Nat /\ s[j] \in Byte /\ s[j].len \in Nat
    BY ByteFields
  <1>2. ASSUME j + s[j].len - 1 <= Len(s), NEW k \in 0..s[j].len - 1
        PROVE  s[j + k] = [s[j] EXCEPT !.off = k] <=> IsAt(s[j + k], s[j], k)
    <2>1. j + k \in 1..Len(s)
      BY <1>1, <1>2
    <2>2. s[j + k] \in Byte
      BY <2>1
    <2> QED  BY <1>1, <2>2, ByteAt
  <1> QED  BY <1>2 DEF StandsAt

LEMMA StandingIs == valid \in Seq(Byte) => Standing = Stands(valid)
  <1> SUFFICES ASSUME valid \in Seq(Byte) PROVE Standing = Stands(valid)
    OBVIOUS
  <1> DEFINE A == {j \in DOMAIN valid :
               /\ Sound(valid[j].len)
               /\ valid[j].off = 0 /\ j + valid[j].len - 1 <= Len(valid)
               /\ \A k \in 0..valid[j].len - 1 : valid[j + k] = [valid[j] EXCEPT !.off = k]}
             B == {i \in DOMAIN valid : StandsAt(valid, i)}
  <1>1. A = B
    BY StandsWhere
  <1>2. Standing = {valid[i].pkt : i \in A} /\ Stands(valid) = {valid[i].pkt : i \in B}
    BY DEF Standing, Stands
  <1> HIDE DEF A, B
  <1> QED  BY <1>1, <1>2

LEMMA StandingIsNext == valid' \in Seq(Byte) => Standing' = Stands(valid')
  <1> SUFFICES ASSUME valid' \in Seq(Byte) PROVE Standing' = Stands(valid')
    OBVIOUS
  <1> DEFINE A == {j \in DOMAIN valid' :
               /\ Sound(valid'[j].len)
               /\ valid'[j].off = 0 /\ j + valid'[j].len - 1 <= Len(valid')
               /\ \A k \in 0..valid'[j].len - 1 : valid'[j + k] = [valid'[j] EXCEPT !.off = k]}
             B == {i \in DOMAIN valid' : StandsAt(valid', i)}
  <1>1. A = B
    BY StandsWhere
  <1>2. Standing' = {valid'[i].pkt : i \in A} /\ Stands(valid') = {valid'[i].pkt : i \in B}
    BY DEF Standing, Stands
  <1> HIDE DEF A, B
  <1> QED  BY <1>1, <1>2

LEMMA StandsIn ==
    ASSUME NEW s, NEW p
    PROVE  p \in Stands(s) <=> \E j \in DOMAIN s : StandsAt(s, j) /\ p = s[j].pkt
  BY DEF Stands

\* t is s without the first n bytes, and the packets that stand behind them.
Skipped(t, s, n) ==
    /\ t \in Seq(Byte) /\ Len(t) = Len(s) - n
    /\ \A j \in 1..Len(t) : j + n \in DOMAIN s /\ t[j] = s[j + n]
    /\ \A j \in 1..Len(t) : StandsAt(t, j) <=> StandsAt(s, j + n)

LEMMA ShiftStands ==
    ASSUME NEW s \in Seq(Byte), NEW t \in Seq(Byte), NEW n \in Nat, Len(t) = Len(s) - n,
           \A j \in 1..Len(t) : t[j] = s[j + n],
           NEW j \in 1..Len(t)
    PROVE  StandsAt(t, j) <=> StandsAt(s, j + n)
  <1>1. /\ t[j] = s[j + n] /\ t[j] \in Byte /\ t[j].len \in Nat
        /\ Len(s) \in Nat /\ Len(t) \in Nat
    BY ByteFields
  <1>2. PICK l \in Nat, a \in Nat, b \in Nat : l = t[j].len /\ a = Len(s) /\ b = Len(t)
    BY <1>1
  <1>3. j \in Nat /\ b = a - n
    BY <1>1, <1>2
  <1>4. j + l - 1 <= b <=> j + n + l - 1 <= a
    BY <1>3
  <1>5. \A k \in 0..l - 1 : j + n + k = j + k + n
    BY <1>3
  <1>6. ASSUME j + l - 1 <= b, NEW k \in 0..l - 1
        PROVE  t[j + k] = s[j + n + k]
    <2>1. j + k \in 1..b
      BY <1>3, <1>6
    <2> QED  BY <1>2, <1>5, <2>1
  <1> QED  BY <1>1, <1>2, <1>4, <1>6 DEF StandsAt

LEMMA SkipStands ==
    ASSUME NEW s \in Seq(Byte), NEW n \in 0..Len(s), NEW t, t = SubSeq(s, n + 1, Len(s))
    PROVE  Skipped(t, s, n)
  <1>1. t \in Seq(Byte) /\ Len(t) = Len(s) - n /\ n \in Nat
    BY SkipSeq
  <1>2. \A j \in 1..Len(t) : j + n \in DOMAIN s /\ t[j] = s[j + n]
    OBVIOUS
  <1>3. \A j \in 1..Len(t) : StandsAt(t, j) <=> StandsAt(s, j + n)
    BY <1>1, <1>2, ShiftStands, ZenonT(30)
  <1> QED  BY <1>1, <1>2, <1>3 DEF Skipped

\* The bytes of d come behind those of s in t, leave the packets that stand,
\* and complete only one of which there are bytes among them.
Joined(t, s, d) ==
    /\ t \in Seq(Byte) /\ Len(t) = Len(s) + Len(d)
    /\ \A j \in 1..Len(s) : t[j] = s[j]
    /\ \A i \in 1..Len(d) : t[Len(s) + i] = d[i]
    /\ \A j \in 1..Len(s) : StandsAt(s, j) => StandsAt(t, j)
    /\ \A j \in 1..Len(s) : StandsAt(t, j) =>
         StandsAt(s, j) \/ \E i \in 1..Len(d) : s[j].pkt = d[i].pkt

LEMMA ConcatStands ==
    ASSUME NEW s \in Seq(Byte), NEW d \in Seq(Byte), NEW t, t = s \o d
    PROVE  Joined(t, s, d)
  <1>1. t \in Seq(Byte) /\ Len(t) = Len(s) + Len(d) /\ Len(s) \in Nat /\ Len(d) \in Nat
    BY ConcatSeq
  <1>2. /\ \A j \in 1..Len(s) : t[j] = s[j]
        /\ \A i \in 1..Len(d) : t[Len(s) + i] = d[i]
    BY <1>1
  <1>3. ASSUME NEW j \in 1..Len(s)
        PROVE  /\ StandsAt(s, j) => StandsAt(t, j)
               /\ StandsAt(t, j) => StandsAt(s, j) \/ \E i \in 1..Len(d) : s[j].pkt = d[i].pkt
    <2>1. t[j] = s[j] /\ s[j] \in Byte /\ s[j].len \in Nat
      BY <1>1, <1>2, ByteFields
    <2>2. ASSUME j + s[j].len - 1 <= Len(s), NEW k \in 0..s[j].len - 1
          PROVE  t[j + k] = s[j + k]
      <3>1. j + k \in 1..Len(s)
        BY <1>1, <2>1, <2>2
      <3> QED  BY <1>2, <3>1
    <2>3. ASSUME StandsAt(s, j)
          PROVE  StandsAt(t, j)
      <3>1. /\ Sound(s[j].len) /\ s[j].off = 0 /\ j + s[j].len - 1 <= Len(s)
            /\ \A k \in 0..s[j].len - 1 : IsAt(s[j + k], s[j], k)
        BY <2>3 DEF StandsAt
      <3>2. \A k \in 0..s[j].len - 1 : IsAt(t[j + k], t[j], k)
        BY <2>1, <2>2, <3>1
      <3>3. j + s[j].len - 1 <= Len(t)
        BY <1>1, <2>1, <3>1
      <3> QED  BY <2>1, <3>1, <3>2, <3>3 DEF StandsAt
    <2>4. ASSUME StandsAt(t, j), ~(j + s[j].len - 1 <= Len(s))
          PROVE  \E i \in 1..Len(d) : s[j].pkt = d[i].pkt
      <3>1. /\ j + s[j].len - 1 <= Len(t) /\ s[j].len > 0
            /\ \A k \in 0..s[j].len - 1 : IsAt(t[j + k], s[j], k)
        BY <2>1, <2>4 DEF StandsAt, Sound
      <3>2. /\ s[j].len - 1 \in 0..s[j].len - 1
            /\ j + s[j].len - 1 - Len(s) \in 1..Len(d)
        BY <1>1, <2>1, <2>4, <3>1, SMTT(30)
      <3>3. t[j + (s[j].len - 1)].pkt = s[j].pkt
        BY <3>1, <3>2 DEF IsAt
      <3>4. j + (s[j].len - 1) = Len(s) + (j + s[j].len - 1 - Len(s))
        BY <1>1, <2>1
      <3>5. t[j + (s[j].len - 1)] = d[j + s[j].len - 1 - Len(s)]
        BY <1>2, <3>2, <3>4
      <3> QED  BY <3>2, <3>3, <3>5
    <2>5. ASSUME StandsAt(t, j), j + s[j].len - 1 <= Len(s)
          PROVE  StandsAt(s, j)
      BY <2>1, <2>2, <2>5 DEF StandsAt
    <2> QED  BY <2>3, <2>4, <2>5
  <1> QED  BY <1>1, <1>2, <1>3 DEF Joined

-----------------------------------------------------------------------------
(* What the parser does to the order and the head.                         *)

LEMMA ValidBytes ==
    ASSUME TypeOK
    PROVE  /\ valid \in Seq(Byte) /\ Len(valid) \in Nat
           /\ \A i \in DOMAIN valid :
                /\ valid[i] \in Byte /\ valid[i].pkt \in 1..MaxPackets
                /\ valid[i].len \in Lens /\ valid[i].len \in Nat /\ valid[i].off \in Nat
  <1>1. valid \in Seq(Byte) /\ Len(valid) \in Nat
    BY DEF TypeOK
  <1>2. \A i \in DOMAIN valid : valid[i] \in Byte
    BY <1>1
  <1> QED  BY <1>1, <1>2, ByteFields

LEMMA Starts ==
    ASSUME TypeOK, NEW n \in 1..Len(valid)
    PROVE  StartsPacket(n) <=> \A i \in 1..n : IsAt(valid[i], valid[1], i - 1)
  <1>1. Len(valid) \in Nat /\ \A i \in 1..n : valid[i] \in Byte
    BY ValidBytes
  <1>2. \A i \in 1..n : valid[i] = [valid[1] EXCEPT !.off = i - 1]
                          <=> IsAt(valid[i], valid[1], i - 1)
    <2>1. valid[1] \in Byte
      BY <1>1
    <2> QED  BY <1>1, <2>1, ByteAt
  <1>3. StartsPacket(n) <=> \A i \in 1..n : valid[i] = [valid[1] EXCEPT !.off = i - 1]
    <2>1. n <= Len(valid)
      BY <1>1
    <2> QED  BY <2>1, Zenon DEF StartsPacket
  <1> QED  BY <1>2, <1>3, Zenon

\* Where a packet stands at the front, the front is read as one.
LEMMA FrontStands ==
    ASSUME TypeOK, Len(valid) > 0
    PROVE  StandsAt(valid, 1) <=> PackLen <= Len(valid) /\ CheckPacket
  <1>0. CASE ~Sound(valid[1].len)
    BY <1>0 DEF StandsAt, CheckPacket, PackLen
  <1> SUFFICES ASSUME Sound(valid[1].len)
               PROVE  StandsAt(valid, 1) <=> PackLen <= Len(valid) /\ CheckPacket
    BY <1>0
  <1>1. /\ Len(valid) \in Nat /\ valid[1].len \in Lens /\ valid[1].len \in Nat
        /\ valid[1].len > 0 /\ valid[1].off \in Nat
    BY ValidBytes DEF Sound
  <1>2. \A k \in 0..valid[1].len - 1 : 1 + k \in 1..valid[1].len /\ (1 + k) - 1 = k
    BY <1>1
  <1>3. \A i \in 1..valid[1].len : i - 1 \in 0..valid[1].len - 1 /\ 1 + (i - 1) = i
    BY <1>1
  <1>4. CASE valid[1].len <= Len(valid)
    <2>1. valid[1].len \in 1..Len(valid)
      BY <1>1, <1>4
    <2>2. StartsPacket(valid[1].len)
            <=> \A i \in 1..valid[1].len : IsAt(valid[i], valid[1], i - 1)
      BY <2>1, Starts
    <2>3. ASSUME StandsAt(valid, 1), NEW i \in 1..valid[1].len
          PROVE  IsAt(valid[i], valid[1], i - 1)
      <3>1. IsAt(valid[1 + (i - 1)], valid[1], i - 1)
        BY <1>3, <2>3 DEF StandsAt
      <3> QED  BY <1>3, <3>1
    <2>4. ASSUME \A i \in 1..valid[1].len : IsAt(valid[i], valid[1], i - 1)
          PROVE  StandsAt(valid, 1)
      <3>1. \A k \in 0..valid[1].len - 1 : IsAt(valid[1 + k], valid[1], k)
        <4> SUFFICES ASSUME NEW k \in 0..valid[1].len - 1
                     PROVE  IsAt(valid[1 + k], valid[1], k)
          OBVIOUS
        <4>1. IsAt(valid[1 + k], valid[1], (1 + k) - 1)
          BY <1>2, <2>4
        <4> QED  BY <1>2, <4>1
      <3>2. IsAt(valid[1], valid[1], 1 - 1)
        BY <1>1, <2>4
      <3>3. valid[1].off = 0
        BY <3>2 DEF IsAt
      <3>4. 1 + valid[1].len - 1 <= Len(valid)
        BY <1>1, <1>4
      <3> QED  BY <3>1, <3>3, <3>4 DEF StandsAt
    <2> QED  BY <1>4, <2>2, <2>3, <2>4 DEF PackLen, CheckPacket
  <1>5. CASE ~(valid[1].len <= Len(valid))
    BY <1>1, <1>5 DEF StandsAt, PackLen
  <1> QED  BY <1>4, <1>5, Zenon

\* When the front byte is of the packet whose rest may come, nothing but its
\* head is there.
LEMMA HeadAlone ==
    ASSUME TypeOK, Rest, cut.len # 0, sent \notin wiped, Len(valid) > 0,
           valid[1].pkt = sent
    PROVE  /\ Len(valid) = cut.upto /\ PackLen = cut.len /\ Sound(PackLen)
           /\ \A i \in 1..Len(valid) : IsAt(valid[i], valid[1], i - 1)
  <1>1. /\ Len(valid) \in Nat /\ sent \in Nat /\ cut.len \in Nat
        /\ \A i \in 1..Len(valid) : valid[i].pkt \in Nat /\ valid[i].off \in Nat
    <2>1. Len(valid) \in Nat /\ \A i \in 1..Len(valid) :
                   valid[i].pkt \in Nat /\ valid[i].off \in Nat
      BY ValidBytes
    <2>2. sent \in 0..MaxPackets /\ cut.len \in Lens \cup {0}
      BY DEF TypeOK
    <2>3. sent \in Nat
      BY <2>2
    <2>4. cut.len \in Nat
      BY <2>2
    <2> QED  BY <2>1, <2>3, <2>4
  <1>2. /\ cut.upto \in 1..cut.len - 1 /\ cut.upto <= Len(valid) /\ Sound(cut.len)
        /\ \A i \in Len(valid) - cut.upto + 1..Len(valid) : IsHead(i)
    BY DEF Rest, HeadHeld
  <1>3. \A i \in 2..Len(valid) : IsAt(valid[i], valid[1], valid[1].off + (i - 1))
    <2> SUFFICES ASSUME NEW i \in 2..Len(valid)
                 PROVE  IsAt(valid[i], valid[1], valid[1].off + (i - 1))
      OBVIOUS
    <2>1. valid[i].pkt <= sent /\ 1 \in DOMAIN valid /\ i \in DOMAIN valid /\ 1 < i
      BY <1>1 DEF Rest, Known
    <2> QED  BY <1>1, <2>1 DEF Rest, Ordered
  <1>4. Len(valid) = cut.upto
    <2>1. SUFFICES ASSUME Len(valid) # cut.upto PROVE FALSE
      OBVIOUS
    <2>0. PICK h \in Int : h = Len(valid) - cut.upto + 1
      BY <1>1, <1>2
    <2>2. h \in 2..Len(valid) /\ h \in Len(valid) - cut.upto + 1..Len(valid)
      BY <1>1, <1>2, <2>0, <2>1
    <2>3. valid[h].off = h - (Len(valid) - cut.upto) - 1
      BY <1>2, <2>2 DEF IsHead
    <2>4. valid[h].off = valid[1].off + (h - 1)
      BY <1>3, <2>2 DEF IsAt
    <2>5. 1 \in 1..Len(valid) /\ h - (Len(valid) - cut.upto) - 1 = 0
      BY <1>1, <1>2, <2>0
    <2>6. valid[1].off \in Nat
      BY <1>1, <2>5
    <2> QED  BY <2>2, <2>3, <2>4, <2>5, <2>6
  <1>5. IsHead(1)
    BY <1>1, <1>2, <1>4
  <1>6. valid[1].len = cut.len /\ valid[1].off = 0
    BY <1>1, <1>2, <1>4, <1>5 DEF IsHead
  <1>7. \A i \in 1..Len(valid) : IsAt(valid[i], valid[1], i - 1)
    <2> SUFFICES ASSUME NEW i \in 1..Len(valid) PROVE IsAt(valid[i], valid[1], i - 1)
      OBVIOUS
    <2>1. CASE i = 1
      BY <1>6, <2>1 DEF IsAt
    <2>2. CASE i # 1
      <3>1. i \in 2..Len(valid) /\ 0 + (i - 1) = i - 1
        BY <1>1, <2>2
      <3> QED  BY <1>3, <1>6, <3>1
    <2> QED  BY <2>1, <2>2
  <1> QED  BY <1>2, <1>4, <1>6, <1>7 DEF PackLen

\* Skipping what is not the head keeps the order and the head.
LEMMA SkipKeeps ==
    ASSUME Inv, Rest, NEW n \in 0..Len(valid), Skip(n), UNCHANGED <<wire, wiped>>,
           cut.len # 0 /\ sent \notin wiped => n <= Len(valid) - cut.upto
    PROVE  /\ Ordered' /\ Known' /\ HeadHeld'
           /\ valid' \in Seq(Byte) /\ valid' = SubSeq(valid, n + 1, Len(valid))
           /\ \A j \in DOMAIN valid' : j + n \in DOMAIN valid /\ valid'[j] = valid[j + n]
  <1>1. /\ TypeOK /\ valid \in Seq(Byte) /\ Len(valid) \in Nat
        /\ \A i \in DOMAIN valid :
             valid[i].pkt \in Nat /\ valid[i].off \in Nat
    <2>1. TypeOK
      BY DEF Inv
    <2> QED  BY <2>1, ValidBytes
  <1>2. valid' = SubSeq(valid, n + 1, Len(valid))
    BY DEF Skip
  <1>3. /\ valid' \in Seq(Byte) /\ Len(valid') = Len(valid) - n /\ Len(valid') \in Nat
        /\ \A j \in 1..Len(valid') : j + n \in DOMAIN valid /\ valid'[j] = valid[j + n]
    <2>1. Skipped(valid', valid, n)
      BY <1>1, <1>2, SkipStands, Zenon
    <2> QED  BY <1>1, <2>1 DEF Skipped
  <1>4. DOMAIN valid' = 1..Len(valid')
    BY <1>3
  <1>5. Ordered'
    <2> SUFFICES ASSUME NEW i \in DOMAIN valid', NEW j \in DOMAIN valid', i < j
                 PROVE  \/ valid'[i].pkt < valid'[j].pkt
                        \/ IsAt(valid'[j], valid'[i], valid'[i].off + (j - i))
      BY DEF Ordered, IsAt
    <2>1. /\ i + n \in DOMAIN valid /\ j + n \in DOMAIN valid /\ i + n < j + n
          /\ (j + n) - (i + n) = j - i
          /\ valid'[i] = valid[i + n] /\ valid'[j] = valid[j + n]
      <3>1. i \in 1..Len(valid') /\ j \in 1..Len(valid')
        BY <1>4
      <3>2. i + n < j + n /\ (j + n) - (i + n) = j - i
        BY <1>1, <1>3, <3>1
      <3> QED  BY <1>3, <3>1, <3>2
    <2>2. \/ valid[i + n].pkt < valid[j + n].pkt
          \/ IsAt(valid[j + n], valid[i + n], valid[i + n].off + ((j + n) - (i + n)))
      BY <2>1 DEF Rest, Ordered
    <2> QED  BY <2>1, <2>2
  <1>6. Known'
    <2>1. \A j \in DOMAIN valid' : valid'[j].pkt <= sent /\ valid'[j].off < Size(valid'[j].len)
      <3>1. \A i \in DOMAIN valid : valid[i].pkt <= sent /\ valid[i].off < Size(valid[i].len)
        BY DEF Rest, Known
      <3> QED  BY <1>3, <1>4, <3>1
    <2> QED  BY <2>1 DEF Rest, Known, wire
  <1>7. HeadHeld'
    <2> SUFFICES ASSUME cut.len # 0 PROVE HeadHeld'
      BY DEF HeadHeld, wire
    <2>1. sent' = sent /\ cut' = cut /\ whole' = whole /\ wiped' = wiped
      BY DEF wire
    <2>2. /\ sent \notin whole /\ Sound(cut.len)
          /\ cut.upto \in 1..cut.len - 1 /\ cut.upto \in Nat
      BY DEF Rest, HeadHeld, Inv, TypeOK
    <2>3. CASE sent \in wiped
      <3>1. \A j \in DOMAIN valid' : valid'[j].pkt # sent
        BY <1>3, <1>4, <2>3 DEF Rest, HeadHeld
      <3> QED  BY <2>1, <2>2, <2>3, <3>1 DEF HeadHeld
    <2>4. CASE sent \notin wiped
      <3>1. cut.upto <= Len(valid')
        BY <1>1, <1>3, <2>2, <2>4
      <3>2. ASSUME NEW j \in Len(valid') - cut.upto + 1..Len(valid')
            PROVE  /\ valid'[j].pkt = sent /\ valid'[j].len = cut.len
                   /\ valid'[j].off = j - (Len(valid') - cut.upto) - 1
        <4>1. /\ j \in 1..Len(valid')
              /\ j + n \in Len(valid) - cut.upto + 1..Len(valid)
              /\ (j + n) - (Len(valid) - cut.upto) - 1 = j - (Len(valid') - cut.upto) - 1
          BY <1>1, <1>3, <2>2, <3>1, <3>2, SMTT(30)
        <4>2. IsHead(j + n)
          BY <2>4, <4>1 DEF Rest, HeadHeld
        <4> QED  BY <1>3, <4>1, <4>2 DEF IsHead
      <3> QED  BY <2>1, <2>2, <2>4, <3>1, <3>2 DEF HeadHeld, IsHead
    <2> QED  BY <2>3, <2>4
  <1> QED  BY <1>2, <1>3, <1>4, <1>5, <1>6, <1>7

\* Bytes of another packet than the last are not the head.
LEMMA NotHead ==
    ASSUME TypeOK, Rest, NEW n \in 1..Len(valid), valid[n].pkt # sent,
           cut.len # 0, sent \notin wiped
    PROVE  n <= Len(valid) - cut.upto
  <1>1. Len(valid) \in Nat /\ cut.upto \in Nat /\ cut.len \in Nat
    BY ValidBytes DEF TypeOK
  <1>2. SUFFICES ASSUME n > Len(valid) - cut.upto PROVE FALSE
    BY <1>1
  <1>3. n \in Len(valid) - cut.upto + 1..Len(valid)
    BY <1>1, <1>2
  <1> QED  BY <1>3 DEF Rest, HeadHeld, IsHead

-----------------------------------------------------------------------------
(* What a datagram does to them.                                           *)

LEMMA BytesAt ==
    ASSUME NEW p \in 1..MaxPackets, NEW len \in Lens,
           NEW from \in Nat, NEW to \in Nat, from < to,
           NEW i \in 1..to - from
    PROVE  /\ Bytes(p, len, from, to)[i].pkt = p /\ Bytes(p, len, from, to)[i].len = len
           /\ Bytes(p, len, from, to)[i].off = from + i - 1
  BY DEF Bytes

\* Packet after packet is delivered, of those that are whole.
LEMMA DeliveredWhole ==
    ASSUME NoneLost, ~lost, NEW i \in DOMAIN delivered
    PROVE  delivered[i] \in whole
  BY DEF NoneLost

\* The bytes of p from the offset from on may come behind what there is: the
\* bytes of packets before, or those of p up to there.
Behind(p, len, from) ==
    /\ \A i \in DOMAIN delivered : delivered[i] < p
    /\ \A i \in DOMAIN valid :
         \/ valid[i].pkt < p
         \/ /\ valid[i].pkt = p /\ valid[i].len = len
            /\ valid[i].off = from - (Len(valid) - i) - 1

\* What is there then.
Appended(p, len, from, to) ==
    /\ Ordered' /\ PreambleFound' /\ DeliveredBefore'
    /\ \A i \in DOMAIN valid' : valid'[i].pkt <= p /\ valid'[i].off < Size(valid'[i].len)
    /\ valid' \in Seq(Byte) /\ Len(valid') = Len(valid) + (to - from)
    /\ \A i \in 1..Len(valid) : valid'[i] = valid[i]
    /\ \A i \in 1..to - from :
         /\ valid'[Len(valid) + i].pkt = p /\ valid'[Len(valid) + i].len = len
         /\ valid'[Len(valid) + i].off = from + i - 1
    /\ \A q : q # p => (q \in Stands(valid') <=> q \in Stands(valid))

LEMMA AppendKeeps ==
    ASSUME Inv, Rest, PreambleFound,
           NEW p \in 1..MaxPackets, NEW len \in Lens,
           NEW from \in Nat, NEW to \in 0..Size(len), from < to,
           valid' = valid \o Bytes(p, len, from, to),
           UNCHANGED <<step, delivered>>, sent' = p, sent <= p, Behind(p, len, from)
    PROVE  Appended(p, len, from, to)
  <1> DEFINE d == Bytes(p, len, from, to)
             n == Len(valid)
  <1>1. d \in Seq(Byte) /\ Len(d) = to - from /\ Len(d) \in Nat
    <2>1. to \in Nat /\ from <= to /\ to - from \in Nat
      BY SizeNat
    <2> QED  BY <2>1, BytesSeq
  <1>2. /\ n \in Nat /\ valid \in Seq(Byte) /\ p \in Nat /\ sent \in Nat /\ len \in Nat
        /\ Size(len) \in Nat /\ to \in Nat
        /\ \A i \in 1..n : valid[i].pkt \in Nat /\ valid[i].off \in Nat /\ valid[i].len \in Nat
    <2>1. TypeOK
      BY DEF Inv
    <2>2. sent \in 0..MaxPackets
      BY DEF Inv, TypeOK
    <2>3. len \in Nat
      OBVIOUS
    <2>4. Size(len) \in Nat
      BY <2>3, SizeNat
    <2> QED  BY <2>1, <2>2, <2>3, <2>4, ValidBytes
  <1>3. \A i \in 1..Len(d) : d[i].pkt = p /\ d[i].len = len /\ d[i].off = from + i - 1
    <2>1. \A i \in 1..to - from : d[i].pkt = p /\ d[i].len = len /\ d[i].off = from + i - 1
      <3> SUFFICES ASSUME NEW i \in 1..to - from
                   PROVE  d[i].pkt = p /\ d[i].len = len /\ d[i].off = from + i - 1
        OBVIOUS
      <3>1. to \in Nat
        BY <1>2
      <3> QED  BY <3>1, BytesAt
    <2> QED  BY <1>1, <2>1
  <1>4. valid' = valid \o d
    OBVIOUS
  <1> HIDE DEF d
  <1>5. /\ valid' \in Seq(Byte) /\ Len(valid') = n + Len(d)
        /\ \A i \in 1..n : valid'[i] = valid[i]
        /\ \A i \in 1..Len(d) : valid'[n + i] = d[i]
        /\ \A j \in 1..n : StandsAt(valid, j) => StandsAt(valid', j)
        /\ \A j \in 1..n : StandsAt(valid', j) =>
                StandsAt(valid, j) \/ \E i \in 1..Len(d) : valid[j].pkt = d[i].pkt
    <2>1. d \in Seq(Byte) /\ valid \in Seq(Byte)
      BY <1>1, <1>2
    <2> HIDE DEF n
    <2>2. n = Len(valid)
      BY DEF n
    <2>3. Joined(valid', valid, d)
      BY <1>4, <2>1, ConcatStands, Zenon
    <2> QED  BY <2>2, <2>3 DEF Joined
  <1>6. \A j \in 1..Len(valid') : j \in 1..n \/ (j - n \in 1..Len(d) /\ n + (j - n) = j)
    BY <1>1, <1>2, <1>5
  <1>7. \A i \in 1..Len(d) :
          /\ valid'[n + i].pkt = p /\ valid'[n + i].len = len /\ valid'[n + i].off = from + i - 1
    BY <1>3, <1>5
  <1>8. \A j \in 1..Len(valid') : j \notin 1..n =>
          /\ valid'[j].pkt = p /\ valid'[j].len = len /\ valid'[j].off = from + (j - n) - 1
    <2> SUFFICES ASSUME NEW j \in 1..Len(valid'), j \notin 1..n
                 PROVE  /\ valid'[j].pkt = p /\ valid'[j].len = len
                        /\ valid'[j].off = from + (j - n) - 1
      OBVIOUS
    <2>1. j - n \in 1..Len(d) /\ n + (j - n) = j
      BY <1>6
    <2>2. /\ valid'[n + (j - n)].pkt = p /\ valid'[n + (j - n)].len = len
          /\ valid'[n + (j - n)].off = from + (j - n) - 1
      BY <1>7, <2>1
    <2> QED  BY <2>1, <2>2
  <1> HIDE DEF n
  <1>9. DOMAIN valid' = 1..Len(valid') /\ DOMAIN valid = 1..n
    BY <1>2, <1>5 DEF n
  <1>10. \A i \in 1..n : \/ valid[i].pkt < p
                        \/ /\ valid[i].pkt = p /\ valid[i].len = len
                           /\ valid[i].off = from - (n - i) - 1
    BY <1>9 DEF n, Behind
  <1>11. Ordered'
    <2> SUFFICES ASSUME NEW i \in 1..Len(valid'), NEW j \in 1..Len(valid'), i < j
                 PROVE  \/ valid'[i].pkt < valid'[j].pkt
                        \/ IsAt(valid'[j], valid'[i], valid'[i].off + (j - i))
      BY <1>9 DEF Ordered, IsAt
    <2>1. CASE i \in 1..n /\ j \in 1..n
      <3>1. \/ valid[i].pkt < valid[j].pkt
            \/ IsAt(valid[j], valid[i], valid[i].off + (j - i))
        BY <1>9, <2>1 DEF Rest, Ordered
      <3> QED  BY <1>5, <2>1, <3>1
    <2>2. CASE i \in 1..n /\ j \notin 1..n
      <3>1. /\ valid'[i] = valid[i] /\ valid'[j].pkt = p /\ valid'[j].len = len
            /\ valid'[j].off = from + (j - n) - 1
        BY <1>5, <1>8, <2>2
      <3>2. CASE valid[i].pkt < p
        BY <3>1, <3>2
      <3>3. CASE /\ valid[i].pkt = p /\ valid[i].len = len
                 /\ valid[i].off = from - (n - i) - 1
        <4>1. from + (j - n) - 1 = (from - (n - i) - 1) + (j - i)
          BY <1>2, SMTT(30)
        <4> QED  BY <3>1, <3>3, <4>1 DEF IsAt
      <3> QED  BY <1>10, <2>2, <3>2, <3>3
    <2>3. CASE i \notin 1..n
      <3>1. j \notin 1..n
        BY <1>2, <2>3
      <3>2. from + (j - n) - 1 = (from + (i - n) - 1) + (j - i)
        BY <1>2
      <3> QED  BY <1>8, <2>3, <3>1, <3>2 DEF IsAt
    <2> QED  BY <2>1, <2>2, <2>3
  <1>12. \A i \in 1..Len(valid') : valid'[i].pkt <= p /\ valid'[i].off < Size(valid'[i].len)
    <2> SUFFICES ASSUME NEW i \in 1..Len(valid')
                 PROVE  valid'[i].pkt <= p /\ valid'[i].off < Size(valid'[i].len)
      OBVIOUS
    <2>1. CASE i \in 1..n
      <3>1. valid[i].pkt <= sent /\ valid[i].off < Size(valid[i].len)
        BY <1>9, <2>1 DEF Rest, Known
      <3>2. valid'[i] = valid[i] /\ valid[i].pkt \in Nat
        BY <1>2, <1>5, <1>9, <2>1 DEF n
      <3> QED  BY SMTT(30), <1>2, <3>1, <3>2
    <2>2. CASE i \notin 1..n
      <3>1. /\ valid'[i].pkt = p /\ valid'[i].len = len /\ valid'[i].off = from + (i - n) - 1
        BY <1>8, <2>2
      <3>2. i - n \in 1..to - from
        BY <1>1, <1>6, <2>2
      <3> QED  BY <1>2, <3>1, <3>2
    <2> QED  BY <2>1, <2>2
  <1>13. PreambleFound'
    <2> SUFFICES ASSUME step = "get" PROVE StartsPacket(PreambleLen)'
      BY DEF PreambleFound
    <2>1. Len(valid) > PreambleLen /\ StartsPacket(PreambleLen)
      BY DEF Inv, Waiting, PreambleFound
    <2>2. /\ 1 \in 1..n /\ PreambleLen <= Len(valid')
          /\ \A i \in 1..PreambleLen : i \in 1..n
      BY SMTT(30), <1>1, <1>2, <1>5, <2>1 DEF n
    <2>3. \A i \in 1..PreambleLen : valid[i] = [valid[1] EXCEPT !.off = i - 1]
      BY <2>1, Zenon DEF StartsPacket
    <2>4. \A i \in 1..PreambleLen : valid'[i] = [valid'[1] EXCEPT !.off = i - 1]
      BY <1>5, <2>2, <2>3
    <2> QED  BY <2>2, <2>4, Zenon DEF StartsPacket
  <1>14. DeliveredBefore'
    <2> SUFFICES ASSUME NEW i \in DOMAIN delivered, NEW j \in 1..Len(valid')
                 PROVE  delivered[i] < valid'[j].pkt
      BY <1>9 DEF DeliveredBefore
    <2>1. CASE j \in 1..n
      BY <1>5, <1>9, <2>1 DEF Rest, DeliveredBefore
    <2>2. CASE j \notin 1..n
      BY <1>8, <2>2 DEF Behind
    <2> QED  BY <2>1, <2>2
  <1>15. ASSUME NEW q, q # p PROVE q \in Stands(valid') <=> q \in Stands(valid)
    <2>1. ASSUME NEW j \in 1..n, StandsAt(valid, j), q = valid[j].pkt
          PROVE  q \in Stands(valid')
      <3>1. j \in DOMAIN valid' /\ StandsAt(valid', j) /\ q = valid'[j].pkt
        BY <1>1, <1>2, <1>5, <1>9, <2>1
      <3> QED  BY <3>1, StandsIn
    <2>2. ASSUME NEW j \in 1..Len(valid'), StandsAt(valid', j), q = valid'[j].pkt
          PROVE  q \in Stands(valid)
      <3>1. j \in 1..n
        BY <1>8, <1>15, <2>2
      <3>2. q = valid[j].pkt /\ StandsAt(valid, j)
        BY <1>3, <1>5, <1>15, <2>2, <3>1
      <3> QED  BY <1>9, <3>1, <3>2, StandsIn
    <2> QED  BY <1>9, <2>1, <2>2, StandsIn
  <1> QED  BY <1>1, <1>5, <1>7, <1>9, <1>11, <1>12, <1>13, <1>14, <1>15 DEF n, Appended

\* A new packet, or a piece of it.
LEMMA OnDataLoss ==
    ASSUME Inv, Loss, ~lost', NEW len \in Lens,
           NEW from \in 0..Size(len), NEW to \in 0..Size(len), OnData(len, from, to)
    PROVE  Loss'
  <1> DEFINE p == sent + 1
             d == Bytes(p, len, from, to)
  <1>0. /\ Inv /\ TypeOK /\ ~parsing /\ len \in Nat
        /\ Rest /\ PreambleFound /\ NoneLost
        /\ sent \in 0..MaxPackets /\ sent < MaxPackets
        /\ from < to /\ Write(d)
        /\ sent' = p /\ UNCHANGED <<step, delivered, wiped>>
    BY DEF Loss, Inv, OnData, TypeOK
  <1>02. from \in Nat /\ to \in Nat /\ Size(len) \in Nat
    <2>1. Size(len) \in Nat
      BY <1>0, SizeNat
    <2> QED  BY <2>1
  <1>1. p \in 1..MaxPackets /\ sent <= p
    BY <1>0
  <1>3. ~lost /\ valid' = valid \o d
    BY <1>0, WriteKeeps
  <1>4. \A i \in DOMAIN valid : valid[i].pkt < p
    <2>1. \A i \in DOMAIN valid : valid[i].pkt <= sent /\ valid[i].pkt \in Nat
      BY <1>0, ValidBytes DEF Rest, Known
    <2> QED  BY <1>0, <2>1
  <1>5. whole \subseteq 1..sent /\ wiped \subseteq 1..sent /\ p \notin 1..sent
    BY <1>0 DEF Rest, Known
  <1>6. \A i \in DOMAIN delivered : delivered[i] < p
    <2>1. \A q \in 1..sent : q < p
      BY <1>0
    <2>2. \A i \in DOMAIN delivered : delivered[i] \in 1..sent
      BY <1>0, <1>3, <1>5, DeliveredWhole
    <2> QED  BY <2>1, <2>2
  <1>7. /\ Ordered' /\ PreambleFound' /\ DeliveredBefore'
        /\ \A i \in DOMAIN valid' : valid'[i].pkt <= p /\ valid'[i].off < Size(valid'[i].len)
        /\ valid' \in Seq(Byte) /\ Len(valid') = Len(valid) + (to - from)
        /\ \A i \in 1..Len(valid) : valid'[i] = valid[i]
        /\ \A i \in 1..to - from :
             /\ valid'[Len(valid) + i].pkt = p /\ valid'[Len(valid) + i].len = len
             /\ valid'[Len(valid) + i].off = from + i - 1
        /\ \A q : q # p => (q \in Stands(valid') <=> q \in Stands(valid))
    <2>1. Behind(p, len, from)
      BY <1>4, <1>6 DEF Behind
    <2> HIDE DEF p
    <2>2. Appended(p, len, from, to)
      BY <1>0, <1>02, <1>1, <1>3, <2>1, AppendKeeps
    <2> QED  BY <2>2 DEF Appended
  <1>8. Len(valid) \in Nat /\ DOMAIN valid' = 1..Len(valid')
    BY <1>0, <1>7, ValidBytes
  <1>9. Known'
    <2>1. whole' \subseteq 1..sent' /\ wiped' \subseteq 1..sent'
      <3>1. 1..sent \subseteq 1..sent' /\ p \in 1..sent'
        BY <1>0
      <3>2. whole' \subseteq whole \cup {p}
        BY DEF OnData
      <3> QED  BY <1>0, <1>5, <3>1, <3>2
    <2> QED  BY <1>0, <1>7, <2>1 DEF Known
  <1> HIDE DEF p, d
  <1>10. HeadHeld'
    <2>1. CASE Sound(len) /\ from = 0 /\ to < len
      <3>1. cut' = [len |-> len, upto |-> to] /\ whole' = whole
        BY <2>1 DEF OnData
      <3>2. sent' \notin whole' /\ sent' \notin wiped'
        BY <1>0, <1>5, <3>1
      <3>3. cut'.len = len /\ cut'.upto = to /\ to \in 1..len - 1 /\ to <= Len(valid')
        BY <1>0, <1>7, <1>8, <2>1, <3>1
      <3>4. ASSUME NEW i \in Len(valid') - to + 1..Len(valid')
            PROVE  /\ valid'[i].pkt = p /\ valid'[i].len = len
                   /\ valid'[i].off = i - (Len(valid') - to) - 1
        <4>1. i - Len(valid) \in 1..to - from /\ Len(valid) + (i - Len(valid)) = i
          BY <1>0, <1>7, <1>8, <2>1, <3>4
        <4>2. /\ valid'[i].pkt = p /\ valid'[i].len = len
              /\ valid'[i].off = from + (i - Len(valid)) - 1
          BY <1>7, <4>1
        <4>3. from + (i - Len(valid)) - 1 = i - (Len(valid') - to) - 1
          BY <1>0, <1>7, <1>8, <2>1, <3>4
        <4> QED  BY <4>2, <4>3
      <3>5. Sound(cut'.len)
        BY <2>1, <3>1
      <3> QED  BY <1>0, <3>2, <3>3, <3>4, <3>5 DEF HeadHeld, IsHead
    <2>2. CASE ~(Sound(len) /\ from = 0 /\ to < len)
      <3>1. cut' = NoCut
        BY <2>2 DEF OnData
      <3> QED  BY <3>1 DEF HeadHeld, NoCut
    <2> QED  BY <2>1, <2>2
  <1>11. NoneLost'
    <2>1. Standing = Stands(valid) /\ Standing' = Stands(valid')
      BY <1>0, <1>7, StandingIs, StandingIsNext DEF TypeOK
    <2>2. p \in Stands(valid') <=> Sound(len) /\ from = 0 /\ to = len
      <3>1. ASSUME NEW j \in DOMAIN valid', StandsAt(valid', j), p = valid'[j].pkt
            PROVE  Sound(len) /\ from = 0 /\ to = len
        <4>1. /\ j \in 1..Len(valid') /\ valid'[j].off = 0
              /\ j + valid'[j].len - 1 <= Len(valid') /\ Sound(valid'[j].len)
          BY <1>8, <3>1 DEF StandsAt
        <4>2. j \notin 1..Len(valid)
          <5>1. SUFFICES ASSUME j \in 1..Len(valid) PROVE FALSE
            OBVIOUS
          <5>2. valid'[j] = valid[j] /\ j \in DOMAIN valid /\ valid[j].pkt < p
            BY <1>0, <1>4, <1>7, <5>1, ValidBytes
          <5> QED  BY <1>1, <3>1, <5>2
        <4>3. j - Len(valid) \in 1..to - from /\ Len(valid) + (j - Len(valid)) = j
          BY <1>0, <1>7, <1>8, <4>1, <4>2
        <4>4. valid'[j].len = len /\ valid'[j].off = from + (j - Len(valid)) - 1
          BY <1>7, <4>3
        <4>5. j - Len(valid) = 1 /\ from = 0
          BY <1>0, <1>8, <4>1, <4>3, <4>4, SMTT(30)
        <4>6. Len(valid) + 1 + len - 1 <= Len(valid) + (to - from)
          BY <1>7, <1>8, <4>1, <4>3, <4>4, <4>5
        <4>7. Sound(len) /\ Size(len) = len
          BY <1>0, <4>1, <4>4, SizeNat
        <4> QED  BY <1>0, <1>8, <4>5, <4>6, <4>7
      <3>2. ASSUME Sound(len), from = 0, to = len
            PROVE  p \in Stands(valid')
        <4>1. \A k \in 0..len - 1 :
                /\ valid'[Len(valid) + 1 + k].pkt = p /\ valid'[Len(valid) + 1 + k].len = len
                /\ valid'[Len(valid) + 1 + k].off = k
          <5> SUFFICES ASSUME NEW k \in 0..len - 1
                       PROVE  /\ valid'[Len(valid) + 1 + k].pkt = p
                              /\ valid'[Len(valid) + 1 + k].len = len
                              /\ valid'[Len(valid) + 1 + k].off = k
            OBVIOUS
          <5>1. /\ 1 + k \in 1..to - from /\ Len(valid) + 1 + k = Len(valid) + (1 + k)
                /\ from + (1 + k) - 1 = k
            BY <1>0, <1>8, <3>2
          <5> QED  BY <1>7, <5>1
        <4>2. 0 \in 0..len - 1 /\ Len(valid) + 1 + 0 = Len(valid) + 1
          BY <1>0, <1>8, <3>2 DEF Sound
        <4>3. /\ valid'[Len(valid) + 1].pkt = p /\ valid'[Len(valid) + 1].len = len
              /\ valid'[Len(valid) + 1].off = 0
          BY <4>1, <4>2
        <4>4. /\ Len(valid) + 1 \in DOMAIN valid'
              /\ Len(valid) + 1 + len - 1 <= Len(valid')
          BY <1>0, <1>7, <1>8, <3>2 DEF Sound
        <4>5. StandsAt(valid', Len(valid) + 1)
          BY <3>2, <4>1, <4>3, <4>4 DEF StandsAt, IsAt
        <4> QED  BY <4>3, <4>4, <4>5, StandsIn
      <3> QED  BY <3>1, <3>2, StandsIn
    <2>3. whole' = IF Sound(len) /\ from = 0 /\ to = len THEN whole \cup {p} ELSE whole
      BY DEF OnData, p
    <2>4. p \notin wiped /\ p \notin whole
      BY <1>5
    <2>5. p \notin {delivered[i] : i \in DOMAIN delivered}
      <3>1. \A i \in DOMAIN delivered : delivered[i] \in whole
        BY <1>0, <1>3, DeliveredWhole
      <3> QED  BY <2>4, <3>1
    <2>6. /\ whole \ wiped = Stands(valid) \cup {delivered[i] : i \in DOMAIN delivered}
          /\ \A i, j \in DOMAIN delivered : i < j => delivered[i] < delivered[j]
      BY <1>0, <1>3, <2>1 DEF NoneLost
    <2>7. whole' \ wiped = Stands(valid') \cup {delivered[i] : i \in DOMAIN delivered}
      <3> DEFINE D == {delivered[i] : i \in DOMAIN delivered}
      <3> HIDE DEF D
      <3>1. p \notin D /\ whole \ wiped = Stands(valid) \cup D
        BY <2>5, <2>6 DEF D
      <3>2. whole' \ wiped = Stands(valid') \cup D
        BY <1>7, <2>2, <2>3, <2>4, <3>1
      <3> QED  BY <3>2 DEF D
    <2> QED  BY <1>0, <2>1, <2>6, <2>7 DEF NoneLost
  <1> QED  BY <1>7, <1>9, <1>10, <1>11 DEF Rest, Loss

\* The rest of a packet, behind its head if that is still there.
LEMMA OnRestLoss ==
    ASSUME Inv, Loss, ~lost', OnRest
    PROVE  Loss'
  <1> DEFINE d == Bytes(sent, cut.len, cut.upto, cut.len)
  <1>0. /\ Inv /\ TypeOK /\ Begun /\ ~parsing
        /\ Rest /\ PreambleFound /\ NoneLost
        /\ cut.len # 0 /\ Write(d)
        /\ cut' = NoCut /\ whole' = whole \cup {sent}
        /\ UNCHANGED <<step, sent, delivered, wiped>>
    BY DEF Loss, Inv, OnRest
  <1>1. sent \in 1..MaxPackets /\ cut.len \in Lens /\ cut.len \in Nat
    BY <1>0 DEF Begun, TypeOK
  <1>2. cut.upto \in 1..cut.len - 1 /\ sent \notin whole /\ Sound(cut.len)
    BY <1>0 DEF Rest, HeadHeld
  <1>3. /\ cut.upto \in Nat /\ cut.len \in 0..Size(cut.len) /\ cut.upto < cut.len
        /\ cut.upto <= cut.len
    BY <1>1, <1>2, SizeNat
  <1>5. ~lost /\ valid' = valid \o d
    BY <1>0, WriteKeeps
  <1>6. /\ Len(valid) \in Nat /\ DOMAIN valid = 1..Len(valid)
        /\ \A i \in DOMAIN valid : valid[i].pkt \in Nat /\ valid[i].off \in Nat
    BY <1>0, ValidBytes DEF TypeOK
  <1>7. whole \subseteq 1..sent /\ wiped \subseteq 1..sent /\ \A q \in 1..sent : q <= sent
    BY <1>0 DEF Rest, Known
  <1>8. \A i \in DOMAIN delivered : delivered[i] < sent
    <2>1. \A q \in 1..sent : q # sent => q < sent
      BY <1>1
    <2>2. \A i \in DOMAIN delivered : delivered[i] \in whole
      BY <1>0, <1>5, DeliveredWhole
    <2> QED  BY <1>2, <1>7, <2>1, <2>2
  <1>9. sent \notin wiped =>
          /\ cut.upto <= Len(valid)
          /\ \A i \in Len(valid) - cut.upto + 1..Len(valid) : IsHead(i)
    BY <1>0 DEF Rest, HeadHeld
  <1>10. sent \in wiped => \A i \in DOMAIN valid : valid[i].pkt # sent
    BY <1>0 DEF Rest, HeadHeld
  <1>11. ASSUME NEW i \in DOMAIN valid
         PROVE  \/ valid[i].pkt < sent
                \/ /\ valid[i].pkt = sent /\ valid[i].len = cut.len
                   /\ valid[i].off = cut.upto - (Len(valid) - i) - 1
    <2>1. valid[i].pkt <= sent /\ valid[i].pkt \in Nat /\ valid[i].off \in Nat
      BY <1>0, <1>6 DEF Rest, Known
    <2>2. CASE valid[i].pkt = sent
      <3>0. sent \notin wiped
        BY <1>10, <2>2
      <3>1. /\ Len(valid) \in Len(valid) - cut.upto + 1..Len(valid)
            /\ Len(valid) \in DOMAIN valid
        BY <1>1, <1>2, <1>6, <1>9, <3>0
      <3>2. /\ valid[Len(valid)].pkt = sent /\ valid[Len(valid)].len = cut.len
            /\ valid[Len(valid)].off = Len(valid) - (Len(valid) - cut.upto) - 1
        BY <1>9, <3>0, <3>1 DEF IsHead
      <3>3. CASE i = Len(valid)
        <4>1. Len(valid) - (Len(valid) - cut.upto) - 1 = cut.upto - (Len(valid) - i) - 1
          BY <1>2, <1>6, <3>3
        <4> QED  BY <3>2, <3>3, <4>1
      <3>4. CASE i # Len(valid)
        <4>1. i < Len(valid)
          BY <1>6, <3>4
        <4>2. \/ valid[i].pkt < valid[Len(valid)].pkt
              \/ IsAt(valid[Len(valid)], valid[i], valid[i].off + (Len(valid) - i))
          BY <1>0, <3>1, <4>1 DEF Rest, Ordered
        <4>3. /\ valid[i].len = cut.len
              /\ valid[Len(valid)].off = valid[i].off + (Len(valid) - i)
          BY <1>1, <2>2, <3>2, <4>2 DEF IsAt
        <4>4. Len(valid) - (Len(valid) - cut.upto) - 1 = valid[i].off + (Len(valid) - i)
          BY <3>2, <4>3
        <4>5. valid[i].off = cut.upto - (Len(valid) - i) - 1
          <5>1. i \in 1..Len(valid) /\ cut.upto \in Int
            BY <1>1, <1>2, <1>6
          <5> QED  BY <1>6, <2>1, <4>4, <5>1
        <4> QED  BY <2>2, <4>3, <4>5
      <3> QED  BY <3>3, <3>4
    <2>3. CASE valid[i].pkt # sent
      BY <1>1, <2>1, <2>3
    <2> QED  BY <2>2, <2>3
  <1>12. /\ Ordered' /\ PreambleFound' /\ DeliveredBefore'
         /\ \A i \in DOMAIN valid' : valid'[i].pkt <= sent /\ valid'[i].off < Size(valid'[i].len)
         /\ valid' \in Seq(Byte) /\ Len(valid') = Len(valid) + (cut.len - cut.upto)
         /\ \A i \in 1..Len(valid) : valid'[i] = valid[i]
         /\ \A i \in 1..cut.len - cut.upto :
              /\ valid'[Len(valid) + i].pkt = sent /\ valid'[Len(valid) + i].len = cut.len
              /\ valid'[Len(valid) + i].off = cut.upto + i - 1
         /\ \A q : q # sent => (q \in Stands(valid') <=> q \in Stands(valid))
    <2>1. sent' = sent /\ sent <= sent
      BY <1>0, <1>1
    <2>2. Behind(sent, cut.len, cut.upto)
      BY <1>8, <1>11 DEF Behind
    <2>3. UNCHANGED <<step, delivered>> /\ Inv /\ Rest /\ PreambleFound
      BY <1>0
    <2>4. Appended(sent, cut.len, cut.upto, cut.len)
      BY <1>1, <1>3, <1>5, <2>1, <2>2, <2>3, AppendKeeps
    <2> QED  BY <2>4 DEF Appended
  <1> HIDE DEF d
  <1>13. Known'
    <2>1. whole' \subseteq 1..sent /\ wiped' \subseteq 1..sent
      <3>1. sent \in 1..sent
        BY <1>1
      <3> QED  BY <1>0, <1>7, <3>1
    <2>2. sent' = sent
      BY <1>0
    <2> QED  BY <1>12, <2>1, <2>2 DEF Known
  <1>14. HeadHeld'
    BY <1>0 DEF HeadHeld, NoCut
  <1>15. DOMAIN valid' = 1..Len(valid')
    BY <1>12
  <1>16. sent \in Stands(valid') <=> sent \notin wiped
    <2>1. ASSUME sent \in wiped, NEW j \in DOMAIN valid', StandsAt(valid', j),
                 sent = valid'[j].pkt
          PROVE  FALSE
      <3>1. CASE j \in 1..Len(valid)
        BY <1>6, <1>10, <1>12, <2>1, <3>1
      <3>2. CASE j \notin 1..Len(valid)
        <4>1. /\ j - Len(valid) \in 1..cut.len - cut.upto
              /\ Len(valid) + (j - Len(valid)) = j
          BY <1>1, <1>2, <1>6, <1>12, <1>15, <3>2, SMTT(30)
        <4>2. valid'[j].off = cut.upto + (j - Len(valid)) - 1
          BY <1>12, <4>1
        <4>3. valid'[j].off = 0
          BY <2>1 DEF StandsAt
        <4> QED  BY <1>2, <4>1, <4>2, <4>3
      <3> QED  BY <3>1, <3>2
    <2>2. ASSUME sent \notin wiped
          PROVE  sent \in Stands(valid')
      <3>0. PICK h \in Nat : h = Len(valid) - cut.upto + 1
        BY <1>2, <1>6, <1>9, <2>2
      <3>1. ASSUME NEW k \in 0..cut.len - 1
            PROVE  valid'[h + k].pkt = sent /\ valid'[h + k].len = cut.len
                   /\ valid'[h + k].off = k
        <4>1. CASE k < cut.upto
          <5>0. /\ Len(valid) \in Nat /\ cut.upto \in Nat /\ k \in Nat
                /\ cut.upto <= Len(valid)
            BY <1>1, <1>2, <1>6, <1>9, <2>2
          <5>1. /\ h + k \in Len(valid) - cut.upto + 1..Len(valid) /\ h + k \in 1..Len(valid)
                /\ (h + k) - (Len(valid) - cut.upto) - 1 = k
            BY <3>0, <4>1, <5>0, HeadIndex, SMTT(30)
          <5>2. /\ valid[h + k].pkt = sent /\ valid[h + k].len = cut.len
                /\ valid[h + k].off = (h + k) - (Len(valid) - cut.upto) - 1
            BY <1>9, <2>2, <5>1 DEF IsHead
          <5> QED  BY <1>12, <5>1, <5>2
        <4>2. CASE ~(k < cut.upto)
          <5>1. /\ k - cut.upto + 1 \in 1..cut.len - cut.upto
                /\ Len(valid) + (k - cut.upto + 1) = h + k
                /\ cut.upto + (k - cut.upto + 1) - 1 = k
            <6>1. cut.upto \in Int /\ cut.len \in Int /\ k \in Int /\ k <= cut.len - 1
              BY <1>1, <1>2
            <6>2. k - cut.upto + 1 >= 1 /\ k - cut.upto + 1 <= cut.len - cut.upto
              BY <4>2, <6>1
            <6>3. Len(valid) + (k - cut.upto + 1) = h + k
              BY <1>6, <3>0, <6>1
            <6>4. cut.upto + (k - cut.upto + 1) - 1 = k
              BY <6>1
            <6> QED  BY <6>1, <6>2, <6>3, <6>4
          <5> QED  BY <1>12, <5>1
        <4> QED  BY <4>1, <4>2
      <3>2. 0 \in 0..cut.len - 1 /\ h + 0 = h
        BY <1>1, <1>2, <3>0
      <3>3. valid'[h].pkt = sent /\ valid'[h].len = cut.len /\ valid'[h].off = 0
        BY <3>1, <3>2
      <3>4. h \in 1..Len(valid') /\ h + cut.len - 1 <= Len(valid')
        BY <1>1, <1>2, <1>6, <1>9, <1>12, <2>2, <3>0, SMTT(30)
      <3>5. StandsAt(valid', h)
        BY <1>2, <3>1, <3>3, <3>4 DEF StandsAt, IsAt
      <3> QED  BY <1>15, <3>3, <3>4, <3>5, StandsIn
    <2> QED  BY <2>1, <2>2, StandsIn
  <1>17. NoneLost'
    <2>1. Standing = Stands(valid) /\ Standing' = Stands(valid')
      BY <1>0, <1>12, StandingIs, StandingIsNext DEF TypeOK
    <2> DEFINE D == {delivered[i] : i \in DOMAIN delivered}
    <2>2. sent \notin D
      <3>1. \A i \in DOMAIN delivered : delivered[i] \in whole
        BY <1>0, <1>5, DeliveredWhole
      <3> QED  BY <1>2, <3>1
    <2>3. /\ whole \ wiped = Stands(valid) \cup D
          /\ \A i, j \in DOMAIN delivered : i < j => delivered[i] < delivered[j]
      BY <1>0, <1>5, <2>1 DEF NoneLost
    <2>4. D' = D
      BY <1>0
    <2> HIDE DEF D
    <2>5. whole' \ wiped' = Stands(valid') \cup D
      <3>1. whole' = whole \cup {sent} /\ wiped' = wiped
        BY <1>0
      <3>2. \A q : q # sent => (q \in Stands(valid') <=> q \in Stands(valid))
        BY <1>12
      <3> QED  BY <1>2, <1>16, <2>2, <2>3, <3>1, <3>2
    <2> QED  BY <1>0, <2>1, <2>3, <2>4, <2>5 DEF NoneLost, D
  <1> QED  BY <1>12, <1>13, <1>14, <1>17 DEF Rest, Loss

-----------------------------------------------------------------------------
(* What the parser does to them.                                           *)

\* Where the packets behind the first n bytes are all that stand, they stand
\* without those bytes as well.
LEMMA SkippedStands ==
    ASSUME TypeOK, NEW n \in 0..Len(valid), valid' = SubSeq(valid, n + 1, Len(valid)),
           NEW q, \A j \in 1..n : StandsAt(valid, j) => valid[j].pkt # q
    PROVE  q \in Stands(valid') <=> q \in Stands(valid)
  <1>1. valid \in Seq(Byte) /\ Len(valid) \in Nat /\ DOMAIN valid = 1..Len(valid)
    BY ValidBytes
  <1>2. /\ valid' \in Seq(Byte) /\ Len(valid') = Len(valid) - n
        /\ \A j \in 1..Len(valid') : j + n \in DOMAIN valid /\ valid'[j] = valid[j + n]
        /\ \A j \in 1..Len(valid') : StandsAt(valid', j) <=> StandsAt(valid, j + n)
    <2>1. Skipped(valid', valid, n)
      BY <1>1, SkipStands, Zenon
    <2> QED  BY <2>1 DEF Skipped
  <1>3. DOMAIN valid' = 1..Len(valid')
    BY <1>2
  <1>4. ASSUME NEW j \in DOMAIN valid', StandsAt(valid', j), q = valid'[j].pkt
        PROVE  q \in Stands(valid)
    <2>1. j + n \in DOMAIN valid /\ StandsAt(valid, j + n) /\ q = valid[j + n].pkt
      BY <1>2, <1>3, <1>4
    <2> QED  BY <2>1, StandsIn
  <1>5. ASSUME NEW j \in DOMAIN valid, StandsAt(valid, j), q = valid[j].pkt
        PROVE  q \in Stands(valid')
    <2>1. j \notin 1..n
      BY <1>5
    <2>2. j - n \in 1..Len(valid') /\ (j - n) + n = j
      <3>1. j \in 1..Len(valid) /\ Len(valid') = Len(valid) - n
        BY <1>1, <1>2
      <3>2. \A a, b \in Nat : \A c \in 1..b :
              c \notin 1..a => c - a \in 1..b - a /\ (c - a) + a = c
        OBVIOUS
      <3>3. n \in Nat
        BY <1>1
      <3> QED  BY <1>1, <2>1, <3>1, <3>2, <3>3
    <2>3. StandsAt(valid', j - n) /\ valid'[j - n] = valid[j]
      BY <1>2, <1>5, <2>2
    <2> QED  BY <1>3, <1>5, <2>2, <2>3, StandsIn
  <1> QED  BY <1>4, <1>5, StandsIn

\* Of the first bytes of one packet only the first can begin it.
LEMMA OneBegins ==
    ASSUME TypeOK, NEW n \in 1..Len(valid), StartsPacket(n)
    PROVE  /\ \A j \in 1..n : valid[j].pkt = valid[1].pkt
           /\ \A j \in 1..n : StandsAt(valid, j) => j = 1
  <1>1. \A i \in 1..n : IsAt(valid[i], valid[1], i - 1)
    BY Starts
  <1>2. \A j \in 1..n : valid[j].pkt = valid[1].pkt /\ valid[j].off = j - 1
    BY <1>1 DEF IsAt
  <1>3. \A j \in 1..n : j - 1 = 0 => j = 1
    BY ValidBytes
  <1> QED  BY <1>2, <1>3 DEF StandsAt

LEMMA SearchLoss ==
    ASSUME Inv, Loss, ~lost', Search
    PROVE  Loss'
  <1>0. /\ Inv /\ TypeOK /\ Rest /\ PreambleFound /\ NoneLost
        /\ Len(valid) > PreambleLen /\ step = "search"
        /\ ~lost /\ UNCHANGED <<wire, delivered, wiped>>
    BY DEF Loss, Inv, Search
  <1>1. Len(valid) \in Nat /\ valid \in Seq(Byte) /\ DOMAIN valid = 1..Len(valid)
    BY <1>0, ValidBytes
  <1>2. CASE StartsPacket(PreambleLen)
    <2>1. step' = "get" /\ UNCHANGED <<rd, wr, valid>>
      BY <1>2 DEF Search
    <2>2. PreambleFound'
      BY <1>2, <2>1 DEF PreambleFound, StartsPacket
    <2>3. Rest'
      BY <1>0, <2>1 DEF Rest, Ordered, Known, HeadHeld, IsHead, DeliveredBefore, wire
    <2>4. NoneLost'
      BY <1>0, <2>1 DEF NoneLost, Standing, wire
    <2> QED  BY <2>2, <2>3, <2>4 DEF Loss
  <1>3. CASE ~StartsPacket(PreambleLen)
    <2>1. step' = "search" /\ Skip(1)
      BY <1>0, <1>3 DEF Search
    <2>2. 1 \in 0..Len(valid) /\ 1 \in 1..Len(valid) /\ PreambleLen \in 1..Len(valid)
      BY <1>0, <1>1
    <2>3. ASSUME cut.len # 0, sent \notin wiped
          PROVE  1 <= Len(valid) - cut.upto
      <3>1. ASSUME valid[1].pkt = sent PROVE FALSE
        <4>1. \A i \in 1..Len(valid) : IsAt(valid[i], valid[1], i - 1)
          BY <1>0, <1>1, <2>2, <2>3, <3>1, HeadAlone
        <4>2. \A i \in 1..PreambleLen : IsAt(valid[i], valid[1], i - 1)
          BY <1>1, <2>2, <4>1
        <4> QED  BY <1>0, <1>3, <2>2, <4>2, Starts
      <3> QED  BY <1>0, <2>2, <2>3, <3>1, NotHead
    <2>4. /\ Ordered' /\ Known' /\ HeadHeld'
          /\ valid' \in Seq(Byte) /\ valid' = SubSeq(valid, 1 + 1, Len(valid))
          /\ \A j \in DOMAIN valid' : j + 1 \in DOMAIN valid /\ valid'[j] = valid[j + 1]
      BY <1>0, <2>1, <2>2, <2>3, SkipKeeps
    <2>5. DeliveredBefore'
      BY <1>0, <2>4 DEF Rest, DeliveredBefore
    <2>6. ~StandsAt(valid, 1)
      <3>1. SUFFICES ASSUME StandsAt(valid, 1) PROVE FALSE
        OBVIOUS
      <3>2. /\ PackLen <= Len(valid) /\ StartsPacket(PackLen)
            /\ PackLen \in Nat /\ PackLen > PreambleLen
        BY <1>0, <1>1, <2>2, <3>1, FrontStands, FirstByte DEF CheckPacket, Sound
      <3>3. PackLen \in 1..Len(valid) /\ \A i \in 1..PreambleLen : i \in 1..PackLen
        BY <1>1, <3>2
      <3>4. \A i \in 1..PreambleLen : IsAt(valid[i], valid[1], i - 1)
        BY <1>0, <3>2, <3>3, Starts
      <3> QED  BY <1>0, <1>3, <2>2, <3>4, Starts
    <2>7. \A q : q \in Stands(valid') <=> q \in Stands(valid)
      <3>1. \A j \in 1..1 : ~StandsAt(valid, j)
        BY <2>6
      <3> QED  BY <1>0, <2>2, <2>4, <3>1, SkippedStands
    <2>8. NoneLost'
      <3>1. Standing = Stands(valid) /\ Standing' = Stands(valid')
        BY <1>1, <2>4, StandingIs, StandingIsNext
      <3>2. Standing' = Standing
        BY <2>7, <3>1
      <3> QED  BY <1>0, <3>2 DEF NoneLost, wire
    <2> QED  BY <2>1, <2>4, <2>5, <2>8 DEF Rest, PreambleFound, Loss
  <1> QED  BY <1>2, <1>3

LEMMA GetPacketLoss ==
    ASSUME Inv, Loss, ~lost', GetPacket
    PROVE  Loss'
  <1>0. /\ Inv /\ TypeOK /\ Rest /\ PreambleFound /\ NoneLost
        /\ Len(valid) > PreambleLen /\ step = "get" /\ Len(valid) >= PackLen
        /\ PackLen # 0 /\ ~lost /\ step' = "search" /\ UNCHANGED <<wire, wiped>>
    BY DEF Loss, Inv, GetPacket, Complete
  <1>1. Len(valid) \in Nat /\ valid \in Seq(Byte) /\ DOMAIN valid = 1..Len(valid)
    BY <1>0, ValidBytes
  <1>2. /\ 1 \in 1..Len(valid) /\ PreambleLen \in 1..Len(valid) /\ PackLen \in 1..Len(valid)
    BY <1>0, <1>1, FirstByte
  <1>3. StartsPacket(PreambleLen)
    BY <1>0 DEF PreambleFound
  <1>4. PreambleFound'
    BY <1>0 DEF PreambleFound
  <1> DEFINE p == valid[1].pkt
             D == {delivered[i] : i \in DOMAIN delivered}
  <1>5. ASSUME cut.len # 0, sent \notin wiped, p = sent
        PROVE  /\ Len(valid) = cut.upto /\ PackLen = cut.len /\ Sound(PackLen)
               /\ \A i \in 1..Len(valid) : IsAt(valid[i], valid[1], i - 1)
    BY <1>0, <1>1, <1>2, <1>5, HeadAlone
  <1>6. /\ whole \ wiped = Stands(valid) \cup D
        /\ \A i, j \in DOMAIN delivered : i < j => delivered[i] < delivered[j]
    BY <1>0, <1>1, StandingIs DEF NoneLost
  <1>7. CASE CheckPacket
    <2>0. Sound(PackLen) /\ StartsPacket(PackLen) /\ Size(PackLen) = PackLen
      BY <1>7 DEF CheckPacket, Size
    <2>1. delivered' = Append(delivered, p) /\ Skip(PackLen)
      BY <1>7 DEF GetPacket
    <2>2. /\ \A j \in 1..PackLen : valid[j].pkt = p
          /\ \A j \in 1..PackLen : StandsAt(valid, j) => j = 1
      BY <1>0, <1>2, <2>0, OneBegins
    <2>3. PackLen \in 0..Len(valid) /\ PackLen \in 1..PackLen
      BY <1>2
    <2>4. ASSUME cut.len # 0, sent \notin wiped
          PROVE  PackLen <= Len(valid) - cut.upto
      <3>1. p # sent
        <4>1. SUFFICES ASSUME p = sent PROVE FALSE
          OBVIOUS
        <4>2. Len(valid) = cut.upto /\ PackLen = cut.len
          BY <1>5, <2>4, <4>1
        <4>3. cut.upto \in 1..cut.len - 1
          BY <1>0, <2>4 DEF Rest, HeadHeld
        <4> QED  BY <1>1, <1>2, <4>2, <4>3
      <3>2. valid[PackLen].pkt # sent
        BY <2>2, <2>3, <3>1
      <3> QED  BY <1>0, <1>2, <2>4, <3>2, NotHead
    <2>5. /\ Ordered' /\ Known' /\ HeadHeld'
          /\ valid' \in Seq(Byte) /\ valid' = SubSeq(valid, PackLen + 1, Len(valid))
          /\ \A j \in DOMAIN valid' :
               j + PackLen \in DOMAIN valid /\ valid'[j] = valid[j + PackLen]
      BY <1>0, <2>1, <2>3, <2>4, SkipKeeps
    <2>6. ASSUME NEW j \in DOMAIN valid' PROVE p < valid'[j].pkt
      <3>1. valid'[j] = valid[j + PackLen] /\ j + PackLen \in DOMAIN valid
        BY <2>5
      <3>2. j \in Nat /\ j >= 1 /\ 1 < j + PackLen /\ 1 \in DOMAIN valid
        <4>1. j \in 1..Len(valid') /\ Len(valid') \in Nat
          BY <2>5
        <4> QED  BY <1>1, <1>2, <4>1
      <3>3. \/ p < valid[j + PackLen].pkt
            \/ IsAt(valid[j + PackLen], valid[1], valid[1].off + ((j + PackLen) - 1))
        BY <1>0, <3>1, <3>2 DEF Rest, Ordered
      <3>4. valid[j + PackLen].off < Size(valid[j + PackLen].len) /\ valid[1].off \in Nat
        BY <1>0, <3>1, <3>2, ValidBytes DEF Rest, Known
      <3>5. ASSUME IsAt(valid[j + PackLen], valid[1], valid[1].off + ((j + PackLen) - 1))
            PROVE  FALSE
        <4>1. valid[j + PackLen].len = PackLen
          BY <3>5 DEF IsAt, PackLen
        <4>2. valid[j + PackLen].off = valid[1].off + ((j + PackLen) - 1)
          BY <3>5 DEF IsAt
        <4> HIDE DEF p
        <4> QED  BY <1>2, <2>0, <3>2, <3>4, <4>1, <4>2
      <3> QED  BY <3>1, <3>3, <3>5
    <2>7. \A i \in DOMAIN delivered : delivered[i] < p
      BY <1>0, <1>1, <1>2 DEF Rest, DeliveredBefore
    <2>8. /\ delivered \in Seq(1..MaxPackets) /\ p \in 1..MaxPackets
          /\ Len(delivered) \in Nat /\ DOMAIN delivered = 1..Len(delivered)
      <3>1. delivered \in Seq(1..MaxPackets)
        BY <1>0 DEF TypeOK
      <3> QED  BY <1>0, <1>1, <1>2, <3>1, ValidBytes
    <2> HIDE DEF p
    <2>9. /\ DOMAIN delivered' = 1..Len(delivered) + 1
          /\ \A i \in 1..Len(delivered) : delivered'[i] = delivered[i]
          /\ delivered'[Len(delivered) + 1] = p
      BY <2>1, <2>8
    <2>10. \A i \in DOMAIN delivered' : i \in 1..Len(delivered) \/ i = Len(delivered) + 1
      BY <2>8, <2>9
    <2>11. DeliveredBefore'
      <3> SUFFICES ASSUME NEW i \in DOMAIN delivered', NEW j \in DOMAIN valid'
                   PROVE  delivered'[i] < valid'[j].pkt
        BY DEF DeliveredBefore
      <3>1. CASE i = Len(delivered) + 1
        BY <2>6, <2>9, <3>1
      <3>2. CASE i \in 1..Len(delivered)
        <4>1. delivered'[i] = delivered[i] /\ i \in DOMAIN delivered
          BY <2>8, <2>9, <3>2
        <4> QED  BY <1>0, <2>5, <4>1 DEF Rest, DeliveredBefore
      <3> QED  BY <2>10, <3>1, <3>2
    <2>12. D' = D \cup {p}
      <3>1. \A i \in DOMAIN delivered : i \in DOMAIN delivered' /\ delivered'[i] = delivered[i]
        BY <2>8, <2>9
      <3>2. Len(delivered) + 1 \in DOMAIN delivered'
        BY <2>8, <2>9
      <3> QED  BY <2>8, <2>9, <2>10, <3>1, <3>2
    <2>13. \A i, j \in DOMAIN delivered' : i < j => delivered'[i] < delivered'[j]
      <3> SUFFICES ASSUME NEW i \in DOMAIN delivered', NEW j \in DOMAIN delivered', i < j
                   PROVE  delivered'[i] < delivered'[j]
        OBVIOUS
      <3>1. i \in 1..Len(delivered)
        BY <2>8, <2>9
      <3>2. CASE j \in 1..Len(delivered)
        BY <1>6, <2>8, <2>9, <3>1, <3>2
      <3>3. CASE j = Len(delivered) + 1
        BY <2>7, <2>8, <2>9, <3>1, <3>3
      <3> QED  BY <2>10, <3>2, <3>3
    <2>14. p \in Stands(valid)
      <3>1. StandsAt(valid, 1)
        BY <1>0, <1>1, <1>2, <1>7, FrontStands
      <3> QED  BY <1>1, <1>2, <3>1, StandsIn DEF p
    <2>15. p \notin Stands(valid')
      <3>1. \A j \in DOMAIN valid' : valid'[j].pkt # p
        BY <1>0, <2>6, <2>8
      <3> QED  BY <3>1, StandsIn
    <2>16. \A q : q # p => (q \in Stands(valid') <=> q \in Stands(valid))
      <3> SUFFICES ASSUME NEW q, q # p
                   PROVE  q \in Stands(valid') <=> q \in Stands(valid)
        OBVIOUS
      <3>1. \A j \in 1..PackLen : StandsAt(valid, j) => valid[j].pkt # q
        BY <2>2
      <3> QED  BY <1>0, <2>3, <2>5, <3>1, SkippedStands
    <2>17. NoneLost'
      <3>1. Standing' = Stands(valid')
        BY <2>5, StandingIsNext
      <3>2. whole' = whole /\ wiped' = wiped
        BY <1>0 DEF wire
      <3>3. whole' \ wiped' = Stands(valid') \cup D'
        <4> HIDE DEF D
        <4> QED  BY <1>6, <2>12, <2>14, <2>16, <3>2
      <3> QED  BY <2>13, <3>1, <3>3 DEF NoneLost
    <2> QED  BY <1>4, <2>5, <2>11, <2>17 DEF Rest, Loss
  <1>8. CASE ~CheckPacket
    <2>1. delivered' = delivered /\ Skip(PreambleLen)
      BY <1>8 DEF GetPacket, BadSkip
    <2>2. /\ \A j \in 1..PreambleLen : valid[j].pkt = p
          /\ \A j \in 1..PreambleLen : StandsAt(valid, j) => j = 1
      BY <1>0, <1>2, <1>3, OneBegins
    <2>3. PreambleLen \in 0..Len(valid) /\ PreambleLen \in 1..PreambleLen
      BY <1>2
    <2>4. ASSUME cut.len # 0, sent \notin wiped
          PROVE  PreambleLen <= Len(valid) - cut.upto
      <3>1. p # sent
        <4>1. SUFFICES ASSUME p = sent PROVE FALSE
          OBVIOUS
        <4>2. /\ \A i \in 1..Len(valid) : IsAt(valid[i], valid[1], i - 1)
              /\ Sound(PackLen)
          BY <1>5, <2>4, <4>1
        <4>3. \A i \in 1..PackLen : i \in 1..Len(valid)
          BY <1>1, <1>2
        <4> QED  BY <1>0, <1>2, <1>8, <4>2, <4>3, Starts DEF CheckPacket
      <3>2. valid[PreambleLen].pkt # sent
        BY <2>2, <2>3, <3>1
      <3> QED  BY <1>0, <1>2, <2>4, <3>2, NotHead
    <2>5. /\ Ordered' /\ Known' /\ HeadHeld'
          /\ valid' \in Seq(Byte) /\ valid' = SubSeq(valid, PreambleLen + 1, Len(valid))
          /\ \A j \in DOMAIN valid' :
               j + PreambleLen \in DOMAIN valid /\ valid'[j] = valid[j + PreambleLen]
      BY <1>0, <2>1, <2>3, <2>4, SkipKeeps
    <2>6. DeliveredBefore'
      BY <1>0, <2>1, <2>5 DEF Rest, DeliveredBefore
    <2>7. ~StandsAt(valid, 1)
      BY <1>0, <1>1, <1>2, <1>8, FrontStands
    <2>8. \A q : q \in Stands(valid') <=> q \in Stands(valid)
      <3>1. \A j \in 1..PreambleLen : ~StandsAt(valid, j)
        BY <2>2, <2>7
      <3> QED  BY <1>0, <2>3, <2>5, <3>1, SkippedStands
    <2>9. NoneLost'
      <3>1. Standing = Stands(valid) /\ Standing' = Stands(valid')
        BY <1>1, <2>5, StandingIs, StandingIsNext
      <3>2. Standing' = Standing
        BY <2>8, <3>1
      <3> QED  BY <1>0, <2>1, <3>2 DEF NoneLost, wire
    <2> QED  BY <1>4, <2>5, <2>6, <2>9 DEF Rest, Loss
  <1> QED  BY <1>7, <1>8

\* The packet that is waited for is waited for in vain, or not yet here.
LEMMA AwaitLoss ==
    ASSUME Inv, Loss, ~lost', Await
    PROVE  Loss'
  <1>0. /\ Inv /\ TypeOK /\ Rest /\ PreambleFound /\ NoneLost
        /\ Len(valid) > PreambleLen /\ ~lost /\ UNCHANGED <<wire, delivered>>
    BY DEF Loss, Inv, Await
  <1>1. Len(valid) \in Nat /\ valid \in Seq(Byte) /\ DOMAIN valid = 1..Len(valid)
    BY <1>0, ValidBytes
  <1>2. CASE ~Hopeless
    <2>1. UNCHANGED <<rd, wr, valid, step, wiped>>
      BY <1>2 DEF Await
    <2>2. PreambleFound'
      BY <1>0, <2>1 DEF PreambleFound, StartsPacket
    <2>3. Rest'
      BY <1>0, <2>1 DEF Rest, Ordered, Known, HeadHeld, IsHead, DeliveredBefore, wire
    <2>4. NoneLost'
      BY <1>0, <2>1 DEF NoneLost, Standing, wire
    <2> QED  BY <2>2, <2>3, <2>4 DEF Loss
  <1>3. CASE Hopeless
    <2> DEFINE gone == {valid[i].pkt : i \in DOMAIN valid}
               D == {delivered[i] : i \in DOMAIN delivered}
    <2>1. valid' = <<>> /\ step' = "search" /\ wiped' = wiped \cup gone
      BY <1>3 DEF Await
    <2>2. valid' \in Seq(Byte) /\ DOMAIN valid' = {} /\ Len(valid') = 0
      BY <2>1
    <2>3. sent' = sent /\ cut' = cut /\ whole' = whole /\ delivered' = delivered
      BY <1>0 DEF wire
    <2>4. gone \subseteq 1..sent
      <3>1. \A i \in DOMAIN valid : valid[i].pkt <= sent /\ valid[i].pkt \in 1..MaxPackets
        BY <1>0, ValidBytes DEF Rest, Known
      <3>2. sent \in 0..MaxPackets
        BY <1>0 DEF TypeOK
      <3> QED  BY <3>1, <3>2
    <2>5. Known'
      <3>1. whole' \subseteq 1..sent' /\ wiped' \subseteq 1..sent'
        BY <1>0, <2>1, <2>3, <2>4 DEF Rest, Known
      <3> QED  BY <2>2, <3>1 DEF Known
    <2>6. HeadHeld'
      <3> SUFFICES ASSUME cut.len # 0 PROVE HeadHeld'
        BY <2>3 DEF HeadHeld
      <3>1. sent \notin whole /\ cut.upto \in 1..cut.len - 1 /\ Sound(cut.len)
        BY <1>0 DEF Rest, HeadHeld
      <3>2. sent \in wiped'
        <4>1. SUFFICES ASSUME sent \notin wiped PROVE sent \in gone
          BY <2>1
        <4>2. /\ cut.upto <= Len(valid)
              /\ \A i \in Len(valid) - cut.upto + 1..Len(valid) : IsHead(i)
          BY <1>0, <4>1 DEF Rest, HeadHeld
        <4>3. cut.len \in Lens \cup {0}
          BY <1>0 DEF TypeOK
        <4>4. /\ Len(valid) \in Len(valid) - cut.upto + 1..Len(valid)
              /\ Len(valid) \in 1..Len(valid)
          BY <1>0, <1>1, <3>1, <4>2, <4>3
        <4>5. valid[Len(valid)].pkt = sent
          BY <4>2, <4>4 DEF IsHead
        <4> QED  BY <1>1, <4>4, <4>5
      <3>3. \A i \in DOMAIN valid' : valid'[i].pkt # sent
        BY <2>2
      <3> HIDE DEF gone
      <3>4. (sent \in wiped)' /\ ~(sent \notin wiped)'
        BY <2>3, <3>2
      <3> QED  BY <2>3, <3>1, <3>3, <3>4 DEF HeadHeld
    <2>7. Ordered' /\ DeliveredBefore'
      BY <2>2 DEF Ordered, DeliveredBefore
    <2>8. NoneLost'
      <3>1. Standing = Stands(valid) /\ Standing' = Stands(valid')
        BY <1>1, <2>2, StandingIs, StandingIsNext
      <3>2. Stands(valid') = {} /\ Stands(valid) \subseteq gone
        BY <2>2 DEF Stands
      <3>3. D \cap gone = {}
        <4>1. \A i \in DOMAIN delivered, j \in DOMAIN valid : delivered[i] # valid[j].pkt
          <5>1. \A i \in DOMAIN delivered, j \in DOMAIN valid :
                  delivered[i] < valid[j].pkt /\ valid[j].pkt \in Nat
            BY <1>0, ValidBytes DEF Rest, DeliveredBefore
          <5> QED  BY <5>1
        <4> QED  BY <4>1
      <3>4. whole \ wiped = Stands(valid) \cup D
        BY <1>0, <3>1 DEF NoneLost
      <3>5. whole' \ wiped' = Stands(valid') \cup D
        <4> HIDE DEF D, gone
        <4> QED  BY <2>1, <2>3, <3>2, <3>3, <3>4
      <3>6. \A i, j \in DOMAIN delivered : i < j => delivered[i] < delivered[j]
        BY <1>0 DEF NoneLost
      <3> QED  BY <2>3, <3>1, <3>5, <3>6 DEF NoneLost
    <2>9. PreambleFound'
      BY <2>1 DEF PreambleFound
    <2> QED  BY <2>5, <2>6, <2>7, <2>8, <2>9 DEF Rest, Loss
  <1> QED  BY <1>2, <1>3

LEMMA InitLoss == Init => LossInv
  <1> SUFFICES ASSUME Init PROVE LossInv
    OBVIOUS
  <1>1. Inv
    BY InitInv
  <1>2. Rest /\ PreambleFound
    BY DEF Init, Rest, Ordered, Known, HeadHeld, DeliveredBefore, PreambleFound, NoCut
  <1>3. NoneLost
    BY DEF Init, NoneLost, Standing
  <1> QED  BY <1>1, <1>2, <1>3 DEF LossInv, Loss

\* What is lost stays lost.
LEMMA LostStays == [Next]_vars /\ lost => lost'
  BY ZenonT(60) DEF Next, Parse, OnData, OnRest, Write, StopParsing, Search, GetPacket, Overrun,
         Await, vars

LEMMA StepLoss == LossInv /\ [Next]_vars => LossInv'
  <1> SUFFICES ASSUME LossInv, [Next]_vars, ~lost' PROVE Loss'
    BY StepInv DEF LossInv
  <1>0. Inv /\ Loss
    BY LostStays DEF LossInv
  <1>1. CASE \E len \in Lens : \E from, to \in 0..Size(len) : OnData(len, from, to)
    BY <1>0, <1>1, OnDataLoss
  <1>2. CASE OnRest
    BY <1>0, <1>2, OnRestLoss
  <1>3. CASE StopParsing
    <2>1. UNCHANGED <<rd, wr, valid, step, wire, delivered, lost, wiped>>
      BY <1>3 DEF StopParsing
    <2>2. Rest'
      BY <1>0, <2>1 DEF Loss, Rest, Ordered, Known, HeadHeld, IsHead, DeliveredBefore, wire
    <2>3. PreambleFound' /\ NoneLost'
      BY <1>0, <2>1 DEF Loss, PreambleFound, StartsPacket, NoneLost, Standing, wire
    <2> QED  BY <2>2, <2>3 DEF Loss
  <1>4. CASE Search
    BY <1>0, <1>4, SearchLoss
  <1>5. CASE GetPacket
    BY <1>0, <1>5, GetPacketLoss
  <1>6. CASE Await
    BY <1>0, <1>6, AwaitLoss
  <1>7. CASE Overrun
    <2>1. UNCHANGED <<rd, wr, valid, wire, delivered, lost, wiped>> /\ step' = "crashed"
      BY <1>7 DEF Overrun
    <2>2. Rest'
      BY <1>0, <2>1 DEF Loss, Rest, Ordered, Known, HeadHeld, IsHead, DeliveredBefore, wire
    <2>3. PreambleFound' /\ NoneLost'
      BY <1>0, <2>1 DEF Loss, PreambleFound, NoneLost, Standing, wire
    <2> QED  BY <2>2, <2>3 DEF Loss
  <1>8. CASE UNCHANGED vars
    <2>2. Rest'
      BY <1>0, <1>8 DEF vars, Loss, Rest, Ordered, Known, HeadHeld, IsHead, DeliveredBefore
    <2>3. PreambleFound' /\ NoneLost'
      BY <1>0, <1>8 DEF vars, Loss, PreambleFound, StartsPacket, NoneLost, Standing
    <2> QED  BY <2>2, <2>3 DEF Loss
  <1> QED  BY <1>1, <1>2, <1>3, <1>4, <1>5, <1>6, <1>7, <1>8 DEF Next, Parse

\* Whatever cut and damaged packets come before it, ParseCommStream yields
\* every packet all of whose bytes have come, in order and once, but for those
\* it gives up with a preamble that claims more than kCacheSize, until a
\* datagram finds no room: NothingLost says when that is.
THEOREM NoneLostAlways == Spec => []NoneLost
  <1>1. LossInv => NoneLost
    BY DEF LossInv, Loss, NoneLost
  <1> QED  BY <1>1, InitLoss, StepLoss, PTL DEF Spec
=============================================================================
