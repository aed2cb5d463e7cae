-------------------------- MODULE CommandWires_proof --------------------------
(***************************************************************************)
(* What CommandChannel_proof shows of a reliable wire, for the composition *)
(* that has one: the wires' own definitions of the steps are those the     *)
(* theorems are about, and a wire stays the wire it is.                    *)
(***************************************************************************)
EXTENDS CommandWires, TLAPS

OfReliable == INSTANCE CommandChannel_proof
                WITH Faulty <- FALSE, HbLimit <- HbPeriod + MaxStall + 2 * PacketLife

-----------------------------------------------------------------------------
LEMMA SameInit == Reliable!Init <=> OfReliable!Init
BY DEF Reliable!Init, OfReliable!Init, Reliable!SeqNum, OfReliable!SeqNum

LEMMA SameSendCommand ==
  ASSUME NEW c \in Cmd
  PROVE  Reliable!SendCommand(c) <=> OfReliable!SendCommand(c)
BY DEF Reliable!SendCommand, OfReliable!SendCommand, Reliable!GenerateSeq,
   OfReliable!GenerateSeq, Reliable!world, OfReliable!world

LEMMA SameClosures ==
  /\ Reliable!DropSend <=> OfReliable!DropSend
  /\ Reliable!Send <=> OfReliable!Send
BY DEF Reliable!DropSend, OfReliable!DropSend, Reliable!Send, OfReliable!Send,
   Reliable!ProtectorAlive, OfReliable!ProtectorAlive,
   Reliable!NextClosure, OfReliable!NextClosure, Reliable!EnterCommand, OfReliable!EnterCommand,
   Reliable!Pkt, OfReliable!Pkt, Reliable!Report, OfReliable!Report,
   Reliable!world, OfReliable!world

LEMMA SameOnData ==
  ASSUME NEW p \in replies
  PROVE  Reliable!OnData(p) <=> OfReliable!OnData(p)
BY DEF Reliable!OnData, OfReliable!OnData, Reliable!Polling, OfReliable!Polling,
   Reliable!Report, OfReliable!Report, Reliable!EraseCommand, OfReliable!EraseCommand

LEMMA SameOnTimer == Reliable!OnTimer <=> OfReliable!OnTimer
BY DEF Reliable!OnTimer, OfReliable!OnTimer, Reliable!Polling, OfReliable!Polling,
   Reliable!SeqNum, OfReliable!SeqNum, Reliable!ReportExpired, OfReliable!ReportExpired,
   Reliable!GiveUp, OfReliable!GiveUp, Reliable!HeartBeat, OfReliable!HeartBeat,
   Reliable!Expired, OfReliable!Expired, Reliable!Pending, OfReliable!Pending,
   Reliable!TooSilent, OfReliable!TooSilent, Reliable!GenerateSeq, OfReliable!GenerateSeq,
   Reliable!Pkt, OfReliable!Pkt

LEMMA SameDevice ==
  /\ \A p \in requests : Reliable!DeviceReply(p) <=> OfReliable!DeviceReply(p)
  /\ Reliable!DeviceDies <=> OfReliable!DeviceDies
BY DEF Reliable!DeviceReply, OfReliable!DeviceReply, Reliable!DeviceDies, OfReliable!DeviceDies,
   Reliable!host, OfReliable!host, Reliable!Pkt, OfReliable!Pkt

LEMMA SameTick == Reliable!Tick <=> OfReliable!Tick
BY DEF Reliable!Tick, OfReliable!Tick, Reliable!Older, OfReliable!Older, Reliable!Capped,
   OfReliable!Capped, Reliable!SeqNum, OfReliable!SeqNum

LEMMA SameNext == Reliable!Next <=> OfReliable!Next
BY SameSendCommand, SameClosures, SameOnData, SameOnTimer, SameDevice, SameTick
   DEF Reliable!Next, OfReliable!Next

LEMMA SameVars == UNCHANGED vars => UNCHANGED OfReliable!vars
BY DEF vars, Lossy!vars, Lossy!host, Lossy!world, OfReliable!vars, OfReliable!host, OfReliable!world

-----------------------------------------------------------------------------
OverReliable == wire = "reliable"

(* Over the reliable wire a behaviour of the composition is one of the     *)
(* channel's.                                                              *)
LEMMA ReliableBehaviour == OverReliable /\ Spec => OfReliable!Spec /\ []OverReliable
<1>1. OverReliable /\ Init => OfReliable!Init
  BY SameInit DEF Init, OverReliable
<1>2. OverReliable /\ [Next]_vars
        => OverReliable' /\ [OfReliable!Next]_(OfReliable!vars)
  <2> SUFFICES ASSUME OverReliable, [Next]_vars
               PROVE  OverReliable' /\ [OfReliable!Next]_(OfReliable!vars)
    OBVIOUS
  <2>1. CASE UNCHANGED vars
    BY <2>1, SameVars DEF vars, OverReliable
  <2>2. CASE Next
    BY <2>2, SameNext DEF Next, Over, OverReliable
  <2> QED
    BY <2>1, <2>2
<1> QED
  BY <1>1, <1>2, PTL DEF Spec, OfReliable!Spec

(* A device that answers over the reliable wire is never given up, for any *)
(* clocks and the tightest limit of silence, by a channel that has numbers *)
(* enough for the commands of the program.                                 *)
THEOREM AnsweredDeviceKeptAlways ==
  ASSUME OfReliable!Wide
  PROVE  Spec => []AnsweredDeviceKept
<1>1. OfReliable!ChannelAssumption
  BY WiresAssumption DEF OfReliable!ChannelAssumption
<1>2. OfReliable!Patient
  BY WiresAssumption DEF OfReliable!Patient
<1>3. OfReliable!Spec => []OfReliable!AnsweredDeviceKept
  BY <1>1, <1>2, OfReliable!AnsweredDeviceKeptAlways
<1>4. ~OverReliable /\ [Next]_vars => ~OverReliable'
  BY DEF Next, Over, vars, OverReliable
<1>5. OfReliable!AnsweredDeviceKept <=> Reliable!AnsweredDeviceKept
  BY DEF OfReliable!AnsweredDeviceKept, Reliable!AnsweredDeviceKept
<1>6. OfReliable!AnsweredDeviceKept => AnsweredDeviceKept
  BY <1>5 DEF AnsweredDeviceKept, OverReliable
<1>7. ~OverReliable => AnsweredDeviceKept
  BY DEF AnsweredDeviceKept, OverReliable
<1> QED
  BY <1>3, <1>4, <1>6, <1>7, ReliableBehaviour, PTL DEF Spec
===============================================================================
