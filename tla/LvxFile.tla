-------------------------------- MODULE LvxFile --------------------------------
(***************************************************************************)
(* sample/lidar_lvx_file/lvx_file.cpp (the copy in hub_lvx_file differs    *)
(* only in ParseExtrinsicXml): the file is a header, the devices, and      *)
(* frames that each say where they are and where the next one starts.      *)
(* These offsets are computed from the sizes of the packets; what is       *)
(* written goes through a buffer that is flushed when it would be full.    *)
(***************************************************************************)
EXTENDS Integers, Sequences

CONSTANTS
  WriteBufferLen,  \* WRITE_BUFFER_LEN
  MaxDevices,      \* bound: devices described
  PacketTypes,     \* the types of data the devices send
  MaxPackets,      \* bound: packets of a frame
  FileFrames       \* bound: frames of the file

VARIABLES
  file,     \* lvx_file_: not yet open, open, or closed
  described,  \* size of device_info_list_
  written,  \* bytes in the file
  offset,   \* cur_offset_
  chain     \* the frame headers in the file, and where each of them is

fileVars == <<file, described, written, offset, chain>>

(* The points of a packet by the type of its data, and the size of each.   *)
PointNum ==
  [Cartesian |-> 100, Spherical |-> 100, ExtendCartesian |-> 96, ExtendSpherical |-> 96,
   DualExtendCartesian |-> 48, DualExtendSpherical |-> 48, Imu |-> 1,
   TripleExtendCartesian |-> 30, TripleExtendSpherical |-> 30]

PointSize ==
  [Cartesian |-> 13, Spherical |-> 9, ExtendCartesian |-> 14, ExtendSpherical |-> 10,
   DualExtendCartesian |-> 28, DualExtendSpherical |-> 16, Imu |-> 24,
   TripleExtendCartesian |-> 42, TripleExtendSpherical |-> 22]

(* pack_size: the fields before the points, and the points. *)
BasePointsHandle(type) == 19 + PointNum[type] * PointSize[type]

(* LvxFilePublicHeader, LvxFilePrivateHeader, LvxDeviceInfo, FrameHeader *)
Size == [public |-> 24, private |-> 5, device |-> 59, frame |-> 24]

Init == file = "none" /\ described = 0 /\ written = 0 /\ offset = 0 /\ chain = <<>>

AddDeviceInfo ==
  /\ file = "none" /\ described < MaxDevices
  /\ described' = described + 1
  /\ UNCHANGED <<file, written, offset, chain>>

(* InitLvxFile and InitLvxFileHeader *)
InitLvxFileHeader ==
  /\ file = "none" /\ file' = "open"
  /\ offset' = Size.public + Size.private + described * Size.device
  /\ written' = offset'
  /\ UNCHANGED <<described, chain>>

\* Mutant: the packet that does not fit is not written.
Put_Dropped(buffer, size) ==
  IF buffer.pos + size >= WriteBufferLen
  THEN [pos |-> 0, out |-> buffer.out + buffer.pos]
  ELSE [buffer EXCEPT !.pos = @ + size]

(* One packet goes to the buffer; out has been flushed to the file. *)
Put(buffer, size) ==
  IF buffer.pos + size >= WriteBufferLen
  THEN [pos |-> size, out |-> buffer.out + buffer.pos]
  ELSE [buffer EXCEPT !.pos = @ + size]

(* next_offset of a frame at the offset from, with packets of these sizes. *)
NextOffset(from, sizes) ==
  LET next[i \in 0..Len(sizes)] ==
        IF i = 0 THEN from + Size.frame ELSE next[i - 1] + sizes[i]
  IN next[Len(sizes)]

(* The buffer after the header and the packets. *)
Buffered(sizes) ==
  LET buffer[i \in 0..Len(sizes)] ==
        IF i = 0 THEN [pos |-> Size.frame, out |-> 0] ELSE Put(buffer[i - 1], sizes[i])
  IN buffer[Len(sizes)]

SaveFrameToLvxFile(packets) ==
  LET sizes == [i \in DOMAIN packets |-> BasePointsHandle(packets[i])]
      next == NextOffset(offset, sizes)
      buffer == Buffered(sizes)
  IN /\ file = "open" /\ Len(chain) < FileFrames
     /\ chain' = Append(chain, [at |-> written, current |-> offset, next |-> next])
     /\ written' = written + buffer.out + buffer.pos
     /\ offset' = next
     /\ UNCHANGED <<file, described>>

(* After the last frame, or the first that would be empty. *)
CloseLvxFile ==
  /\ file = "open" /\ file' = "closed"
  /\ UNCHANGED <<described, written, offset, chain>>

Next ==
  \/ AddDeviceInfo \/ InitLvxFileHeader \/ CloseLvxFile
  \/ \E n \in 1..MaxPackets : \E packets \in [1..n -> PacketTypes] : SaveFrameToLvxFile(packets)

Spec == Init /\ [][Next]_fileVars

(***************************************************************************)
(* Properties                                                              *)
(***************************************************************************)

(* A reader finds every frame: each header is where it says it is, and     *)
(* points to the end of its packets, where the next frame starts, however  *)
(* the packets of SaveFrameToLvxFile fall on the boundaries of the buffer. *)
FramesChain ==
  \A i \in 1..Len(chain) :
    /\ chain[i].current = chain[i].at
    /\ chain[i].next = IF i = Len(chain) THEN written ELSE chain[i + 1].at
===============================================================================
