------------------------------ MODULE LvxRecorder ------------------------------
(***************************************************************************)
(* sample/lidar_lvx_file/main.cpp: wait until no new LiDAR shows up, add   *)
(* those that came, wait for their extrinsic parameters, write the header  *)
(* of the file, then a frame at a time, and stop.  The main thread and the *)
(* IO thread share lists and flags, of which some have a mutex.            *)
(* A wake-up of a condition variable that nobody notified is left out.     *)
(***************************************************************************)
EXTENDS SdkEvents, Functions

CONSTANTS
  CommandLines,  \* bound: the codes and the -p option of the command lines tried
  MaxFrames      \* lvx_file_save_time * FRAME_RATE

VARIABLES
  codes,       \* broadcast_code_list, the codes of the command line
  fromXml,     \* is_read_extrinsic_from_xml
  devices,     \* device_state and info.state by handle
  arrived,     \* broadcast_code_rev
  main,        \* where the main thread is
  next,        \* the index of AddDevicesToConnect
  registered,  \* the devices counted by connected_lidar_count
  infos,       \* device_info_list_ of the file handler
  finished,    \* is_finish_extrinsic_parameter
  packets,     \* point_packet_list is not empty
  header,      \* the devices in the file's private header
  frames       \* frames saved

options == <<codes, fromXml>>
shared == <<devices, arrived, registered, infos, finished, packets>>
file == <<header, frames>>
recorderVars == <<sdkVars, options, shared, main, next, file>>

(* SetProgramOption *)
Init ==
  /\ SdkInit
  /\ \E line \in CommandLines : codes = line.codes /\ fromXml = line.param
  /\ devices = [h \in Handles |-> [state |-> "Disconnect", work |-> "Init"]]
  /\ arrived = <<>> /\ next = 1 /\ registered = {}
  /\ main = "starting"
  /\ infos = <<>> /\ finished = FALSE /\ packets = FALSE
  /\ header = <<>> /\ frames = 0

(***************************************************************************)
(* Callbacks on the IO thread, and GetLidarData on the data threads.       *)
(***************************************************************************)

(* The list of codes grows without a lock: while the main thread walks     *)
(* through it the vector may move under its hands.                         *)
OnDeviceBroadcast(h) ==
  /\ Broadcasts(h)
  /\ IF h \in Range(arrived)
     THEN UNCHANGED <<arrived, phase>>
     ELSE /\ arrived' = Append(arrived, h)
          /\ phase' \in IF main \in {"adding", "added"} THEN {phase, "crashed"} ELSE {phase}
  /\ UNCHANGED <<link, calls, options, devices, registered, infos, finished, packets, main, next, file>>

LidarConnect(d, w) ==
  IF d.state = "Disconnect" THEN [state |-> "Connect", work |-> w] ELSE d
LidarDisConnect(d) == [d EXCEPT !.state = "Disconnect"]
LidarStateChange(d, w) == [d EXCEPT !.work = w]

\* Mutant: one description too few is taken for all.
Describe_OneShort(h, complete) ==
  /\ infos' = Append(infos, h)
  /\ finished' = (finished \/ Len(infos') + 1 >= complete)
  /\ main' = IF Len(infos') + 1 >= complete /\ main = "waiting" THEN "opening" ELSE main

(* AddDeviceInfo; once the list has the size it is compared with, the      *)
(* notification, which only a thread that waits already receives.          *)
Describe(h, complete) ==
  /\ infos' = Append(infos, h)
  /\ finished' = (finished \/ Len(infos') = complete)
  /\ main' = IF Len(infos') = complete /\ main = "waiting" THEN "opening" ELSE main

LidarGetExtrinsicFromXml(h) == Describe(h, Cardinality(codes))

\* Mutant: the parameters are asked for only of a device that samples already.
OnDeviceInfoChange_Late(h, d, c) ==
  LET start == d.state = "Connect" /\ d.work = "Normal"
      asks == IF d.state = "Sampling" THEN {"LidarGetExtrinsicParameter"} ELSE {}
  IN /\ devices' = [devices EXCEPT ![h] = IF start THEN [d EXCEPT !.state = "Sampling"] ELSE d]
     /\ calls' = Issue(c, h, IF start THEN asks \cup {"LidarStartSampling"} ELSE {})
     /\ UNCHANGED <<options, arrived, registered, infos, finished, packets, main, next, file>>

(* OnDeviceInfoChange, where the event made d of the device's entry and    *)
(* left the commands c.                                                    *)
OnDeviceInfoChange(h, d, c) ==
  LET start == d.state = "Connect" /\ d.work = "Normal"
      asks == IF fromXml THEN {} ELSE {"LidarGetExtrinsicParameter"}
  IN /\ devices' = [devices EXCEPT ![h] = IF start THEN [d EXCEPT !.state = "Sampling"] ELSE d]
     /\ calls' = Issue(c, h, IF start THEN asks \cup {"LidarStartSampling"} ELSE {})
     /\ IF start /\ fromXml
        THEN LidarGetExtrinsicFromXml(h)
        ELSE UNCHANGED <<infos, finished, main>>
     /\ UNCHANGED <<options, arrived, registered, packets, next, file>>

OnFound(h) == Found(h) /\ UNCHANGED <<options, shared, main, next, file>>

OnConnect(h) ==
  Connects(h) /\ OnDeviceInfoChange(h, LidarConnect(devices[h], work[h]), calls)

OnStateChange(h) ==
  \E w \in Works :
    ChangesState(h, w) /\ OnDeviceInfoChange(h, LidarStateChange(devices[h], w), calls)

OnDisconnect(h) ==
  Disconnects(h) /\ OnDeviceInfoChange(h, LidarDisConnect(devices[h]), Dropped(h))

OnSampleCallback(h) ==
  \E outcome \in Outcomes :
    /\ Answers(h, "LidarStartSampling", outcome)
    /\ calls' = Settled(h, "LidarStartSampling")
    /\ devices' = IF outcome = "ok" THEN devices ELSE [devices EXCEPT ![h].state = "Connect"]
    /\ UNCHANGED <<options, arrived, registered, infos, finished, packets, main, next, file>>

(* Only a timeout leaves the device undescribed: the response's own code   *)
(* is printed and not looked at.                                           *)
OnGetLidarExtrinsicParameter(h) ==
  \E outcome \in Outcomes :
    /\ Answers(h, "LidarGetExtrinsicParameter", outcome)
    /\ calls' = Settled(h, "LidarGetExtrinsicParameter")
    /\ IF outcome = "timeout"
       THEN UNCHANGED <<infos, finished, main>>
       ELSE Describe(h, Cardinality(registered))
    /\ UNCHANGED <<options, devices, arrived, registered, packets, next, file>>

OnStopSampleCallback(h) ==
  \E outcome \in Outcomes :
    /\ Answers(h, "LidarStopSampling", outcome)
    /\ calls' = Settled(h, "LidarStopSampling")
    /\ UNCHANGED <<options, shared, main, next, file>>

GetLidarData(h) ==
  /\ Up /\ sampling[h] /\ link[h] \in {"found", "connected"}
  /\ h \in registered /\ finished
  /\ packets' = TRUE
  /\ UNCHANGED <<sdkVars, options, devices, arrived, registered, infos, finished, main, next, file>>

(***************************************************************************)
(* The main thread.                                                        *)
(***************************************************************************)
Goes(from, to) == main = from /\ main' = to
SdkIdle == UNCHANGED <<link, work, calls, sampling, left>>

StartFails ==
  /\ Goes("starting", "returned") /\ phase' = "done"
  /\ SdkIdle /\ UNCHANGED <<options, shared, next, file>>

Start ==
  /\ Goes("starting", "settling") /\ phase' = "running"
  /\ SdkIdle /\ UNCHANGED <<options, shared, next, file>>

(* Two seconds without a new device, measured by the clock. *)
WaitForDevicesReady ==
  /\ phase = "running" /\ Goes("settling", "adding")
  /\ UNCHANGED <<sdkVars, options, shared, next, file>>

(* AddDevicesToConnect passes over the devices that are not asked for ...  *)
SkipDevice ==
  /\ phase = "running" /\ Goes("adding", "adding")
  /\ next <= Len(arrived) /\ codes # {} /\ arrived[next] \notin codes
  /\ next' = next + 1
  /\ UNCHANGED <<sdkVars, options, shared, file>>

(* ... and adds the others: from here on the IO thread may connect them, ... *)
AddDevice ==
  /\ phase = "running" /\ Goes("adding", "added")
  /\ next <= Len(arrived) /\ (codes = {} \/ arrived[next] \in codes)
  /\ Listed(arrived[next])
  /\ UNCHANGED <<phase, work, calls, sampling, left, options, shared, next, file>>

(* ... before their entry is set up and they are counted. *)
CountDevice ==
  /\ phase = "running" /\ Goes("added", "adding")
  /\ devices' = [devices EXCEPT ![arrived[next]].state = "Disconnect"]
  /\ registered' = registered \cup {arrived[next]}
  /\ next' = next + 1
  /\ UNCHANGED <<sdkVars, options, arrived, infos, finished, packets, file>>

NoDevice ==
  /\ phase = "running" /\ Goes("adding", "returned")
  /\ next > Len(arrived) /\ registered = {}
  /\ Uninits /\ UNCHANGED <<options, shared, next, file>>

WaitForExtrinsicParameter ==
  /\ phase = "running" /\ Goes("adding", "waiting")
  /\ next > Len(arrived) /\ registered # {}
  /\ UNCHANGED <<sdkVars, options, shared, next, file>>

InitLvxFileFails ==
  /\ phase = "running" /\ Goes("opening", "returned")
  /\ Uninits /\ UNCHANGED <<options, shared, next, file>>

InitLvxFileHeader ==
  /\ phase = "running" /\ Goes("opening", "recording")
  /\ header' = infos
  /\ UNCHANGED <<sdkVars, options, shared, next, frames>>

SaveFrame ==
  /\ phase = "running" /\ Goes("recording", "recording")
  /\ frames < MaxFrames /\ packets
  /\ packets' = FALSE /\ frames' = frames + 1
  /\ UNCHANGED <<sdkVars, options, devices, arrived, registered, infos, finished, next, header>>

(* After the last frame, or the first that is empty: close the file and    *)
(* stop the devices in sampling state, ...                                 *)
StopAll ==
  /\ phase = "running" /\ Goes("recording", "stopping")
  /\ frames = MaxFrames \/ ~packets
  /\ phase' = "stopping"
  /\ calls' = IssueAll(calls, {h \in Handles : devices[h].state = "Sampling"}, {"LidarStopSampling"})
  /\ UNCHANGED <<link, work, sampling, left, options, shared, next, file>>

(* ... and leave at once. *)
Uninit ==
  /\ phase = "stopping" /\ Goes("stopping", "returned")
  /\ Uninits /\ UNCHANGED <<options, shared, next, file>>

Program ==
  \/ StartFails \/ Start \/ WaitForDevicesReady \/ SkipDevice \/ AddDevice \/ CountDevice
  \/ NoDevice \/ WaitForExtrinsicParameter \/ InitLvxFileFails \/ InitLvxFileHeader
  \/ SaveFrame \/ StopAll \/ Uninit

Event(h) ==
  \/ OnDeviceBroadcast(h) \/ OnFound(h) \/ OnConnect(h) \/ OnStateChange(h)
  \/ OnDisconnect(h) \/ OnSampleCallback(h) \/ OnGetLidarExtrinsicParameter(h)
  \/ OnStopSampleCallback(h) \/ GetLidarData(h)

Next == Program \/ \E h \in Handles : Event(h)

(* The devices keep answering. *)
Served ==
  /\ \E h \in Handles : \/ OnFound(h) \/ OnConnect(h) \/ OnStateChange(h)
                        \/ OnSampleCallback(h) \/ OnGetLidarExtrinsicParameter(h)
  /\ left' = left

Spec == Init /\ [][Next]_recorderVars /\ WF_recorderVars(Served)

(***************************************************************************)
(* Properties                                                              *)
(***************************************************************************)
Undisturbed == left = [events |-> MaxEvents, faults |-> MaxFaults]

(* With every device connected once and no command lost, the header is     *)
(* written when it names each registered device exactly once, however the  *)
(* answers and the registration interleave: InitLvxFileHeader relies on    *)
(* the notification of OnGetLidarExtrinsicParameter for it.                *)
HeaderComplete ==
  main = "recording" /\ Undisturbed =>
    Range(header) = registered /\ Len(header) = Cardinality(registered)

(* A recorder that begins to wait before its devices connect is woken up:  *)
(* the notification comes, from the answers of the devices.                *)
Waits == main = "waiting" /\ ~fromXml /\ \A h \in registered : link[h] = "listed"
RecordingStarts == (Waits /\ Undisturbed) ~> (main # "waiting" \/ ~Undisturbed)
===============================================================================
