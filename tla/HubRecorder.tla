------------------------------ MODULE HubRecorder ------------------------------
(***************************************************************************)
(* sample/hub_lvx_file/main.cpp: connect one hub, wait for the extrinsic   *)
(* parameters of its LiDARs, write them to the header of the file, then a  *)
(* frame at a time, and stop.  The hub's entry of devices is kept.         *)
(* A wake-up of a condition variable that nobody notified is left out.     *)
(***************************************************************************)
EXTENDS HubSession

CONSTANT MaxFrames  \* lvx_file_save_time * FRAME_RATE

VARIABLES
  devices,   \* the hub's device_state and info.state
  coded,     \* broadcast_code_list names the hub
  main,      \* where the main thread is
  infos,     \* device_info_list_ of the file handler: how often it names a unit
  finished,  \* is_finish_extrinsic_parameter
  packets,   \* point_packet_list is not empty
  header,    \* infos when the header was written
  frames     \* frames saved

shared == <<devices, coded, infos, finished, packets>>
file == <<header, frames>>
recorderVars == <<hubVars, shared, main, file>>
NoInfos == [u \in Units |-> 0]

(* SetProgramOption: with the hub's code or without *)
Init ==
  /\ HubInit
  /\ devices = [state |-> "Disconnect", work |-> "Init"] /\ coded \in BOOLEAN
  /\ main = "starting" /\ infos = NoInfos /\ finished = FALSE /\ packets = FALSE
  /\ header = NoInfos /\ frames = 0

(***************************************************************************)
(* Callbacks on the IO thread, and GetHubData on the data thread.          *)
(***************************************************************************)

(* Without an option the first broadcast only names the hub; the next adds *)
(* it. *)
OnDeviceBroadcast ==
  /\ Broadcasts(coded) /\ coded' = TRUE
  /\ devices' = IF coded THEN [devices EXCEPT !.state = "Disconnect"] ELSE devices
  /\ UNCHANGED <<phase, calls, infos, finished, packets, main, file>>

HubDeviceDisconnect(d) == IF d.state = "Connect" THEN [d EXCEPT !.state = "Disconnect"] ELSE d
HubDeviceConnectionChange(d) ==
  IF Hub \in connected THEN [state |-> "Connect", work |-> work] ELSE HubDeviceDisconnect(d)
HubDeviceStateChange(d, w) == [d EXCEPT !.work = w]

Reported == UNCHANGED <<coded, infos, finished, packets, main, file>>

(* A hub that works normally is asked for the parameters of its LiDARs and *)
(* started; it is asked again whenever it is started again.                *)
OnDeviceInfoChange(d, c) ==
  LET start == d.state = "Connect" /\ d.work = "Normal"
  IN /\ devices' = IF start THEN [d EXCEPT !.state = "Sampling"] ELSE d
     /\ calls' = Issue(c, IF start THEN {"HubGetExtrinsicParameter", "HubStartSampling"} ELSE {})
     /\ Reported

OnHubConnectionChange ==
  QueryAnswered /\ OnDeviceInfoChange(HubDeviceConnectionChange(devices), calls)

OnStateChange ==
  \E w \in Works :
    /\ ChangesState(w)
    /\ IF Hub \in connected
       THEN OnDeviceInfoChange(HubDeviceStateChange(devices, w), calls)
       ELSE UNCHANGED <<calls, devices>> /\ Reported

OnDisconnect == HubRemoved /\ devices' = HubDeviceDisconnect(devices) /\ Reported

OnSampleCallback ==
  \E outcome \in Outcomes :
    /\ Answers("HubStartSampling", outcome)
    /\ calls' = Settled("HubStartSampling")
    /\ devices' = IF outcome = "ok" THEN devices ELSE [devices EXCEPT !.state = "Connect"]
    /\ Reported

OnStopSampleCallback ==
  \E outcome \in Outcomes :
    /\ Answers("HubStopSampling", outcome)
    /\ calls' = Settled("HubStopSampling") /\ UNCHANGED devices /\ Reported

\* Mutant: the main thread is woken up only when a LiDAR was added.
OnGetLidarUnitsExtrinsicParameter_IfAny ==
  \E outcome \in Outcomes :
    /\ Answers("HubGetExtrinsicParameter", outcome)
    /\ calls' = Settled("HubGetExtrinsicParameter")
    /\ LET added == IF outcome = "ok" THEN plugged ELSE {}
       IN /\ infos' = [u \in Units |-> infos[u] + (IF u \in added THEN 1 ELSE 0)]
          /\ finished' = (finished \/ added # {})
          /\ main' = IF added # {} /\ main = "waiting" THEN "opening" ELSE main
    /\ UNCHANGED <<devices, coded, packets, file>>

(* An answer adds the LiDARs that it names, those of a refusal too, which  *)
(* names none, and wakes the main thread if that waits already.  A timeout *)
(* does nothing. *)
OnGetLidarUnitsExtrinsicParameter ==
  \E outcome \in Outcomes :
    /\ Answers("HubGetExtrinsicParameter", outcome)
    /\ calls' = Settled("HubGetExtrinsicParameter")
    /\ LET added == IF outcome = "ok" THEN plugged ELSE {}
       IN IF outcome = "timeout"
          THEN UNCHANGED <<infos, finished, main>>
          ELSE /\ infos' = [u \in Units |-> infos[u] + (IF u \in added THEN 1 ELSE 0)]
               /\ finished' = TRUE
               /\ main' = IF main = "waiting" THEN "opening" ELSE main
    /\ UNCHANGED <<devices, coded, packets, file>>

GetHubData ==
  /\ Up /\ valid /\ sampling /\ finished /\ ~packets /\ packets' = TRUE
  /\ UNCHANGED <<hubVars, devices, coded, infos, finished, main, file>>

(***************************************************************************)
(* main                                                                    *)
(***************************************************************************)
Goes(from, to) == main = from /\ main' = to
SdkIdle == UNCHANGED <<tableVars, queryVars, sampling, left>>

StartFails ==
  /\ phase = "off" /\ phase' = "done" /\ Goes("starting", "returned")
  /\ SdkIdle /\ UNCHANGED <<calls, shared, file>>

Start ==
  /\ phase = "off" /\ phase' = "running" /\ Goes("starting", "started")
  /\ SdkIdle /\ UNCHANGED <<calls, shared, file>>

Wait ==
  /\ phase = "running" /\ Goes("started", "waiting")
  /\ UNCHANGED <<hubVars, shared, file>>

InitLvxFileFails == Goes("opening", "returned") /\ Uninits /\ UNCHANGED <<shared, file>>

InitLvxFileHeader ==
  /\ Goes("opening", "recording") /\ header' = infos
  /\ UNCHANGED <<hubVars, shared, frames>>

SaveFrame ==
  /\ Goes("recording", "recording") /\ frames < MaxFrames /\ packets
  /\ packets' = FALSE /\ frames' = frames + 1
  /\ UNCHANGED <<hubVars, devices, coded, infos, finished, header>>

(* After the last frame, or the first that is empty *)
StopHub ==
  /\ Goes("recording", "stopping") /\ phase' = "stopping"
  /\ frames = MaxFrames \/ ~packets
  /\ calls' = Issue(calls, {"HubStopSampling"})
  /\ SdkIdle /\ UNCHANGED <<shared, file>>

Uninit == Goes("stopping", "returned") /\ Uninits /\ UNCHANGED <<shared, file>>

Program ==
  \/ StartFails \/ Start \/ Wait \/ InitLvxFileFails \/ InitLvxFileHeader
  \/ SaveFrame \/ StopHub \/ Uninit

Event ==
  \/ OnDeviceBroadcast \/ OnHubConnectionChange \/ OnStateChange \/ OnDisconnect
  \/ OnSampleCallback \/ OnStopSampleCallback \/ OnGetLidarUnitsExtrinsicParameter
  \/ GetHubData

Quietly == Quiet /\ UNCHANGED <<shared, main, file>>
Next == Program \/ Event \/ Quietly

(* The hub keeps answering and comes to work normally. *)
Served ==
  /\ \/ HubExecutes /\ UNCHANGED <<shared, main, file>>
     \/ OnHubConnectionChange \/ OnStateChange \/ OnSampleCallback
     \/ OnGetLidarUnitsExtrinsicParameter
  /\ left' = left

Spec == Init /\ [][Next]_recorderVars /\ WF_recorderVars(Served)

(***************************************************************************)
(* Properties                                                              *)
(***************************************************************************)

Undisturbed == left = [events |-> MaxEvents, faults |-> MaxFaults]

(* A recorder that waits before the parameters are known is woken up, also *)
(* when no LiDAR is plugged in.  There is one notification and no          *)
(* condition to look at: were it to come before the wait, or the command   *)
(* to time out, nothing else would end it.                                 *)
Waits == main = "waiting" /\ valid /\ ~finished
RecordingStarts == (Waits /\ Undisturbed) ~> (main # "waiting" \/ ~Undisturbed)
===============================================================================
