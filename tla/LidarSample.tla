------------------------------ MODULE LidarSample ------------------------------
(***************************************************************************)
(* sample/lidar/main.c: connect every LiDAR that broadcasts (lidar_count   *)
(* is zero as the program is shipped), start it once it works normally,    *)
(* and stop all of them after a while.                                     *)
(***************************************************************************)
EXTENDS SdkEvents

VARIABLE devices  \* device_state and info.state by handle

sampleVars == <<sdkVars, devices>>

Init == SdkInit /\ devices = [h \in Handles |-> [state |-> "Disconnect", work |-> "Init"]]

TypeOK ==
  /\ SdkTypeOK
  /\ devices \in [Handles -> [state : {"Disconnect", "Connect", "Sampling"}, work : Works]]

(***************************************************************************)
(* Callbacks on the IO thread.                                             *)
(***************************************************************************)

(* The callback adds the device and sets its state back at each broadcast. *)
OnDeviceBroadcast(h) ==
  /\ Broadcasts(h) /\ Listed(h)
  /\ devices' = [devices EXCEPT ![h].state = "Disconnect"]
  /\ UNCHANGED <<phase, calls>>

(* LidarConnect, LidarDisConnect, LidarStateChange *)
LidarConnect(d, w) ==
  IF d.state = "Disconnect" THEN [state |-> "Connect", work |-> w] ELSE d
\* Mutant: a disconnection leaves the state alone.
LidarDisConnect_Kept(d) == d

LidarDisConnect(d) == [d EXCEPT !.state = "Disconnect"]
LidarStateChange(d, w) == [d EXCEPT !.work = w]

(* OnDeviceInfoChange, where the event made d of the device's entry and    *)
(* left the commands c: a connected device that works normally is started. *)
OnDeviceInfoChange(h, d, c) ==
  LET start == d.state = "Connect" /\ d.work = "Normal"
  IN /\ devices' = [devices EXCEPT ![h] = IF start THEN [d EXCEPT !.state = "Sampling"] ELSE d]
     /\ calls' = Issue(c, h, IF start THEN {"LidarStartSampling"} ELSE {})

OnFound(h) == Found(h) /\ UNCHANGED devices

OnConnect(h) ==
  Connects(h) /\ OnDeviceInfoChange(h, LidarConnect(devices[h], work[h]), calls)

OnStateChange(h) ==
  \E w \in Works :
    ChangesState(h, w) /\ OnDeviceInfoChange(h, LidarStateChange(devices[h], w), calls)

OnDisconnect(h) ==
  Disconnects(h) /\ OnDeviceInfoChange(h, LidarDisConnect(devices[h]), Dropped(h))

(* A start that is refused or times out is undone; the device is started   *)
(* again by the next event only.                                           *)
OnSampleCallback(h) ==
  \E outcome \in Outcomes :
    /\ Answers(h, "LidarStartSampling", outcome)
    /\ calls' = Settled(h, "LidarStartSampling")
    /\ devices' = IF outcome = "ok" THEN devices ELSE [devices EXCEPT ![h].state = "Connect"]

OnStopSampleCallback(h) ==
  \E outcome \in Outcomes :
    /\ Answers(h, "LidarStopSampling", outcome)
    /\ calls' = Settled(h, "LidarStopSampling")
    /\ UNCHANGED devices

(***************************************************************************)
(* main: Init and Start, a sleep, a stop for every device in sampling      *)
(* state, and Uninit without waiting for the answers.                      *)
(***************************************************************************)
StartFails ==
  /\ phase = "off" /\ phase' = "done"
  /\ UNCHANGED <<link, work, calls, sampling, left, devices>>

Start ==
  /\ phase = "off" /\ phase' = "running"
  /\ UNCHANGED <<link, work, calls, sampling, left, devices>>

StopAll ==
  /\ phase = "running" /\ phase' = "stopping"
  /\ calls' = IssueAll(calls, {h \in Handles : devices[h].state = "Sampling"}, {"LidarStopSampling"})
  /\ UNCHANGED <<link, work, sampling, left, devices>>

Uninit == phase = "stopping" /\ Uninits /\ UNCHANGED devices

Program == StartFails \/ Start \/ StopAll \/ Uninit

Event(h) ==
  \/ OnDeviceBroadcast(h) \/ OnFound(h) \/ OnConnect(h) \/ OnStateChange(h)
  \/ OnDisconnect(h) \/ OnSampleCallback(h) \/ OnStopSampleCallback(h)

Next == Program \/ \E h \in Handles : Event(h)

(* The devices keep answering. *)
Served ==
  /\ \E h \in Handles : OnFound(h) \/ OnConnect(h) \/ OnStateChange(h) \/ OnSampleCallback(h)
  /\ left' = left

Spec == Init /\ [][Next]_sampleVars /\ WF_sampleVars(Served)

(***************************************************************************)
(* Properties                                                              *)
(***************************************************************************)

(* While the program runs, a device in sampling state samples or has yet   *)
(* to answer the start.  main relies on the state to know whom to stop.    *)
SamplingIsTrue ==
  phase = "running" => \A h \in Handles : devices[h].state = "Sampling" =>
    (sampling[h] \/ calls[h]["LidarStartSampling"] > 0)

(* A connected device that works normally comes to sample, unless a        *)
(* command failed or a late broadcast set its state back.                  *)
ComesToSample ==
  \A h \in Handles :
    (phase = "running" /\ Ready(h)) ~> (sampling[h] \/ ~Ready(h) \/ Troubled)
===============================================================================
