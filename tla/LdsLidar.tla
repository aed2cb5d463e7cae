------------------------------- MODULE LdsLidar -------------------------------
(***************************************************************************)
(* sample_cc/lidar: the LiDAR data source.  Every device that is announced *)
(* and works normally is configured - coordinate system, return mode, IMU  *)
(* rate, as far as its type has them - and told to sample once the last    *)
(* setting is acknowledged.  set_bits, a mask in the code, is the set of   *)
(* the functions whose acknowledgement is awaited.                         *)
(***************************************************************************)
EXTENDS SdkEvents

VARIABLES
  lidars,    \* lidars_: connect_state, info.state and config.set_bits by handle
  whitelist  \* the codes of the command line and of the source; empty: connect all

ldsVars == <<sdkVars, lidars, whitelist>>

Unconnected == [state |-> "Off", work |-> "Init", bits |-> {}]

Init ==
  /\ SdkInit
  /\ lidars = [h \in Handles |-> Unconnected]
  /\ whitelist \in SUBSET Handles

TypeOK ==
  /\ SdkTypeOK
  /\ lidars \in [Handles -> [state : {"Off", "On", "Config", "Sampling"}, work : Works,
                             bits : SUBSET Asked]]
  /\ whitelist \subseteq Handles

(***************************************************************************)
(* The main function: InitLdsLidar, which starts the SDK and sets the      *)
(* global that its callbacks use only afterwards, a sleep, DeInitLdsLidar. *)
(***************************************************************************)
InitFails ==
  /\ phase = "off" /\ phase' = "done"
  /\ UNCHANGED <<link, work, calls, sampling, left, lidars, whitelist>>

Started ==
  /\ phase = "off" /\ phase' = "starting"
  /\ UNCHANGED <<link, work, calls, sampling, left, lidars, whitelist>>

InitLdsLidar ==
  /\ phase = "starting" /\ phase' = "running"
  /\ UNCHANGED <<link, work, calls, sampling, left, lidars, whitelist>>

DeInitLdsLidar == phase = "running" /\ Uninits /\ UNCHANGED <<lidars, whitelist>>

(***************************************************************************)
(* Callbacks on the IO thread.                                             *)
(***************************************************************************)

(* auto_connect_mode_ is on exactly when the whitelist is empty. *)
Wanted(h) == whitelist = {} \/ h \in whitelist

(* Every broadcast of a wanted device sets its connect_state back, and the *)
(* one that comes before g_lidars is set dereferences a null pointer.      *)
OnDeviceBroadcast(h) ==
  /\ Broadcasts(h)
  /\ IF phase = "starting"
     THEN phase' = "crashed" /\ UNCHANGED <<link, lidars>>
     ELSE /\ UNCHANGED phase
          /\ IF Wanted(h)
             THEN Listed(h) /\ lidars' = [lidars EXCEPT ![h].state = "Off"]
             ELSE UNCHANGED <<link, lidars>>
  /\ UNCHANGED <<calls, whitelist>>

\* Mutant: the return mode is asked of a Mid40 too, which the SDK refuses.
Settings_AllTypes(type) ==
  {"SetCartesianCoordinate", "LidarSetPointCloudReturnMode"}
    \cup (IF type \notin {"Mid40", "Mid70"} THEN {"LidarSetImuPushFrequency"} ELSE {})

Settings(type) ==
  {"SetCartesianCoordinate"}
    \cup (IF type # "Mid40" THEN {"LidarSetPointCloudReturnMode"} ELSE {})
    \cup (IF type \notin {"Mid40", "Mid70"} THEN {"LidarSetImuPushFrequency"} ELSE {})

\* Mutant: a change of state is not kept while the device is off.
Noted_OnlyOn(l, event, w) ==
  CASE event = "Connect" -> IF l.state = "Off" THEN [l EXCEPT !.state = "On"] ELSE l
    [] event = "Disconnect" -> [l EXCEPT !.state = "Off"]
    [] event = "StateChange" -> IF l.state = "On" THEN [l EXCEPT !.work = w] ELSE l

(* The device after an event, before the configuration. *)
Noted(l, event, w) ==
  CASE event = "Connect" -> IF l.state = "Off" THEN [l EXCEPT !.state = "On", !.work = w] ELSE l
    [] event = "Disconnect" -> [l EXCEPT !.state = "Off"]
    [] event = "StateChange" -> [l EXCEPT !.work = w]

(* OnDeviceChange, with the commands c as the event left them. *)
OnDeviceChange(h, event, w, c) ==
  LET l == Noted(lidars[h], event, w)
      config == l.state = "On" /\ l.work = "Normal"
      asks == IF config THEN Settings(TypeOf[h]) ELSE {}
  IN /\ lidars' = [lidars EXCEPT ![h] =
          IF config THEN [l EXCEPT !.state = "Config", !.bits = @ \cup asks] ELSE l]
     /\ calls' = Issue(c, h, asks)
     /\ UNCHANGED whitelist

OnConnect(h) == Connects(h) /\ OnDeviceChange(h, "Connect", work[h], calls)
OnStateChange(h) ==
  \E w \in Works : ChangesState(h, w) /\ OnDeviceChange(h, "StateChange", w, calls)
OnDisconnect(h) == Disconnects(h) /\ OnDeviceChange(h, "Disconnect", work[h], Dropped(h))

Setters == {"SetCartesianCoordinate", "LidarSetPointCloudReturnMode", "LidarSetImuPushFrequency"}

(* SetCoordinateCb, SetPointCloudReturnModeCb, SetImuRatePushFrequencyCb:  *)
(* any answer counts, whatever its response; a timeout is asked again.     *)
SettingCb(h, f, outcome) ==
  LET bits == lidars[h].bits \ {f}
  IN CASE outcome = "timeout" ->
            calls' = Issue(Settled(h, f), h, {f}) /\ UNCHANGED lidars
       [] outcome # "timeout" /\ bits # {} ->
            calls' = Settled(h, f) /\ lidars' = [lidars EXCEPT ![h].bits = bits]
       [] outcome # "timeout" /\ bits = {} ->
            /\ calls' = Issue(Settled(h, f), h, {"LidarStartSampling"})
            /\ lidars' = [lidars EXCEPT ![h].bits = {}, ![h].state = "Sampling"]

\* Mutant: a failed start is not taken back.
StartSampleCb_Ignored(h, outcome) ==
  calls' = Settled(h, "LidarStartSampling") /\ UNCHANGED lidars

StartSampleCb(h, outcome) ==
  /\ calls' = Settled(h, "LidarStartSampling")
  /\ lidars' = IF outcome = "ok" THEN lidars ELSE [lidars EXCEPT ![h].state = "On"]

OnAnswer(h) ==
  \E f \in Setters \cup {"LidarStartSampling"}, outcome \in Outcomes :
    /\ Answers(h, f, outcome)
    /\ IF f = "LidarStartSampling" THEN StartSampleCb(h, outcome) ELSE SettingCb(h, f, outcome)
    /\ UNCHANGED whitelist

OnFound(h) == Found(h) /\ UNCHANGED <<lidars, whitelist>>

Program == InitFails \/ Started \/ InitLdsLidar \/ DeInitLdsLidar

Event(h) ==
  \/ OnDeviceBroadcast(h) \/ OnFound(h) \/ OnConnect(h)
  \/ OnStateChange(h) \/ OnDisconnect(h) \/ OnAnswer(h)

Next == Program \/ \E h \in Handles : Event(h)

(* The devices keep answering: fair are the steps that neither use up a    *)
(* bound nor end the program.                                              *)
Served ==
  /\ \E h \in Handles : OnFound(h) \/ OnConnect(h) \/ OnStateChange(h) \/ OnAnswer(h)
  /\ left' = left

Spec == Init /\ [][Next]_ldsVars /\ WF_ldsVars(Served)

(***************************************************************************)
(* Properties                                                              *)
(***************************************************************************)

(* While a device is being configured, every setting that is awaited has a *)
(* command on its way: the code's tests of the type agree with the SDK's,  *)
(* and no callback gives a setting up.                                     *)
AskedForEveryBit ==
  phase = "running" => \A h \in Handles : lidars[h].state = "Config" =>
    lidars[h].bits # {} /\ \A f \in lidars[h].bits : calls[h][f] > 0

(* A device taken for sampling samples or has yet to answer the command    *)
(* that starts it: SetCoordinateCb and its like set the state before the   *)
(* answer, and StartSampleCb takes it back.                                *)
SamplingIsTrue ==
  phase = "running" => \A h \in Handles : lidars[h].state = "Sampling" =>
    (sampling[h] \/ calls[h]["LidarStartSampling"] > 0)

(* A wanted device that is connected and works normally comes to sample,   *)
(* in whatever order OnDeviceChange hears of its connection and its state, *)
(* unless a command failed or a late broadcast set its state back.         *)
ComesToSample ==
  \A h \in Handles :
    (phase = "running" /\ Wanted(h) /\ Ready(h)) ~> (sampling[h] \/ ~Ready(h) \/ Troubled)
===============================================================================
