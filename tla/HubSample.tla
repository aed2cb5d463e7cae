------------------------------- MODULE HubSample -------------------------------
(***************************************************************************)
(* sample/hub/main.c: connect every hub that broadcasts, start it once it  *)
(* works normally, and stop it after a while.  The entries of the LiDARs   *)
(* in devices are never read; the hub's is kept.                           *)
(***************************************************************************)
EXTENDS HubSession

VARIABLE devices  \* the hub's device_state and info.state

sampleVars == <<hubVars, devices>>

Init == HubInit /\ devices = [state |-> "Disconnect", work |-> "Init"]

TypeOK ==
  /\ HubTypeOK
  /\ devices \in [state : {"Disconnect", "Connect", "Sampling"}, work : Works]

(***************************************************************************)
(* Callbacks on the IO thread.                                             *)
(***************************************************************************)

(* The callback adds the hub and sets its state back at each broadcast. *)
OnDeviceBroadcast ==
  /\ Broadcasts(TRUE)
  /\ devices' = [devices EXCEPT !.state = "Disconnect"]
  /\ UNCHANGED <<phase, calls>>

(* Only a hub that does not sample is taken for disconnected.              *)
HubDeviceDisconnect(d) == IF d.state = "Connect" THEN [d EXCEPT !.state = "Disconnect"] ELSE d

(* What GetConnectedDevices names is connected, whatever its state was.    *)
HubDeviceConnect(d) ==
  IF Hub \in connected THEN [state |-> "Connect", work |-> work] ELSE HubDeviceDisconnect(d)
HubDeviceStateChange(d, w) == [d EXCEPT !.work = w]

(* OnDeviceInfoChange, where the event made d of the hub's entry and left  *)
(* the commands c. *)
OnDeviceInfoChange(d, c) ==
  LET start == d.state = "Connect" /\ d.work = "Normal"
  IN /\ devices' = IF start THEN [d EXCEPT !.state = "Sampling"] ELSE d
     /\ calls' = Issue(c, IF start THEN {"HubStartSampling"} ELSE {})

OnHubConnectionChange == QueryAnswered /\ OnDeviceInfoChange(HubDeviceConnect(devices), calls)

OnStateChange ==
  \E w \in Works :
    /\ ChangesState(w)
    /\ IF Hub \in connected
       THEN OnDeviceInfoChange(HubDeviceStateChange(devices, w), calls)
       ELSE UNCHANGED <<calls, devices>>

OnDisconnect == HubRemoved /\ devices' = HubDeviceDisconnect(devices)

\* Mutant: a start that failed is not taken back.
OnSampleCallback_Ignored ==
  \E outcome \in Outcomes :
    /\ Answers("HubStartSampling", outcome)
    /\ calls' = Settled("HubStartSampling") /\ UNCHANGED devices

OnSampleCallback ==
  \E outcome \in Outcomes :
    /\ Answers("HubStartSampling", outcome)
    /\ calls' = Settled("HubStartSampling")
    /\ devices' = IF outcome = "ok" THEN devices ELSE [devices EXCEPT !.state = "Connect"]

OnStopSampleCallback ==
  \E outcome \in Outcomes :
    /\ Answers("HubStopSampling", outcome)
    /\ calls' = Settled("HubStopSampling") /\ UNCHANGED devices

(***************************************************************************)
(* main: Init and Start, a sleep, a stop, another sleep and Uninit.        *)
(***************************************************************************)
SdkIdle == UNCHANGED <<tableVars, queryVars, sampling, left, devices>>

StartFails == phase = "off" /\ phase' = "done" /\ SdkIdle /\ UNCHANGED calls
Start == phase = "off" /\ phase' = "running" /\ SdkIdle /\ UNCHANGED calls
StopHub ==
  phase = "running" /\ phase' = "stopping" /\ calls' = Issue(calls, {"HubStopSampling"}) /\ SdkIdle
Uninit == phase = "stopping" /\ Uninits /\ UNCHANGED devices

Program == StartFails \/ Start \/ StopHub \/ Uninit

Event ==
  \/ OnDeviceBroadcast \/ OnHubConnectionChange \/ OnStateChange \/ OnDisconnect
  \/ OnSampleCallback \/ OnStopSampleCallback

Next == Program \/ Event \/ (Quiet /\ UNCHANGED devices)

Spec == Init /\ [][Next]_sampleVars

(***************************************************************************)
(* Properties                                                              *)
(***************************************************************************)

(* When the manager's queries are answered, a hub in sampling state        *)
(* samples or has yet to answer the start.  The state outlives a loss of   *)
(* the hub: it is the answer to the next query that starts it again.       *)
SamplingIsTrue ==
  phase = "running" /\ valid /\ queries = <<>> /\ devices.state = "Sampling" =>
    sampling \/ calls["HubStartSampling"] > 0
===============================================================================
