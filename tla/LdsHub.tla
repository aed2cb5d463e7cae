-------------------------------- MODULE LdsHub --------------------------------
(***************************************************************************)
(* sample_cc/hub: the hub data source.  A hub that works normally is asked *)
(* for its LiDARs, these are configured through it, and it is told to      *)
(* sample when the last setting is acknowledged.                           *)
(***************************************************************************)
EXTENDS HubSession

VARIABLES
  wanted,  \* auto_connect_mode_ is on or the hub is in the whitelist
  hub,     \* hub_: connect_state, info.state and config.set_bits
  lidars,  \* the units whose connect_state is kConnectStateSampling
  gaveUp   \* history: the settings whose command failed and was not repeated

ldsVars == <<wanted, hub, lidars, gaveUp>>

Init ==
  /\ HubInit
  /\ wanted \in BOOLEAN
  /\ hub = [state |-> "Off", work |-> "Init", bits |-> {}]
  /\ lidars = {} /\ gaveUp = {}

(***************************************************************************)
(* InitLdsHub, which sets the pointer that the callbacks use after Start,  *)
(* and DeInitLdsHub.                                                       *)
(***************************************************************************)
SdkIdle == UNCHANGED <<tableVars, queryVars, sampling, calls, left, ldsVars>>
InitFails == phase = "off" /\ phase' = "done" /\ SdkIdle
Started == phase = "off" /\ phase' = "starting" /\ SdkIdle
InitLdsHub == phase = "starting" /\ phase' = "running" /\ SdkIdle
DeInitLdsHub == phase = "running" /\ Uninits /\ UNCHANGED ldsVars

(***************************************************************************)
(* Callbacks on the IO thread.                                             *)
(***************************************************************************)
OnDeviceBroadcast ==
  /\ Broadcasts(phase = "running" /\ wanted /\ hub.state = "Off")
  /\ phase' = IF phase = "starting" THEN "crashed" ELSE phase
  /\ UNCHANGED <<calls, ldsVars>>

(* The hub after an event. *)
Noted(event, w) ==
  CASE event = "HubConnectionChange" ->
         IF hub.state = "Off" THEN [hub EXCEPT !.state = "On", !.work = w] ELSE hub
    [] event = "Disconnect" -> [hub EXCEPT !.state = "Off"]
    [] event = "StateChange" -> [hub EXCEPT !.work = w]

OnDeviceInfoChange(event, w) ==
  /\ hub' = Noted(event, w)
  /\ calls' = IF hub'.state = "On" /\ hub'.work = "Normal"
              THEN Issue(calls, {"HubQueryLidarInformation"}) ELSE calls
  /\ UNCHANGED <<wanted, lidars, gaveUp>>

OnHubConnectionChange == QueryAnswered /\ OnDeviceInfoChange("HubConnectionChange", work)

OnStateChange ==
  \E w \in Works :
    /\ ChangesState(w)
    /\ IF Hub \in connected
       THEN OnDeviceInfoChange("StateChange", w)
       ELSE UNCHANGED <<calls, ldsVars>>

OnDisconnect ==
  /\ HubRemoved /\ hub' = Noted("Disconnect", work)
  /\ gaveUp' = gaveUp \cup hub.bits
  /\ UNCHANGED <<wanted, lidars>>

UnitSettings == {"HubSetPointCloudReturnMode", "HubSetImuPushFrequency"}

(* ConfigPointCloudReturnMode and ConfigImuPushFrequency send nothing      *)
(* unless they find a LiDAR that can be configured.                        *)
Configurable(units) == \E u \in units : TypeOf[u] # "Mid40"
Config(units) == IF Configurable(units) THEN UnitSettings ELSE {}

(* HubQueryLidarInfoCb and ConfigLidarsOfHub: no LiDAR, or no answer, and  *)
(* the question is repeated. *)
HubQueryLidarInfoCb(outcome) ==
  LET found == lidars \cup plugged
      asks == Config(found) \cup {"SetCartesianCoordinate"}
      rest == Settled("HubQueryLidarInformation")
  IN IF outcome = "ok" /\ plugged # {}
     THEN /\ lidars' = found
          /\ calls' = Issue(rest, asks)
          /\ hub' = [hub EXCEPT !.state = "Config", !.bits = @ \cup asks]
          /\ gaveUp' = gaveUp \ asks
     ELSE /\ calls' = Issue(rest, {"HubQueryLidarInformation"})
          /\ UNCHANGED <<hub, lidars, gaveUp>>

(* What each of the three setters does with a success. *)
Done(f) ==
  LET bits == hub.bits \ {f}
      start == bits = {}
  IN /\ hub' = [hub EXCEPT !.bits = bits, !.state = IF start THEN "Sampling" ELSE @]
     /\ calls' = Issue(Settled(f), IF start THEN {"HubStartSampling"} ELSE {})
     /\ UNCHANGED <<lidars, gaveUp>>

\* Mutant: a refusal is not answered with a new command.
UnitSettingCb_NoRetry(f, outcome) ==
  IF outcome = "ok" THEN Done(f)
  ELSE /\ calls' = Settled(f) /\ UNCHANGED <<hub, lidars>>
       /\ gaveUp' = IF outcome = "timeout" THEN gaveUp \cup {f} ELSE gaveUp

(* HubSetPointCloudReturnModeCb, HubSetImuRatePushFrequencyCb: a timeout   *)
(* comes without a response and is not looked at; a refusal is repeated if *)
(* there is a LiDAR left to configure, and else the bit stays.             *)
UnitSettingCb(f, outcome) ==
  CASE outcome = "ok" -> Done(f)
    [] outcome = "timeout" ->
         calls' = Settled(f) /\ gaveUp' = gaveUp \cup {f} /\ UNCHANGED <<hub, lidars>>
    [] outcome = "refused" ->
         LET again == Config(lidars) \cap {f}
         IN /\ calls' = Issue(Settled(f), again)
            /\ hub' = [hub EXCEPT !.bits = @ \cup again]
            /\ gaveUp' = (gaveUp \ again) \cup ({f} \ again)
            /\ UNCHANGED lidars

(* SetCoordinateCb looks at the status only. *)
SetCoordinateCb(outcome) ==
  IF outcome = "timeout"
  THEN /\ calls' = Issue(Settled("SetCartesianCoordinate"), {"SetCartesianCoordinate"})
       /\ UNCHANGED <<hub, lidars, gaveUp>>
  ELSE Done("SetCartesianCoordinate")

\* Mutant: a failed start is not taken back.
StartSampleCb_Ignored(outcome) ==
  calls' = Settled("HubStartSampling") /\ UNCHANGED <<hub, lidars, gaveUp>>

StartSampleCb(outcome) ==
  /\ calls' = Settled("HubStartSampling")
  /\ IF outcome = "ok"
     THEN UNCHANGED <<hub, lidars>>
     ELSE hub' = [hub EXCEPT !.state = "On"] /\ lidars' = {}
  /\ UNCHANGED gaveUp

OnAnswer ==
  \E f \in UnitSettings \cup {"HubQueryLidarInformation", "SetCartesianCoordinate",
                              "HubStartSampling"}, outcome \in Outcomes :
    /\ Answers(f, outcome)
    /\ CASE f \in UnitSettings -> UnitSettingCb(f, outcome)
         [] f = "HubQueryLidarInformation" -> HubQueryLidarInfoCb(outcome)
         [] f = "SetCartesianCoordinate" -> SetCoordinateCb(outcome)
         [] f = "HubStartSampling" -> StartSampleCb(outcome)
    /\ UNCHANGED wanted

Event == OnDeviceBroadcast \/ OnHubConnectionChange \/ OnStateChange \/ OnDisconnect \/ OnAnswer

Next ==
  \/ InitFails \/ Started \/ InitLdsHub \/ DeInitLdsHub
  \/ Event \/ (Quiet /\ UNCHANGED ldsVars)

Spec == Init /\ [][Next]_<<hubVars, ldsVars>>

(***************************************************************************)
(* Properties                                                              *)
(***************************************************************************)

(* While the hub is being configured, every setting that is awaited has a  *)
(* command on its way: through refusals, units that change, configurations *)
(* started twice and hubs that come back.  It has none if the command      *)
(* timed out, was refused when a failed start had left no LiDAR to         *)
(* configure, or went with the hub, and the next configuration did not ask *)
(* for it again.  A hub taken for sampling samples or has yet to answer    *)
(* the start.                                                              *)
HubBitIsAsked ==
  /\ phase = "running" /\ hub.state = "Config" =>
       hub.bits # {} /\ \A f \in hub.bits \ gaveUp : calls[f] > 0
  /\ phase = "running" /\ hub.state = "Sampling" => sampling \/ calls["HubStartSampling"] > 0
===============================================================================
