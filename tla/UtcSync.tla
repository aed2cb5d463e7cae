-------------------------------- MODULE UtcSync --------------------------------
(***************************************************************************)
(* sample_cc/lidar_utc_sync: every GPRMC sentence that Synchro delivers is *)
(* passed to the LiDARs that are connected and work normally.  Three       *)
(* threads meet here: main, the IO thread and Synchro's listener, the last *)
(* two under one mutex.  Synchro appears by its contract: it delivers      *)
(* sentences between Start and the join in Stop.                           *)
(***************************************************************************)
EXTENDS SdkEvents

CONSTANT MaxSentences  \* bound: sentences delivered

VARIABLES
  lidars,     \* connect_state and info.state by handle
  whitelist,  \* the codes of the command line; empty: connect all
  listener,   \* Synchro's thread: off, running, or told to quit
  sentences   \* what remains of the bound

utcVars == <<sdkVars, lidars, whitelist, listener, sentences>>

(* AddLocalBroadcastCode compares the wrong length and accepts no code of  *)
(* the source's list, so that the whitelist is the command line's.         *)
Init ==
  /\ SdkInit
  /\ lidars = [h \in Handles |-> [state |-> "Off", work |-> "Init"]]
  /\ whitelist \in SUBSET Handles
  /\ listener = "off" /\ sentences = MaxSentences

(***************************************************************************)
(* The main function.                                                      *)
(***************************************************************************)
Stays == UNCHANGED <<lidars, whitelist, sentences>>
SdkIdle == UNCHANGED <<link, work, calls, sampling, left>>

InitFails == phase = "off" /\ phase' = "done" /\ SdkIdle /\ Stays /\ UNCHANGED listener

Started == phase = "off" /\ phase' = "starting" /\ SdkIdle /\ Stays /\ UNCHANGED listener

InitLdsLidar ==
  phase = "starting" /\ phase' = "running" /\ SdkIdle /\ Stays /\ UNCHANGED listener

SynchroStarts ==
  /\ phase = "running" /\ listener = "off" /\ listener' = "running"
  /\ UNCHANGED sdkVars /\ Stays

(* Without a serial port main returns and leaves the SDK's threads to the  *)
(* exit of the process, which destroys what they work on.                  *)
SynchroFails ==
  /\ phase = "running" /\ listener = "off"
  /\ phase' \in {"done", "crashed"} /\ calls' = [h \in Handles |-> NoCalls]
  /\ UNCHANGED <<link, work, sampling, left, listener>> /\ Stays

(* Synchro::Stop *)
SynchroStops ==
  /\ phase = "running" /\ listener = "running" /\ listener' = "quitting"
  /\ UNCHANGED sdkVars /\ Stays

\* Mutant: the program is taken down while the listener runs.
SynchroJoined_Not ==
  /\ phase = "running" /\ listener = "quitting"
  /\ phase' = "stopping" /\ UNCHANGED listener
  /\ SdkIdle /\ Stays

(* The listener's loop sees the flag, and Stop joins it. *)
SynchroJoined ==
  /\ phase = "running" /\ listener = "quitting"
  /\ phase' = "stopping" /\ listener' = "off"
  /\ SdkIdle /\ Stays

DeInitLdsLidar == phase = "stopping" /\ Uninits /\ Stays /\ UNCHANGED listener

(***************************************************************************)
(* Callbacks on the IO thread.                                             *)
(***************************************************************************)
Wanted(h) == whitelist = {} \/ h \in whitelist

OnDeviceBroadcast(h) ==
  /\ Broadcasts(h)
  /\ IF phase = "starting"
     THEN phase' = "crashed" /\ UNCHANGED <<link, lidars>>
     ELSE /\ UNCHANGED phase
          /\ IF Wanted(h)
             THEN Listed(h) /\ lidars' = [lidars EXCEPT ![h].state = "Off"]
             ELSE UNCHANGED <<link, lidars>>
  /\ UNCHANGED <<calls, whitelist, listener, sentences>>

\* Mutant: the states of devices that are off are left out.
OnDeviceChange_OnlyOn(h, event, w) ==
  /\ lidars' = [lidars EXCEPT ![h] =
       CASE event = "Connect" -> IF @.state = "Off" THEN [@ EXCEPT !.state = "On"] ELSE @
         [] event = "Disconnect" -> [@ EXCEPT !.state = "Off"]
         [] event = "StateChange" -> IF @.state = "On" THEN [@ EXCEPT !.work = w] ELSE @]
  /\ UNCHANGED <<whitelist, listener, sentences>>

(* OnDeviceChange; what it asks of the device is only printed. *)
OnDeviceChange(h, event, w) ==
  /\ lidars' = [lidars EXCEPT ![h] =
       CASE event = "Connect" -> IF @.state = "Off" THEN [state |-> "On", work |-> w] ELSE @
         [] event = "Disconnect" -> [@ EXCEPT !.state = "Off"]
         [] event = "StateChange" -> [@ EXCEPT !.work = w]]
  /\ UNCHANGED <<whitelist, listener, sentences>>

OnFound(h) == Found(h) /\ Stays /\ UNCHANGED listener
OnConnect(h) == Connects(h) /\ OnDeviceChange(h, "Connect", work[h]) /\ UNCHANGED calls
OnStateChange(h) ==
  \E w \in Works : ChangesState(h, w) /\ OnDeviceChange(h, "StateChange", w) /\ UNCHANGED calls
OnDisconnect(h) ==
  Disconnects(h) /\ OnDeviceChange(h, "Disconnect", work[h]) /\ calls' = Dropped(h)

LidarSetRmcSyncTimeCb(h) ==
  \E outcome \in Outcomes :
    /\ Answers(h, "LidarSetRmcSyncTime", outcome)
    /\ calls' = Settled(h, "LidarSetRmcSyncTime")
    /\ Stays /\ UNCHANGED listener

(***************************************************************************)
(* The callback on Synchro's thread, until it is joined.                   *)
(***************************************************************************)
Told == {h \in Handles : lidars[h].state # "Off" /\ lidars[h].work = "Normal"}

SetRmcSyncTime ==
  /\ listener # "off" /\ sentences > 0
  /\ sentences' = sentences - 1
  /\ calls' = IssueAll(calls, Told, {"LidarSetRmcSyncTime"})
  /\ UNCHANGED <<phase, link, work, sampling, left, lidars, whitelist, listener>>

Program ==
  \/ InitFails \/ Started \/ InitLdsLidar \/ SynchroStarts \/ SynchroFails
  \/ SynchroStops \/ SynchroJoined \/ DeInitLdsLidar

Event(h) ==
  \/ OnDeviceBroadcast(h) \/ OnFound(h) \/ OnConnect(h) \/ OnStateChange(h)
  \/ OnDisconnect(h) \/ LidarSetRmcSyncTimeCb(h)

Next == Program \/ SetRmcSyncTime \/ \E h \in Handles : Event(h)

Spec == Init /\ [][Next]_utcVars

(***************************************************************************)
(* Properties                                                              *)
(***************************************************************************)

(* The next sentence goes to exactly the devices that are connected and    *)
(* work normally, whatever the order of the events that OnDeviceChange     *)
(* keeps its copies from, as long as no late broadcast comes; and none is  *)
(* passed to an SDK that is taken down: DeInitLdsLidar comes after the     *)
(* join of the thread that passes them.                                    *)
TimeReachesAll ==
  /\ phase \in {"running", "stopping"} /\ left.faults = MaxFaults =>
       Told = {h \in Handles : Ready(h)}
  /\ phase = "done" => calls = [h \in Handles |-> NoCalls]
===============================================================================
