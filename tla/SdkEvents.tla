------------------------------ MODULE SdkEvents -------------------------------
(***************************************************************************)
(* The SDK in LiDAR mode as a program that uses it sees it: which          *)
(* callbacks may come, in which order, and what becomes of the commands    *)
(* the program sends.  It is the environment of the sample programs, and   *)
(* it takes for granted what the detailed modules show:                    *)
(*   - a device is listed by AddLidarToConnect, found when its handshake   *)
(*     is answered, and announced with kEventConnect once its information  *)
(*     query is answered; heartbeats report its working state from the     *)
(*     moment it is found, before or after the announcement (Connection);  *)
(*   - a command is called back once, with an answer or with               *)
(*     kStatusTimeout, unless its channel goes, and then never             *)
(*     (CommandChannel); giving up on a device drops its commands and      *)
(*     sends kEventDisconnect;                                             *)
(*   - after Uninit nothing is called any more (SdkLifecycle).             *)
(* All callbacks run on the IO thread, one at a time.  The device itself   *)
(* is one flag: whether it samples.                                        *)
(***************************************************************************)
EXTENDS CommandApi, FiniteSets

CONSTANTS
  Handles,    \* the devices on the network, by the handle they are given
  TypeOf,     \* Handles -> LidarTypes
  MaxEvents,  \* bound: state changes and disconnections
  MaxFaults   \* bound: lost or refused commands and late broadcasts

ASSUME HandlesAssumption == IsFiniteSet(Handles) /\ TypeOf \in [Handles -> LidarTypes]
ASSUME BoundsAssumption == MaxEvents \in Nat /\ MaxFaults \in Nat

VARIABLES
  phase,     \* where the program's main function is
  link,      \* what DeviceManager and the handlers know of a device
  work,      \* DeviceInfo.state in DeviceManager's table
  calls,     \* commands sent and not called back: Handles -> [Asked -> Nat]
  sampling,  \* the device samples
  left       \* what remains of the two bounds

sdkVars == <<phase, link, work, calls, sampling, left>>

(* The functions whose callbacks or effects matter to a program.  The      *)
(* callback of QueryDeviceInformation only prints and is left out.         *)
Asked == {"LidarStartSampling", "LidarStopSampling", "SetCartesianCoordinate",
          "LidarSetPointCloudReturnMode", "LidarSetImuPushFrequency",
          "LidarGetExtrinsicParameter", "LidarSetRmcSyncTime"}

Phases == {"off", "starting", "running", "stopping", "done", "crashed"}
Links == {"unknown", "listed", "found", "connected"}
Works == {"Init", "Normal"}
NoCalls == [f \in Asked |-> 0]

(* Callbacks come from Start to Uninit. *)
Up == phase \in {"starting", "running", "stopping"}

SdkInit ==
  /\ phase = "off"
  /\ link = [h \in Handles |-> "unknown"]
  /\ work = [h \in Handles |-> "Init"]
  /\ calls = [h \in Handles |-> NoCalls]
  /\ sampling = [h \in Handles |-> FALSE]
  /\ left = [events |-> MaxEvents, faults |-> MaxFaults]

SdkTypeOK ==
  /\ phase \in Phases
  /\ link \in [Handles -> Links]
  /\ work \in [Handles -> Works]
  /\ calls \in [Handles -> [Asked -> Nat]]
  /\ sampling \in [Handles -> BOOLEAN]
  /\ left \in [events : 0..MaxEvents, faults : 0..MaxFaults]

(* c with the functions fs called for h: those that h's type does not      *)
(* support are refused and leave no command behind.                        *)
Issue(c, h, fs) ==
  [c EXCEPT ![h] = [f \in Asked |->
     @[f] + (IF f \in fs /\ Accepts(f, "Lidar", TypeOf[h], TRUE) THEN 1 ELSE 0)]]

(* ... called for each of the devices hs in turn. *)
IssueAll(c, hs, fs) == [h \in Handles |-> IF h \in hs THEN Issue(c, h, fs)[h] ELSE c[h]]

Spent(b) == [left EXCEPT ![b] = @ - 1]

(***************************************************************************)
(* The steps of the SDK.  Each leaves calls to the handler that runs       *)
(* with it, because handlers send commands.                                *)
(***************************************************************************)

(* A broadcast of h is processed.  Devices stop broadcasting when they are *)
(* found, but a datagram may still wait in the socket.                     *)
Broadcasts(h) ==
  /\ Up
  /\ \/ link[h] \in {"unknown", "listed"} /\ UNCHANGED left
     \/ link[h] \in {"found", "connected"} /\ left.faults > 0 /\ left' = Spent("faults")
  /\ UNCHANGED <<work, sampling>>

(* AddLidarToConnect, for a program that connects h: an unknown code gets  *)
(* an entry of the table, a known one keeps what it has.                   *)
Listed(h) == link' = [link EXCEPT ![h] = IF @ = "unknown" THEN "listed" ELSE @]

(* DeviceFound: the table's entry is replaced, so its state is the initial *)
(* one until a heartbeat says otherwise.  The program is not told.         *)
Found(h) ==
  /\ Up /\ link[h] = "listed"
  /\ link' = [link EXCEPT ![h] = "found"]
  /\ work' = [work EXCEPT ![h] = "Init"]
  /\ UNCHANGED <<phase, calls, sampling, left>>

(* kEventConnect *)
Connects(h) ==
  /\ Up /\ link[h] = "found"
  /\ link' = [link EXCEPT ![h] = "connected"]
  /\ UNCHANGED <<phase, work, sampling, left>>

(* kEventStateChange, to the working state w *)
ChangesState(h, w) ==
  /\ Up /\ link[h] \in {"found", "connected"}
  /\ w # work[h]
  /\ w # "Normal" => left.events > 0
  /\ left' = IF w = "Normal" THEN left ELSE Spent("events")
  /\ work' = [work EXCEPT ![h] = w]
  /\ UNCHANGED <<phase, link, sampling>>

(* kEventDisconnect: the channel is gone, and its commands with it. *)
Disconnects(h) ==
  /\ Up /\ link[h] \in {"found", "connected"} /\ left.events > 0
  /\ link' = [link EXCEPT ![h] = "listed"]
  /\ left' = Spent("events")
  /\ sampling' = [sampling EXCEPT ![h] = FALSE]
  /\ UNCHANGED <<phase, work>>

Dropped(h) == [calls EXCEPT ![h] = NoCalls]

(* What the device does when it executes f. *)
Executed(h, f) ==
  [sampling EXCEPT ![h] = CASE f = "LidarStartSampling" -> TRUE
                            [] f = "LidarStopSampling" -> FALSE
                            [] OTHER -> @]

(* One command f of h is called back: done, refused by the device with a   *)
(* response other than zero, or timed out, executed or not.                *)
Answers(h, f, outcome) ==
  /\ Up /\ calls[h][f] > 0
  /\ \/ /\ outcome = "ok"
        /\ sampling' = Executed(h, f) /\ UNCHANGED left
     \/ /\ outcome = "refused" /\ left.faults > 0
        /\ left' = Spent("faults") /\ UNCHANGED sampling
     \/ /\ outcome = "timeout" /\ left.faults > 0
        /\ left' = Spent("faults") /\ sampling' \in {sampling, Executed(h, f)}
  /\ UNCHANGED <<phase, link, work>>

Settled(h, f) == [calls EXCEPT ![h][f] = @ - 1]
Outcomes == {"ok", "refused", "timeout"}

(* Uninit: commands still posted or unanswered reach the device or not.    *)
Uninits ==
  /\ phase' = "done"
  /\ calls' = [h \in Handles |-> NoCalls]
  /\ sampling' \in {s \in [Handles -> BOOLEAN] : \A h \in Handles :
       \/ s[h] = sampling[h]
       \/ \E f \in Asked : calls[h][f] > 0 /\ s[h] = Executed(h, f)[h]}
  /\ UNCHANGED <<link, work, left>>

(* What the properties of the programs say of a device. *)
Ready(h) == link[h] = "connected" /\ work[h] = "Normal"
Troubled == phase # "running" \/ left.faults < MaxFaults
===============================================================================
