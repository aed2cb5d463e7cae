------------------------- MODULE LidarPrograms_proof -------------------------
(***************************************************************************)
(* Theorems about the sample programs for LiDARs, for any set of devices,  *)
(* any bounds and any sizes of buffers.  Of each program an invariant is   *)
(* shown to hold while it is the one that is run.                          *)
(***************************************************************************)
EXTENDS LidarPrograms, FiniteSetTheorems, WellFoundedInduction, TLAPS

-----------------------------------------------------------------------------
(* The tests of the type in the SDK agree with those of the data source.   *)

(* A function is what its group says it is. *)
LEMMA FunctionOf ==
  ASSUME NEW g \in FunctionGroups, NEW f \in DOMAIN g,
         \A k \in FunctionGroups : f \in DOMAIN k => k = g
  PROVE  Functions[f] = g[f]
BY DEF Functions

LEMMA Groups ==
  /\ SamplingFunctions \in FunctionGroups /\ DeviceFunctions \in FunctionGroups
  /\ LidarFunctions \in FunctionGroups
BY DEF FunctionGroups

LEMMA StartFunction ==
  Functions["LidarStartSampling"] = Sends("General", "ControlSample", {"Lidar"}, DeviceTypes, FALSE)
<1> DEFINE f == "LidarStartSampling"
<1>1. f \in DOMAIN SamplingFunctions
  BY DEF SamplingFunctions
<1>2. SamplingFunctions[f] = Sends("General", "ControlSample", {"Lidar"}, DeviceTypes, FALSE)
  BY DEF SamplingFunctions
<1>3. f \notin DOMAIN DeviceFunctions /\ f \notin DOMAIN ParameterFunctions
  BY DEF DeviceFunctions, ParameterFunctions
<1>4. f \notin DOMAIN LidarFunctions /\ f \notin DOMAIN HubFunctions
  BY DEF LidarFunctions, HubFunctions
<1>5. f \notin DOMAIN HubUnitFunctions /\ f \notin DOMAIN SyncFunctions
  BY DEF HubUnitFunctions, SyncFunctions
<1> HIDE DEF f
<1>6. \A k \in FunctionGroups : f \in DOMAIN k => k = SamplingFunctions
  BY <1>3, <1>4, <1>5 DEF FunctionGroups
<1>7. Functions[f] = SamplingFunctions[f]
  BY <1>1, <1>6, Groups, FunctionOf
<1> QED
  BY <1>2, <1>7 DEF f

LEMMA CoordinateFunction ==
  Functions["SetCartesianCoordinate"] = Always("CoordinateSystem")
<1> DEFINE f == "SetCartesianCoordinate"
<1>1. f \in DOMAIN DeviceFunctions
  BY DEF DeviceFunctions
<1>2. DeviceFunctions[f] = Always("CoordinateSystem")
  BY DEF DeviceFunctions
<1>3. f \notin DOMAIN SamplingFunctions /\ f \notin DOMAIN ParameterFunctions
  BY DEF SamplingFunctions, ParameterFunctions
<1>4. f \notin DOMAIN LidarFunctions /\ f \notin DOMAIN HubFunctions
  BY DEF LidarFunctions, HubFunctions
<1>5. f \notin DOMAIN HubUnitFunctions /\ f \notin DOMAIN SyncFunctions
  BY DEF HubUnitFunctions, SyncFunctions
<1> HIDE DEF f
<1>6. \A k \in FunctionGroups : f \in DOMAIN k => k = DeviceFunctions
  BY <1>3, <1>4, <1>5 DEF FunctionGroups
<1>7. Functions[f] = DeviceFunctions[f]
  BY <1>1, <1>6, Groups, FunctionOf
<1> QED
  BY <1>2, <1>7 DEF f

LEMMA ReturnModeFunction ==
  Functions["LidarSetPointCloudReturnMode"] = Except({"Mid40"}, "SetPointCloudReturnMode")
<1> DEFINE f == "LidarSetPointCloudReturnMode"
<1>1. f \in DOMAIN LidarFunctions
  BY DEF LidarFunctions
<1>2. LidarFunctions[f] = Except({"Mid40"}, "SetPointCloudReturnMode")
  BY DEF LidarFunctions
<1>3. f \notin DOMAIN SamplingFunctions /\ f \notin DOMAIN ParameterFunctions
  BY DEF SamplingFunctions, ParameterFunctions
<1>4. f \notin DOMAIN DeviceFunctions /\ f \notin DOMAIN HubFunctions
  BY DEF DeviceFunctions, HubFunctions
<1>5. f \notin DOMAIN HubUnitFunctions /\ f \notin DOMAIN SyncFunctions
  BY DEF HubUnitFunctions, SyncFunctions
<1> HIDE DEF f
<1>6. \A k \in FunctionGroups : f \in DOMAIN k => k = LidarFunctions
  BY <1>3, <1>4, <1>5 DEF FunctionGroups
<1>7. Functions[f] = LidarFunctions[f]
  BY <1>1, <1>6, Groups, FunctionOf
<1> QED
  BY <1>2, <1>7 DEF f

LEMMA ImuFunction ==
  Functions["LidarSetImuPushFrequency"] = Except({"Mid40", "Mid70"}, "SetImuPushFrequency")
<1> DEFINE f == "LidarSetImuPushFrequency"
<1>1. f \in DOMAIN LidarFunctions
  BY DEF LidarFunctions
<1>2. LidarFunctions[f] = Except({"Mid40", "Mid70"}, "SetImuPushFrequency")
  BY DEF LidarFunctions
<1>3. f \notin DOMAIN SamplingFunctions /\ f \notin DOMAIN ParameterFunctions
  BY DEF SamplingFunctions, ParameterFunctions
<1>4. f \notin DOMAIN DeviceFunctions /\ f \notin DOMAIN HubFunctions
  BY DEF DeviceFunctions, HubFunctions
<1>5. f \notin DOMAIN HubUnitFunctions /\ f \notin DOMAIN SyncFunctions
  BY DEF HubUnitFunctions, SyncFunctions
<1> HIDE DEF f
<1>6. \A k \in FunctionGroups : f \in DOMAIN k => k = LidarFunctions
  BY <1>3, <1>4, <1>5 DEF FunctionGroups
<1>7. Functions[f] = LidarFunctions[f]
  BY <1>1, <1>6, Groups, FunctionOf
<1> QED
  BY <1>2, <1>7 DEF f

(* No setting and no start is refused for the type of the device. *)
LEMMA Accepted ==
  ASSUME NEW t \in LidarTypes, NEW f \in Settings(t) \cup {"LidarStartSampling"}
  PROVE  Accepts(f, "Lidar", t, TRUE)
<1>1. t \in DeviceTypes /\ "Lidar" \in DeviceModes
  BY DEF DeviceTypes, DeviceModes
<1>2. CASE f = "LidarStartSampling"
  BY <1>1, <1>2, StartFunction DEF Accepts, Sends
<1>3. CASE f = "SetCartesianCoordinate"
  BY <1>1, <1>3, CoordinateFunction DEF Accepts, Always, Sends
<1>4. CASE f = "LidarSetPointCloudReturnMode"
  <2>1. t # "Mid40"
    BY <1>4 DEF Settings
  <2> QED
    BY <1>1, <1>4, <2>1, ReturnModeFunction DEF Accepts, Except, Sends
<1>5. CASE f = "LidarSetImuPushFrequency"
  <2>1. t \notin {"Mid40", "Mid70"}
    BY <1>5 DEF Settings
  <2> QED
    BY <1>1, <1>5, <2>1, ImuFunction DEF Accepts, Except, Sends
<1> QED
  BY <1>2, <1>3, <1>4, <1>5 DEF Settings
(* Commands: issued, called back, dropped.                                 *)
CallsOf == [Asked -> Nat]
CallsType == [Handles -> CallsOf]
Bounds == [events : 0..MaxEvents, faults : 0..MaxFaults]

LEMMA Names ==
  /\ "LidarStartSampling" \in Asked /\ Setters \subseteq Asked
  /\ "LidarStartSampling" \notin Setters /\ "LidarStopSampling" \notin Setters
  /\ \A t \in LidarTypes : Settings(t) \subseteq Setters /\ Settings(t) # {}
BY DEF Asked, Setters, Settings

LEMMA IssueOther ==
  ASSUME NEW c \in CallsType, NEW h \in Handles, NEW fs, NEW k \in Handles \ {h}
  PROVE  Issue(c, h, fs)[k] = c[k]
BY DEF Issue, CallsType

LEMMA IssueAt ==
  ASSUME NEW c \in CallsType, NEW h \in Handles, NEW fs, NEW f \in Asked
  PROVE  Issue(c, h, fs)[h][f] =
           c[h][f] + (IF f \in fs /\ Accepts(f, "Lidar", TypeOf[h], TRUE) THEN 1 ELSE 0)
BY DEF Issue, CallsType

LEMMA IssueType ==
  ASSUME NEW c \in CallsType, NEW h \in Handles, NEW fs
  PROVE  Issue(c, h, fs) \in CallsType
<1> DEFINE sent(f) == f \in fs /\ Accepts(f, "Lidar", TypeOf[h], TRUE)
           new == [f \in Asked |-> c[h][f] + (IF sent(f) THEN 1 ELSE 0)]
<1>1. ASSUME NEW f \in Asked PROVE c[h][f] + (IF sent(f) THEN 1 ELSE 0) \in Nat
  <2>1. c[h][f] \in Nat
    BY DEF CallsType, CallsOf
  <2> HIDE DEF sent
  <2> QED
    BY <2>1
<1>2. new \in CallsOf
  BY <1>1 DEF CallsOf
<1>3. Issue(c, h, fs) = [c EXCEPT ![h] = new]
  BY DEF Issue
<1> HIDE DEF new
<1> QED
  BY <1>2, <1>3 DEF CallsType

(* Nothing is lost when commands are issued, ... *)
LEMMA IssueGrows ==
  ASSUME NEW c \in CallsType, NEW h \in Handles, NEW fs, NEW f \in Asked
  PROVE  c[h][f] \in Nat /\ Issue(c, h, fs)[h][f] >= c[h][f]
<1> DEFINE sent == f \in fs /\ Accepts(f, "Lidar", TypeOf[h], TRUE)
<1>1. c[h][f] \in Nat
  BY DEF CallsType, CallsOf
<1>2. Issue(c, h, fs)[h][f] = c[h][f] + (IF sent THEN 1 ELSE 0)
  BY IssueAt
<1> HIDE DEF sent
<1> QED
  BY <1>1, <1>2

(* ... and those that are accepted are under way. *)
LEMMA IssueSends ==
  ASSUME NEW c \in CallsType, NEW h \in Handles, NEW fs,
         NEW f \in fs \cap (Settings(TypeOf[h]) \cup {"LidarStartSampling"})
  PROVE  Issue(c, h, fs)[h][f] > 0
<1>1. TypeOf[h] \in LidarTypes
  BY HandlesAssumption
<1>2. f \in Asked
  BY <1>1, Names
<1>3. Accepts(f, "Lidar", TypeOf[h], TRUE)
  BY <1>1, Accepted
<1>4. c[h][f] \in Nat
  BY <1>2 DEF CallsType, CallsOf
<1>5. Issue(c, h, fs)[h][f] = c[h][f] + 1
  BY <1>2, <1>3, IssueAt
<1> QED
  BY <1>4, <1>5

LEMMA SettledType ==
  ASSUME calls \in CallsType, NEW h \in Handles, NEW f \in Asked, calls[h][f] > 0
  PROVE  /\ Settled(h, f) \in CallsType
         /\ \A g \in Asked \ {f} : Settled(h, f)[h][g] = calls[h][g]
         /\ \A k \in Handles \ {h} : Settled(h, f)[k] = calls[k]
<1>1. calls[h] \in CallsOf /\ calls[h][f] - 1 \in Nat
  BY DEF CallsType, CallsOf
<1>2. [calls[h] EXCEPT ![f] = calls[h][f] - 1] \in CallsOf
  BY <1>1 DEF CallsOf
<1>3. Settled(h, f) = [calls EXCEPT ![h] = [calls[h] EXCEPT ![f] = calls[h][f] - 1]]
  BY DEF Settled
<1>4. Settled(h, f) \in CallsType
  BY <1>2, <1>3 DEF CallsType
<1>5. Settled(h, f)[h] = [calls[h] EXCEPT ![f] = calls[h][f] - 1]
  BY <1>3 DEF CallsType
<1>6. \A g \in Asked \ {f} : Settled(h, f)[h][g] = calls[h][g]
  BY <1>1, <1>5 DEF CallsOf
<1>7. \A k \in Handles \ {h} : Settled(h, f)[k] = calls[k]
  BY <1>3 DEF CallsType
<1> QED
  BY <1>4, <1>6, <1>7

LEMMA DroppedType ==
  ASSUME calls \in CallsType, NEW h \in Handles
  PROVE  Dropped(h) \in CallsType /\ \A k \in Handles \ {h} : Dropped(h)[k] = calls[k]
<1>1. NoCalls \in CallsOf
  BY DEF NoCalls, CallsOf
<1> QED
  BY <1>1 DEF Dropped, CallsType

LEMMA SpentType ==
  ASSUME left \in Bounds, NEW b \in {"events", "faults"}, left[b] > 0
  PROVE  Spent(b) \in Bounds
BY BoundsAssumption DEF Spent, Bounds

(* The invariant.  What is said of a device while the SDK may call the     *)
(* program: its bits are settings of its type, a device that is configured *)
(* awaits one at least and has been asked for all, and one in sampling     *)
(* state samples or was told to.                                           *)
Live == phase \in {"off", "starting", "running"}
Entry == [state : {"Off", "On", "Config", "Sampling"}, work : Works, bits : SUBSET Asked]

Kept(h) ==
  /\ lidars[h].bits \subseteq Settings(TypeOf[h])
  /\ lidars[h].state = "Config" =>
       lidars[h].bits # {} /\ \A f \in lidars[h].bits : calls[h][f] > 0
  /\ lidars[h].state = "Sampling" => sampling[h] \/ calls[h]["LidarStartSampling"] > 0

Types ==
  /\ link \in [Handles -> Links] /\ work \in [Handles -> Works]
  /\ sampling \in [Handles -> BOOLEAN] /\ left \in Bounds
ProgramTypes ==
  /\ phase \in Phases /\ calls \in CallsType
  /\ lidars \in [Handles -> Entry] /\ whitelist \subseteq Handles

LdsInv == Types /\ ProgramTypes /\ (Live => \A h \in Handles : Kept(h))

LEMMA TypeParts == TypeOK <=> Types /\ ProgramTypes
BY DEF TypeOK, SdkTypeOK, Types, ProgramTypes, CallsType, CallsOf, Bounds, Entry
LEMMA LdsInitHolds == Init => LdsInv
<1> SUFFICES ASSUME Init PROVE LdsInv
  OBVIOUS
<1>1. link \in [Handles -> Links] /\ work \in [Handles -> Works] /\ sampling \in [Handles -> BOOLEAN]
  BY DEF Init, SdkInit, Links, Works
<1>2. left \in Bounds
  BY BoundsAssumption DEF Init, SdkInit, Bounds
<1>3. NoCalls \in CallsOf
  BY DEF NoCalls, CallsOf
<1>4. calls \in CallsType /\ phase \in Phases
  BY <1>3 DEF Init, SdkInit, CallsType, Phases
<1>5. Unconnected \in Entry
  BY DEF Unconnected, Entry, Works
<1>6. lidars \in [Handles -> Entry] /\ whitelist \subseteq Handles
  BY <1>5 DEF Init
<1>7. \A h \in Handles : Kept(h)
  BY DEF Init, Unconnected, Kept
<1> QED
  BY <1>1, <1>2, <1>4, <1>6, <1>7 DEF LdsInv, Types, ProgramTypes

(* A step of device h leaves the others as they are. *)
LEMMA LdsOneDevice ==
  ASSUME LdsInv, NEW h \in Handles, Live' => Live,
         \A k \in Handles \ {h} :
           lidars'[k] = lidars[k] /\ calls'[k] = calls[k] /\ sampling'[k] = sampling[k],
         Live' => Kept(h)'
  PROVE  Live' => \A k \in Handles : Kept(k)'
BY DEF LdsInv, Kept

LEMMA LdsBroadcastStep ==
  ASSUME LdsInv, NEW h \in Handles, OnDeviceBroadcast(h)
  PROVE  LdsInv'
<1>1. left' \in Bounds /\ work' = work /\ sampling' = sampling /\ calls' = calls
      /\ whitelist' = whitelist
  BY SpentType DEF LdsInv, Types, OnDeviceBroadcast, Broadcasts
<1>2. link' \in [Handles -> Links]
  BY DEF LdsInv, Types, OnDeviceBroadcast, Listed, Links
<1>3. phase' \in Phases /\ (Live' => phase' = phase)
  BY DEF LdsInv, ProgramTypes, OnDeviceBroadcast, Phases, Live
<1>4. lidars' = lidars \/ lidars' = [lidars EXCEPT ![h].state = "Off"]
  BY DEF OnDeviceBroadcast
<1>5. lidars' \in [Handles -> Entry]
  BY <1>4 DEF LdsInv, ProgramTypes, Entry
<1>6. Live' => \A k \in Handles : Kept(k)'
  <2>1. CASE lidars' = lidars
    BY <1>1, <1>3, <2>1 DEF LdsInv, Kept, Live
  <2>2. CASE lidars' = [lidars EXCEPT ![h].state = "Off"]
    <3>1. \A k \in Handles \ {h} : lidars'[k] = lidars[k]
      BY <2>2 DEF LdsInv, ProgramTypes
    <3>2. lidars'[h].state = "Off" /\ lidars'[h].bits = lidars[h].bits
      BY <2>2 DEF LdsInv, ProgramTypes, Entry
    <3>3. Live' => Kept(h)'
      BY <1>3, <3>2 DEF LdsInv, Kept, Live
    <3> QED
      BY <1>1, <1>3, <3>1, <3>3, LdsOneDevice DEF Live
  <2> QED
    BY <1>4, <2>1, <2>2
<1> QED
  BY <1>1, <1>2, <1>3, <1>5, <1>6 DEF LdsInv, Types, ProgramTypes

(* OnDeviceChange asks for every setting of the type, so that nothing is   *)
(* awaited that was not asked for. *)
LEMMA ChangeStep ==
  ASSUME LdsInv, Types', phase' = phase, NEW h \in Handles,
         NEW event \in {"Connect", "Disconnect", "StateChange"}, NEW w \in Works,
         NEW c \in CallsType, \A k \in Handles \ {h} : c[k] = calls[k],
         \A k \in Handles \ {h} : sampling'[k] = sampling[k],
         event # "Disconnect" => c = calls /\ sampling' = sampling,
         OnDeviceChange(h, event, w, c)
  PROVE  LdsInv'
<1> DEFINE l == Noted(lidars[h], event, w)
           config == l.state = "On" /\ l.work = "Normal"
           asks == IF config THEN Settings(TypeOf[h]) ELSE {}
<1>1. /\ lidars' = [lidars EXCEPT ![h] =
                     IF config THEN [l EXCEPT !.state = "Config", !.bits = @ \cup asks] ELSE l]
      /\ calls' = Issue(c, h, asks)
      /\ whitelist' = whitelist
  BY DEF OnDeviceChange
<1>2. lidars[h] \in Entry
  BY DEF LdsInv, ProgramTypes
<1>3. /\ l \in Entry /\ l.bits = lidars[h].bits
      /\ l.state \in {"Off", "On", lidars[h].state}
      /\ event = "Disconnect" => l.state = "Off"
  BY <1>2 DEF Noted, Entry
<1>4. TypeOf[h] \in LidarTypes
  BY HandlesAssumption
<1> HIDE DEF l
<1>5. asks \subseteq Asked /\ asks \subseteq Settings(TypeOf[h])
  BY <1>4, Names
<1>6. lidars'[h] = IF config THEN [l EXCEPT !.state = "Config", !.bits = @ \cup asks] ELSE l
  BY <1>1 DEF LdsInv, ProgramTypes
<1>7. lidars'[h] \in Entry
  BY <1>3, <1>5, <1>6 DEF Entry
<1>8. lidars' \in [Handles -> Entry] /\ \A k \in Handles \ {h} : lidars'[k] = lidars[k]
  BY <1>1, <1>6, <1>7 DEF LdsInv, ProgramTypes
<1>9. calls' \in CallsType /\ \A k \in Handles \ {h} : calls'[k] = calls[k]
  BY <1>1, IssueType, IssueOther
<1>10. Live' => Live
  BY DEF Live
<1>11. ASSUME Live' PROVE Kept(h)'
  <2>1. Kept(h)
    BY <1>10, <1>11 DEF LdsInv
  <2>2. CASE config
    <3>1. /\ lidars'[h].state = "Config" /\ lidars'[h].bits = Settings(TypeOf[h])
      BY <1>3, <1>6, <2>1, <2>2 DEF Kept, Entry
    <3>2. \A f \in Settings(TypeOf[h]) : calls'[h][f] > 0
      BY <1>1, <2>2, IssueSends
    <3>3. Settings(TypeOf[h]) # {}
      BY <1>4, Names
    <3> QED
      BY <3>1, <3>2, <3>3 DEF Kept
  <2>3. CASE ~config
    <3>1. lidars'[h] = l
      BY <1>6, <2>3
    <3>2. CASE l.state \in {"Off", "On"}
      BY <1>3, <2>1, <3>1, <3>2 DEF Kept
    <3>3. CASE l.state \notin {"Off", "On"}
      <4>1. event # "Disconnect" /\ l.state = lidars[h].state
        BY <1>3, <3>3
      <4>2. c = calls /\ sampling' = sampling
        BY <4>1
      <4>3. \A f \in Asked : calls[h][f] \in Nat /\ calls'[h][f] \in Nat /\ calls'[h][f] >= calls[h][f]
        BY <1>1, <1>9, <4>2, IssueGrows DEF CallsType, CallsOf
      <4>4. \A f \in Asked : calls[h][f] > 0 => calls'[h][f] > 0
        BY <4>3
      <4>5. lidars[h].bits \subseteq Asked
        BY <1>2 DEF Entry
      <4> QED
        BY <1>3, <2>1, <3>1, <4>1, <4>2, <4>4, <4>5, Names DEF Kept
    <3> QED
      BY <3>2, <3>3
  <2> QED
    BY <2>2, <2>3
<1>12. Live' => \A k \in Handles : Kept(k)'
  BY <1>8, <1>9, <1>10, <1>11, LdsOneDevice
<1> QED
  BY <1>1, <1>8, <1>9, <1>12 DEF LdsInv, ProgramTypes
LEMMA LdsConnectStep ==
  ASSUME LdsInv, NEW h \in Handles, OnConnect(h)
  PROVE  LdsInv'
<1>1. phase' = phase /\ sampling' = sampling
  BY DEF OnConnect, Connects
<1>2. Types'
  BY DEF LdsInv, Types, OnConnect, Connects, Links
<1>3. work[h] \in Works /\ OnDeviceChange(h, "Connect", work[h], calls) /\ calls \in CallsType
  BY DEF LdsInv, Types, ProgramTypes, OnConnect
<1> QED
  BY <1>1, <1>2, <1>3, ChangeStep

LEMMA LdsStateStep ==
  ASSUME LdsInv, NEW h \in Handles, OnStateChange(h)
  PROVE  LdsInv'
<1>1. PICK w \in Works : ChangesState(h, w) /\ OnDeviceChange(h, "StateChange", w, calls)
  BY DEF OnStateChange
<1>2. phase' = phase /\ sampling' = sampling /\ link' = link
  BY <1>1 DEF ChangesState
<1>3. left' \in Bounds
  BY <1>1, SpentType DEF LdsInv, Types, ChangesState
<1>4. Types'
  BY <1>1, <1>2, <1>3 DEF LdsInv, Types, ChangesState
<1>5. calls \in CallsType
  BY DEF LdsInv, ProgramTypes
<1> QED
  BY <1>1, <1>2, <1>4, <1>5, ChangeStep

LEMMA LdsDisconnectStep ==
  ASSUME LdsInv, NEW h \in Handles, OnDisconnect(h)
  PROVE  LdsInv'
<1>1. phase' = phase /\ sampling' = [sampling EXCEPT ![h] = FALSE]
  BY DEF OnDisconnect, Disconnects
<1>2. left' \in Bounds
  BY SpentType DEF LdsInv, Types, OnDisconnect, Disconnects
<1>3. Types'
  BY <1>1, <1>2 DEF LdsInv, Types, OnDisconnect, Disconnects, Links
<1>4. \A k \in Handles \ {h} : sampling'[k] = sampling[k]
  BY <1>1 DEF LdsInv, Types
<1>5. work[h] \in Works /\ OnDeviceChange(h, "Disconnect", work[h], Dropped(h))
  BY DEF LdsInv, Types, OnDisconnect
<1>6. Dropped(h) \in CallsType /\ \A k \in Handles \ {h} : Dropped(h)[k] = calls[k]
  BY DroppedType DEF LdsInv, ProgramTypes
<1> QED
  BY <1>1, <1>3, <1>4, <1>5, <1>6, ChangeStep

LEMMA LdsFoundStep ==
  ASSUME LdsInv, NEW h \in Handles, OnFound(h)
  PROVE  LdsInv'
<1>1. Types'
  BY DEF LdsInv, Types, OnFound, Found, Links, Works
<1> QED
  BY <1>1 DEF LdsInv, ProgramTypes, OnFound, Found, Live, Kept

(* What an answer does to the device, to the bounds and to the commands.   *)
LEMMA AnswerEffect ==
  ASSUME LdsInv, NEW h \in Handles, NEW f \in Setters \cup {"LidarStartSampling"},
         NEW outcome \in Outcomes, Answers(h, f, outcome)
  PROVE  /\ Types' /\ phase' = phase /\ f \in Asked /\ calls[h][f] > 0
         /\ \A k \in Handles \ {h} : sampling'[k] = sampling[k]
         /\ f \in Setters => sampling' = sampling
         /\ f = "LidarStartSampling" /\ outcome = "ok" => sampling'[h] = TRUE
<1>1. phase' = phase /\ calls[h][f] > 0 /\ link' = link /\ work' = work
  BY DEF Answers
<1>2. left' \in Bounds
  BY SpentType DEF LdsInv, Types, Answers, Outcomes
<1>3. sampling' \in {sampling, Executed(h, f)} /\ (outcome = "ok" => sampling' = Executed(h, f))
  BY DEF Answers, Outcomes
<1>4. CASE f = "LidarStartSampling"
  <2>1. Executed(h, f) = [sampling EXCEPT ![h] = TRUE]
    BY <1>4 DEF Executed
  <2>2. sampling' \in [Handles -> BOOLEAN] /\ \A k \in Handles \ {h} : sampling'[k] = sampling[k]
    BY <1>3, <2>1 DEF LdsInv, Types
  <2>3. outcome = "ok" => sampling'[h] = TRUE
    BY <1>3, <2>1 DEF LdsInv, Types
  <2> QED
    BY <1>1, <1>2, <1>4, <2>2, <2>3, Names DEF LdsInv, Types
<1>5. CASE f \in Setters
  <2>1. f # "LidarStartSampling" /\ f # "LidarStopSampling"
    BY <1>5, Names
  <2>2. Executed(h, f) = [sampling EXCEPT ![h] = sampling[h]]
    BY <2>1 DEF Executed
  <2>3. sampling' = sampling
    BY <1>3, <2>2 DEF LdsInv, Types
  <2> QED
    BY <1>1, <1>2, <1>5, <2>1, <2>3, Names DEF LdsInv, Types
<1> QED
  BY <1>4, <1>5

LEMMA LdsStartStep ==
  ASSUME LdsInv, NEW h \in Handles, NEW outcome \in Outcomes,
         Answers(h, "LidarStartSampling", outcome), StartSampleCb(h, outcome), whitelist' = whitelist
  PROVE  LdsInv'
<1> DEFINE f == "LidarStartSampling"
<1>1. /\ Types' /\ phase' = phase /\ f \in Asked /\ calls[h][f] > 0
      /\ \A k \in Handles \ {h} : sampling'[k] = sampling[k]
      /\ outcome = "ok" => sampling'[h] = TRUE
  BY AnswerEffect
<1>2. calls' = Settled(h, f)
  BY DEF StartSampleCb
<1>3. /\ calls' \in CallsType /\ \A g \in Asked \ {f} : calls'[h][g] = calls[h][g]
      /\ \A k \in Handles \ {h} : calls'[k] = calls[k]
  BY <1>1, <1>2, SettledType DEF LdsInv, ProgramTypes
<1>4. lidars' = IF outcome = "ok" THEN lidars ELSE [lidars EXCEPT ![h].state = "On"]
  BY DEF StartSampleCb
<1>5. lidars' \in [Handles -> Entry] /\ \A k \in Handles \ {h} : lidars'[k] = lidars[k]
  BY <1>4 DEF LdsInv, ProgramTypes, Entry
<1>6. Live' => Live
  BY <1>1 DEF Live
<1>7. ASSUME Live' PROVE Kept(h)'
  <2>1. Kept(h)
    BY <1>6, <1>7 DEF LdsInv
  <2>2. CASE outcome = "ok"
    <3>1. lidars'[h] = lidars[h]
      BY <1>4, <2>2
    <3>2. TypeOf[h] \in LidarTypes
      BY HandlesAssumption
    <3>3. lidars[h].bits \subseteq Asked \ {f}
      BY <2>1, <3>2, Names DEF Kept
    <3> QED
      BY <1>1, <1>3, <2>1, <2>2, <3>1, <3>3 DEF Kept
  <2>3. CASE outcome # "ok"
    <3>1. lidars'[h].state = "On" /\ lidars'[h].bits = lidars[h].bits
      BY <1>4, <2>3 DEF LdsInv, ProgramTypes, Entry
    <3> QED
      BY <2>1, <3>1 DEF Kept
  <2> QED
    BY <2>2, <2>3
<1>8. Live' => \A k \in Handles : Kept(k)'
  BY <1>1, <1>3, <1>5, <1>6, <1>7, LdsOneDevice
<1> QED
  BY <1>1, <1>3, <1>5, <1>8 DEF LdsInv, ProgramTypes
(* A setting whose command timed out is asked for again, and the last one  *)
(* that is acknowledged starts the device. *)
LEMMA LdsSettingStep ==
  ASSUME LdsInv, NEW h \in Handles, NEW f \in Setters, NEW outcome \in Outcomes,
         Answers(h, f, outcome), SettingCb(h, f, outcome), whitelist' = whitelist
  PROVE  LdsInv'
<1> DEFINE bits == lidars[h].bits \ {f}
<1>1. /\ Types' /\ phase' = phase /\ f \in Asked /\ calls[h][f] > 0 /\ sampling' = sampling
  BY AnswerEffect
<1>2. /\ Settled(h, f) \in CallsType
      /\ \A g \in Asked \ {f} : Settled(h, f)[h][g] = calls[h][g]
      /\ \A k \in Handles \ {h} : Settled(h, f)[k] = calls[k]
  BY <1>1, SettledType DEF LdsInv, ProgramTypes
<1>3. Live' => Live
  BY <1>1 DEF Live
<1>4. TypeOf[h] \in LidarTypes
  BY HandlesAssumption
<1>5. lidars[h] \in Entry /\ bits \subseteq Asked
  BY DEF LdsInv, ProgramTypes, Entry
<1>6. Live' => Kept(h) /\ lidars[h].bits \subseteq Setters
  BY <1>3, <1>4, Names DEF LdsInv, Kept
<1>7. CASE outcome = "timeout"
  <2>1. calls' = Issue(Settled(h, f), h, {f}) /\ lidars' = lidars
    BY <1>7 DEF SettingCb
  <2>2. calls' \in CallsType /\ \A k \in Handles \ {h} : calls'[k] = calls[k]
    BY <1>2, <2>1, IssueType, IssueOther
  <2>3. \A g \in Asked \ {f} : calls'[h][g] >= calls[h][g] /\ calls[h][g] \in Nat /\ calls'[h][g] \in Nat
    BY <1>2, <2>1, <2>2, IssueGrows DEF CallsType, CallsOf
  <2>4. \A g \in Asked \ {f} : calls[h][g] > 0 => calls'[h][g] > 0
    BY <2>3
  <2>5. f \in Settings(TypeOf[h]) => calls'[h][f] > 0
    BY <1>2, <2>1, IssueSends
  <2>6. Live' => Kept(h)'
    BY <1>1, <1>5, <1>6, <2>1, <2>4, <2>5, Names DEF Kept, Entry
  <2>7. Live' => \A k \in Handles : Kept(k)'
    BY <1>1, <1>3, <2>1, <2>2, <2>6, LdsOneDevice
  <2> QED
    BY <1>1, <2>1, <2>2, <2>7 DEF LdsInv, ProgramTypes
<1>8. CASE outcome # "timeout" /\ bits # {}
  <2>1. calls' = Settled(h, f) /\ lidars' = [lidars EXCEPT ![h].bits = bits]
    BY <1>8 DEF SettingCb, Outcomes
  <2>2. /\ lidars' \in [Handles -> Entry] /\ \A k \in Handles \ {h} : lidars'[k] = lidars[k]
        /\ lidars'[h].bits = bits /\ lidars'[h].state = lidars[h].state
    BY <1>5, <2>1 DEF LdsInv, ProgramTypes, Entry
  <2>3. "LidarStartSampling" \in Asked \ {f}
    BY Names
  <2>4. Live' => Kept(h)'
    BY <1>1, <1>2, <1>5, <1>6, <1>8, <2>1, <2>2, <2>3 DEF Kept
  <2>5. Live' => \A k \in Handles : Kept(k)'
    BY <1>1, <1>2, <1>3, <2>1, <2>2, <2>4, LdsOneDevice
  <2> QED
    BY <1>1, <1>2, <2>1, <2>2, <2>5 DEF LdsInv, ProgramTypes
<1>9. CASE outcome # "timeout" /\ bits = {}
  <2>1. /\ calls' = Issue(Settled(h, f), h, {"LidarStartSampling"})
        /\ lidars' = [lidars EXCEPT ![h].bits = {}, ![h].state = "Sampling"]
    BY <1>9 DEF SettingCb, Outcomes
  <2>2. /\ lidars' \in [Handles -> Entry] /\ \A k \in Handles \ {h} : lidars'[k] = lidars[k]
        /\ lidars'[h].bits = {} /\ lidars'[h].state = "Sampling"
    BY <1>5, <2>1 DEF LdsInv, ProgramTypes, Entry
  <2>3. calls' \in CallsType /\ \A k \in Handles \ {h} : calls'[k] = calls[k]
    BY <1>2, <2>1, IssueType, IssueOther
  <2>4. calls'[h]["LidarStartSampling"] > 0
    BY <1>2, <2>1, IssueSends
  <2>5. Live' => Kept(h)'
    BY <2>2, <2>4 DEF Kept
  <2>6. Live' => \A k \in Handles : Kept(k)'
    BY <1>1, <1>3, <2>2, <2>3, <2>5, LdsOneDevice
  <2> QED
    BY <1>1, <2>2, <2>3, <2>6 DEF LdsInv, ProgramTypes
<1> QED
  BY <1>7, <1>8, <1>9 DEF Outcomes

LEMMA LdsProgramStep ==
  ASSUME LdsInv, Program
  PROVE  LdsInv'
<1>1. CASE InitFails \/ Started \/ InitLdsLidar
  BY <1>1 DEF InitFails, Started, InitLdsLidar, LdsInv, Types, ProgramTypes, Live, Kept, Phases
<1>2. CASE DeInitLdsLidar
  <2>1. /\ phase' = "done" /\ calls' = [h \in Handles |-> NoCalls]
        /\ sampling' \in [Handles -> BOOLEAN]
        /\ UNCHANGED <<link, work, left, lidars, whitelist>>
    BY <1>2 DEF DeInitLdsLidar, Uninits
  <2>2. NoCalls \in CallsOf
    BY DEF NoCalls, CallsOf
  <2>3. calls' \in CallsType
    BY <2>1, <2>2 DEF CallsType
  <2> QED
    BY <2>1, <2>3 DEF LdsInv, Types, ProgramTypes, Live, Phases
<1> QED
  BY <1>1, <1>2 DEF Program

LEMMA LdsNextHolds ==
  ASSUME LdsInv, [Next]_ldsVars
  PROVE  LdsInv'
<1>1. CASE Program
  BY <1>1, LdsProgramStep
<1>2. ASSUME NEW h \in Handles, Event(h)
      PROVE  LdsInv'
  <2>1. CASE OnAnswer(h)
    <3>1. PICK f \in Setters \cup {"LidarStartSampling"}, outcome \in Outcomes :
            /\ Answers(h, f, outcome)
            /\ IF f = "LidarStartSampling" THEN StartSampleCb(h, outcome) ELSE SettingCb(h, f, outcome)
            /\ UNCHANGED whitelist
      BY <2>1 DEF OnAnswer
    <3>2. CASE f = "LidarStartSampling"
      BY <3>1, <3>2, LdsStartStep
    <3>3. CASE f # "LidarStartSampling"
      BY <3>1, <3>3, LdsSettingStep
    <3> QED
      BY <3>2, <3>3
  <2> QED
    BY <1>2, <2>1, LdsBroadcastStep, LdsFoundStep, LdsConnectStep, LdsStateStep, LdsDisconnectStep DEF Event
<1>3. CASE UNCHANGED ldsVars
  BY <1>3 DEF ldsVars, sdkVars, LdsInv, Types, ProgramTypes, Live, Kept
<1> QED
  BY <1>1, <1>2, <1>3 DEF Next

(* LdsLidar: the variables of the data source and of the SDK keep their    *)
(* types.                                                                  *)
THEOREM TypeCorrect == Spec => []TypeOK
<1>1. LdsInv => TypeOK
  BY TypeParts DEF LdsInv
<1> QED
  BY <1>1, LdsInitHolds, LdsNextHolds, PTL DEF Spec

-----------------------------------------------------------------------------
(* Synchro.  The sentences missed are in the buffer, behind a head that    *)
(* was never completed; when the buffer is full it is cleared, one more    *)
(* sentence may have lost its beginning, and the next is delivered.        *)

Sentence == Sync!SentenceLen
Fit == (BufLen - Sync!HeadLen) \div Sentence

\* The head that is held is that of the sentence that arrives.
OwnHead ==
  /\ intact
  /\ \/ due = "body" /\ held = "head" /\ len = Sync!HeadLen
     \/ due = "check" /\ held = "sentence" /\ len = Sync!HeadLen + BodyLen

\* What the sentence that arrives has added to the buffer.
Begun ==
  IF ~intact \/ due = "head" THEN 0
  ELSE IF due = "body" THEN Sync!HeadLen ELSE Sync!HeadLen + BodyLen

Behind == missed * Sentence + Sync!HeadLen + Begun <= len

SyncInv ==
  /\ due \in Sync!Groups /\ intact \in BOOLEAN
  /\ missed \in Nat /\ len \in Nat /\ len <= BufLen
  /\ ~intact => missed = 0
  /\ held = "nothing" => len = 0 /\ missed <= Fit + (IF due = "head" THEN 1 ELSE 0)
  /\ held # "nothing" => (OwnHead /\ missed <= Fit + 1) \/ Behind

LEMMA Lengths ==
  /\ Sync!HeadLen = 6 /\ Sentence \in Nat /\ Sentence = BodyLen + 9 /\ Sentence <= BufLen
  /\ BodyLen \in Nat \ {0} /\ BufLen \in Nat
BY SynchroAssumption DEF Sentence, Sync!SentenceLen, Sync!HeadLen

\* The sentences behind a head are no more than fit into the buffer.
LEMMA FitBounds ==
  ASSUME NEW k \in Nat, NEW n \in Nat, k * Sentence + 6 <= n, n <= BufLen
  PROVE  k <= Fit
<1>1. Fit \in Nat /\ BufLen - 6 < (Fit + 1) * Sentence
  BY Lengths DEF Fit
<1>2. ASSUME k >= Fit + 1 PROVE FALSE
  <2>1. k * Sentence >= (Fit + 1) * Sentence
    BY <1>1, <1>2, Lengths
  <2> QED
    BY <1>1, <2>1, Lengths
<1> QED
  BY <1>1, <1>2

LEMMA FitType == Fit \in Nat
BY Lengths DEF Fit

LEMMA Products ==
  ASSUME NEW k \in Nat
  PROVE  /\ k * Sentence \in Nat /\ (k + 1) * Sentence = k * Sentence + Sentence
         /\ 0 * Sentence = 0
BY Lengths

\* A group that is not the end of a sentence that is delivered joins what is
\* held, or finds the buffer full.
LEMMA Joins ==
  ASSUME SyncInv, held # "nothing", NEW group, NEW n \in Nat,
         ~Sync!Delivers(group, n), Sync!Decode(group, n)
  PROVE  \/ len + n > BufLen /\ held' = "nothing" /\ len' = 0
         \/ len + n <= BufLen /\ held' = Sync!Holding(group, n) /\ held' # "nothing"
            /\ len' = len + n
<1>1. Sync!Holding(group, n) # "nothing"
  <2>1. CASE held = "head" /\ group = "body" /\ n # 0
    BY <2>1 DEF Sync!Holding
  <2>2. CASE held = "head" /\ ~(group = "body") /\ n = 0
    BY <2>2 DEF Sync!Holding
  <2>3. CASE held = "head" /\ group = "body" /\ n = 0
    BY <2>3 DEF Sync!Holding
  <2>4. CASE ~(held = "head") \/ (~(group = "body") /\ ~(n = 0))
    BY <2>4 DEF Sync!Holding
  <2> QED
    BY <2>1, <2>2, <2>3, <2>4
<1>2. len + n > BufLen \/ len + n <= BufLen
  BY Lengths DEF SyncInv
<1>3. /\ len + n > BufLen => held' = "nothing" /\ len' = 0
      /\ ~(len + n > BufLen) => held' = Sync!Holding(group, n) /\ len' = len + n
  BY DEF Sync!Decode, Sync!ParseGps, Sync!Clear
<1> QED
  BY <1>1, <1>2, <1>3, Lengths DEF SyncInv

LEMMA ArrivesStep ==
  ASSUME SyncInv, Sync!Arrives
  PROVE  SyncInv'
<1> DEFINE n == Sync!GroupLen[due]
<1>1. /\ due \in {"head", "body", "check"} /\ intact \in BOOLEAN /\ missed \in Nat /\ len \in Nat
      /\ len <= BufLen /\ n \in Nat
      /\ n = IF due = "head" THEN 6 ELSE IF due = "body" THEN BodyLen ELSE 3
  BY Lengths DEF SyncInv, Sync!Groups, Sync!GroupLen
<1>2. /\ due' = IF due = "head" THEN "body" ELSE IF due = "body" THEN "check" ELSE "head"
      /\ intact' = (due = "head" \/ intact)
      /\ missed' = IF Sync!Delivers(due, n) THEN 0
                   ELSE IF due = "check" /\ intact THEN missed + 1 ELSE missed
      /\ Sync!Decode(due, n)
  BY <1>1 DEF Sync!Arrives, Sync!Following
<1>3. due' \in Sync!Groups /\ intact' \in BOOLEAN /\ missed' \in Nat /\ (~intact' => missed' = 0)
  BY <1>1, <1>2 DEF SyncInv, Sync!Groups
<1> HIDE DEF n
<1>join. ASSUME held # "nothing", ~Sync!Delivers(due, n)
      PROVE  \/ len + n > BufLen /\ held' = "nothing" /\ len' = 0
             \/ len + n <= BufLen /\ held' = Sync!Holding(due, n) /\ held' # "nothing"
                /\ len' = len + n
  <2>1. PICK g, k : g = due /\ k = n
    OBVIOUS
  <2>2. /\ ~Sync!Delivers(g, k) /\ k \in Nat
    BY <1>1, <1>join, <2>1
  <2>3. Sync!Decode(g, k)
    BY <1>2, <2>1 DEF Sync!Decode, Sync!Delivers, Sync!ParseGps, Sync!Clear, Sync!Holding
  <2> QED
    BY <1>join, <2>1, <2>2, <2>3, Joins
<1>4. CASE Sync!Delivers(due, n)
  <2>1. held' = "nothing" /\ len' = 0 /\ missed' = 0
    BY <1>2, <1>4 DEF Sync!Decode, Sync!Clear
  <2> QED
    BY <1>3, <2>1, Lengths, FitType DEF SyncInv
<1>5. CASE held = "nothing"
  <2>1. /\ ~Sync!Delivers(due, n) /\ len = 0
        /\ missed <= Fit + (IF due = "head" THEN 1 ELSE 0)
    BY <1>5 DEF Sync!Delivers, SyncInv
  <2>2. CASE due = "head"
    <3>1. held' = "head" /\ len' = 6 /\ missed' = missed /\ due' = "body" /\ intact'
      BY <1>1, <1>2, <1>5, <2>1, <2>2 DEF Sync!Decode, Sync!ParseGps
    <3> QED
      BY <1>3, <2>1, <2>2, <3>1, Lengths DEF SyncInv, OwnHead
  <2>3. CASE due # "head"
    <3>1. held' = "nothing" /\ len' = 0
      BY <1>2, <1>5, <2>1, <2>3 DEF Sync!Decode, Sync!ParseGps
    <3>2. missed' <= Fit + (IF due' = "head" THEN 1 ELSE 0)
      BY <1>1, <1>2, <2>1, <2>3, FitType
    <3> QED
      BY <1>3, <3>1, <3>2, Lengths DEF SyncInv
  <2> QED
    BY <2>2, <2>3
<1>6. CASE held # "nothing" /\ ~Sync!Delivers(due, n) /\ OwnHead /\ missed <= Fit + 1
  <2>1. due = "body" /\ held = "head" /\ len = 6
    BY <1>1, <1>6, Lengths DEF OwnHead, Sync!Delivers
  <2>2. len + n <= BufLen /\ Sync!Holding(due, n) = "sentence"
    BY <1>1, <2>1, Lengths DEF Sync!Holding
  <2>3. held' = "sentence" /\ len' = 6 + BodyLen /\ missed' = missed /\ due' = "check" /\ intact'
    <3>1. held' = "sentence" /\ len' = len + n
      BY <1>1, <1>6, <2>1, <2>2, <1>join, Lengths
    <3> QED
      BY <1>1, <1>2, <1>6, <2>1, <3>1 DEF OwnHead
  <2> QED
    BY <1>3, <1>6, <2>3, Lengths DEF SyncInv, OwnHead
<1>7. CASE held # "nothing" /\ ~Sync!Delivers(due, n) /\ Behind
  <2>1. /\ missed * Sentence \in Nat /\ Begun \in Nat
        /\ (missed + 1) * Sentence = missed * Sentence + Sentence
    BY <1>1, Products, Lengths DEF Begun
  <2>2. missed <= Fit
    BY <1>1, <1>7, <2>1, FitBounds, Lengths DEF Behind
  <2>3. CASE len + n > BufLen
    <3>1. held' = "nothing" /\ len' = 0
      BY <1>1, <1>7, <2>3, <1>join, Lengths
    <3>2. missed' <= Fit + (IF due' = "head" THEN 1 ELSE 0)
      BY <1>1, <1>2, <1>7, <2>2, FitType
    <3> QED
      BY <1>3, <3>1, <3>2, Lengths DEF SyncInv
  <2>4. CASE len + n <= BufLen
    <3>1. held' # "nothing" /\ len' = len + n
      BY <1>1, <1>7, <2>4, <1>join, Lengths
    <3>2. missed' = IF due = "check" /\ intact THEN missed + 1 ELSE missed
      BY <1>2, <1>7
    <3>3. missed' * Sentence + 6 + Begun' <= len + n
      BY <1>1, <1>2, <1>7, <2>1, <3>2, Lengths DEF Behind, Begun
    <3>4. Behind' /\ len' \in Nat /\ len' <= BufLen
      BY <1>1, <2>4, <3>1, <3>3, Lengths DEF Behind
    <3> QED
      BY <1>3, <3>1, <3>4 DEF SyncInv
  <2> QED
    BY <1>1, <2>3, <2>4, Lengths
<1> QED
  BY <1>4, <1>5, <1>6, <1>7 DEF SyncInv

\* Noise, and a group that is damaged, find no head.
LEMMA NoiseDecodes ==
  ASSUME SyncInv, NEW n \in Nat, Sync!Decode("noise", n)
  PROVE  \/ held' = "nothing" /\ len' = 0
         \/ held # "nothing" /\ held' # "nothing" /\ len' = len + n /\ len + n <= BufLen
<1>1. ~Sync!Delivers("noise", n)
  BY DEF Sync!Delivers
<1>2. CASE held = "nothing"
  BY <1>1, <1>2 DEF Sync!Decode, Sync!ParseGps, SyncInv
<1> QED
  BY <1>1, <1>2, Joins

LEMMA DamagedStep ==
  ASSUME SyncInv, Sync!Damaged
  PROVE  SyncInv'
<1>1. due' \in Sync!Groups /\ intact' \in BOOLEAN /\ ~intact' /\ missed' = 0
  <2>1. due' \in Sync!Groups /\ missed' = 0
    BY DEF SyncInv, Sync!Damaged, Sync!Groups, Sync!Following
  <2>2. intact' = FALSE
    BY DEF Sync!Damaged
  <2> QED
    BY <2>1, <2>2
<1>2. PICK n \in Nat : Sync!Decode("noise", n)
  BY SynchroAssumption DEF Sync!Damaged
<1>3. CASE held' = "nothing" /\ len' = 0
  BY <1>1, <1>3, Lengths, FitType DEF SyncInv
<1>4. CASE held # "nothing" /\ held' # "nothing" /\ len' = len + n /\ len + n <= BufLen
  <2>1. len \in Nat /\ 6 <= len
    BY <1>4, Lengths, Products DEF SyncInv, OwnHead, Behind, Begun
  <2>2. Behind'
    BY <1>1, <1>4, <2>1, Lengths, Products DEF Behind, Begun
  <2> QED
    BY <1>1, <1>4, <2>1, <2>2 DEF SyncInv
<1> QED
  BY <1>2, <1>3, <1>4, NoiseDecodes

LEMMA NoiseStep ==
  ASSUME SyncInv, Sync!Noise
  PROVE  SyncInv'
<1>1. due = "head" /\ UNCHANGED <<due, intact, missed>>
  BY DEF Sync!Noise
<1>2. PICK n \in Nat : Sync!Decode("noise", n)
  BY SynchroAssumption DEF Sync!Noise
<1>3. missed * Sentence \in Nat /\ missed \in Nat /\ len \in Nat /\ len <= BufLen
  BY Products DEF SyncInv
<1>4. held # "nothing" => Behind
  BY <1>1 DEF SyncInv, OwnHead
<1>5. CASE held' = "nothing" /\ len' = 0
  <2>1. missed <= Fit + 1
    BY <1>1, <1>3, <1>4, FitBounds, FitType, Lengths DEF SyncInv, Behind, Begun
  <2> QED
    BY <1>1, <1>5, <2>1, Lengths DEF SyncInv
<1>6. CASE held # "nothing" /\ held' # "nothing" /\ len' = len + n /\ len + n <= BufLen
  <2>1. Behind'
    BY <1>1, <1>3, <1>4, <1>6, Lengths DEF Behind, Begun
  <2> QED
    BY <1>1, <1>3, <1>6, <2>1 DEF SyncInv
<1> QED
  BY <1>2, <1>5, <1>6, NoiseDecodes

LEMMA SynchroSteps == SyncInv /\ Sync!Next => SyncInv'
<1>1. ASSUME SyncInv, UNCHANGED <<held, len, due, intact, missed>> PROVE SyncInv'
  BY <1>1 DEF SyncInv, OwnHead, Behind, Begun
<1> QED
  BY <1>1, ArrivesStep, DamagedStep, NoiseStep
  DEF Sync!Next, Sync!Start, Sync!Quit, Sync!Ends, Sync!Close

LEMMA SynchroInit == Sync!Init => SyncInv
<1> SUFFICES ASSUME Sync!Init PROVE SyncInv
  OBVIOUS
<1>1. intact \in BOOLEAN /\ ~intact
  BY DEF Sync!Init
<1> QED
  BY <1>1, Lengths, FitType DEF Sync!Init, SyncInv

LEMMA SynchroBound == SyncInv => Sync!LossBounded
<1>1. ASSUME SyncInv, held # "nothing", Behind PROVE missed <= Fit + 1
  <2>1. missed * Sentence \in Nat /\ Begun \in Nat /\ missed \in Nat /\ len \in Nat
    BY <1>1, Products, Lengths DEF SyncInv, Begun
  <2> QED
    BY <1>1, <2>1, FitBounds, FitType, Lengths DEF SyncInv, Behind
<1> QED
  BY <1>1, FitType DEF SyncInv, Sync!LossBounded, Fit, Sentence
-----------------------------------------------------------------------------
(* UtcSync.  Without a late broadcast the program's copies say what the    *)
(* SDK's table says of every device that is connected, and that no other   *)
(* is; and the listener only runs while the program does.                  *)

UtcTypes ==
  /\ phase \in Phases /\ link \in [Handles -> Links] /\ work \in [Handles -> Works]
  /\ left \in Bounds /\ lidars \in [Handles -> [state : {"Off", "On"}, work : Works]]

\* The copy of a device is true.
Mirrors(h) ==
  /\ lidars[h].state = "On" <=> link[h] = "connected"
  /\ link[h] = "connected" => lidars[h].work = work[h]

UtcInv ==
  /\ UtcTypes
  /\ listener # "off" => phase = "running"
  /\ phase \in {"off", "done"} => calls = [h \in Handles |-> NoCalls]
  /\ left.faults = MaxFaults => \A h \in Handles : Mirrors(h)

LEMMA UtcInit == Utc!Init => UtcInv
<1> SUFFICES ASSUME Utc!Init PROVE UtcInv
  OBVIOUS
<1>1. phase = "off" /\ listener = "off" /\ calls = [h \in Handles |-> NoCalls]
  BY DEF Utc!Init, Utc!SdkInit, Utc!NoCalls, Utc!Asked, NoCalls, Asked
<1>2. link = [h \in Handles |-> "unknown"] /\ work = [h \in Handles |-> "Init"]
      /\ left = [events |-> MaxEvents, faults |-> MaxFaults]
  BY DEF Utc!Init, Utc!SdkInit
<1>3. lidars = [h \in Handles |-> [state |-> "Off", work |-> "Init"]]
  BY DEF Utc!Init
<1>4. left \in Bounds
  BY <1>2, BoundsAssumption DEF Bounds
<1>5. link \in [Handles -> Links] /\ work \in [Handles -> Works]
  BY <1>2 DEF Links, Works
<1>6. lidars \in [Handles -> [state : {"Off", "On"}, work : Works]]
  BY <1>3 DEF Works
<1>7. \A h \in Handles : Mirrors(h)
  BY <1>2, <1>3 DEF Mirrors
<1> QED
  BY <1>1, <1>4, <1>5, <1>6, <1>7 DEF UtcInv, UtcTypes, Phases

\* A step that leaves the devices alone.
LEMMA UtcProgram ==
  ASSUME UtcInv, Utc!Program \/ Utc!SetRmcSyncTime
  PROVE  UtcInv'
<1>1. UNCHANGED <<link, work, left, lidars>>
  BY DEF Utc!Program, Utc!SetRmcSyncTime, Utc!InitFails, Utc!Started, Utc!InitLdsLidar,
     Utc!SynchroStarts, Utc!SynchroFails, Utc!SynchroStops, Utc!SynchroJoined,
     Utc!DeInitLdsLidar, Utc!SdkIdle, Utc!Stays, Utc!Uninits, Utc!sdkVars
<1>2. phase' \in Phases
  BY DEF UtcInv, UtcTypes, Phases, Utc!Program, Utc!SetRmcSyncTime, Utc!InitFails, Utc!Started,
     Utc!InitLdsLidar, Utc!SynchroStarts, Utc!SynchroFails, Utc!SynchroStops, Utc!SynchroJoined,
     Utc!DeInitLdsLidar, Utc!SdkIdle, Utc!Stays, Utc!Uninits, Utc!sdkVars
<1>3. listener' # "off" => phase' = "running"
  BY DEF UtcInv, Utc!Program, Utc!SetRmcSyncTime, Utc!InitFails, Utc!Started,
     Utc!InitLdsLidar, Utc!SynchroStarts, Utc!SynchroFails, Utc!SynchroStops, Utc!SynchroJoined,
     Utc!DeInitLdsLidar, Utc!sdkVars
<1>4. ASSUME phase' \in {"off", "done"} PROVE calls' = [h \in Handles |-> NoCalls]
  <2>1. Utc!NoCalls = NoCalls
    BY DEF Utc!NoCalls, Utc!Asked, NoCalls, Asked
  <2>2. CASE Utc!InitFails
    BY <2>2 DEF UtcInv, Utc!InitFails, Utc!SdkIdle
  <2>3. CASE Utc!SynchroFails \/ Utc!DeInitLdsLidar
    BY <2>1, <2>3 DEF Utc!SynchroFails, Utc!DeInitLdsLidar, Utc!Uninits
  <2>4. ~(Utc!Started \/ Utc!InitLdsLidar \/ Utc!SynchroStarts \/ Utc!SynchroStops
            \/ Utc!SynchroJoined)
    BY <1>4 DEF Utc!Started, Utc!InitLdsLidar, Utc!SynchroStarts, Utc!SynchroStops,
       Utc!SynchroJoined, Utc!sdkVars
  <2>5. ~Utc!SetRmcSyncTime
    BY <1>4 DEF UtcInv, Utc!SetRmcSyncTime
  <2> QED
    BY <2>2, <2>3, <2>4, <2>5 DEF Utc!Program
<1> QED
  BY <1>1, <1>2, <1>3, <1>4 DEF UtcInv, UtcTypes, Mirrors

\* A step of device h: what it has to leave and to establish.
LEMMA UtcOneDevice ==
  ASSUME UtcInv, NEW h \in Handles, Utc!Up, UtcTypes', listener' = listener,
         phase' \in {phase, "crashed"}, phase' = "crashed" => phase = "starting",
         left'.faults = MaxFaults => left.faults = MaxFaults,
         \A k \in Handles \ {h} :
           lidars'[k] = lidars[k] /\ link'[k] = link[k] /\ work'[k] = work[k],
         left'.faults = MaxFaults /\ Mirrors(h) => Mirrors(h)'
  PROVE  UtcInv'
<1>1. phase' \notin {"off", "done"} /\ (listener' # "off" => phase' = "running")
  BY DEF UtcInv, Utc!Up
<1>2. ASSUME left'.faults = MaxFaults, NEW k \in Handles PROVE Mirrors(k)'
  BY <1>2 DEF UtcInv, Mirrors
<1> QED
  BY <1>1, <1>2 DEF UtcInv

LEMMA UtcBroadcast ==
  ASSUME UtcInv, NEW h \in Handles, Utc!OnDeviceBroadcast(h)
  PROVE  UtcInv'
<1>1. Utc!Up /\ work' = work /\ listener' = listener
  BY DEF Utc!OnDeviceBroadcast, Utc!Broadcasts
<1>2. \/ link[h] \in {"unknown", "listed"} /\ left' = left
      \/ left.faults > 0 /\ left' = Spent("faults")
  BY DEF Utc!OnDeviceBroadcast, Utc!Broadcasts, Utc!Spent, Spent
<1>3. left' \in Bounds /\ (left'.faults = MaxFaults =>
        left.faults = MaxFaults /\ link[h] \in {"unknown", "listed"})
  <2>1. left \in Bounds
    BY DEF UtcInv, UtcTypes
  <2>2. CASE left.faults > 0 /\ left' = Spent("faults")
    <3>1. left' \in Bounds
      BY <2>1, <2>2, SpentType
    <3>2. left'.faults = left.faults - 1 /\ left.faults \in 0..MaxFaults
      BY <2>1, <2>2 DEF Spent, Bounds
    <3> QED
      BY <3>1, <3>2, BoundsAssumption
  <2> QED
    BY <1>2, <2>1, <2>2
<1>4. phase' \in {phase, "crashed"} /\ (phase' = "crashed" /\ phase' # phase => phase = "starting")
  BY DEF Utc!OnDeviceBroadcast
<1>5. \/ link' = link /\ lidars' = lidars
      \/ /\ link' = [link EXCEPT ![h] = IF link[h] = "unknown" THEN "listed" ELSE link[h]]
         /\ lidars' = [lidars EXCEPT ![h].state = "Off"]
  BY DEF Utc!OnDeviceBroadcast, Utc!Listed
<1>6. UtcTypes'
  BY <1>1, <1>3, <1>4, <1>5 DEF UtcInv, UtcTypes, Phases, Links
<1>7. \A k \in Handles \ {h} :
        lidars'[k] = lidars[k] /\ link'[k] = link[k] /\ work'[k] = work[k]
  BY <1>1, <1>5 DEF UtcInv, UtcTypes
<1>8. left'.faults = MaxFaults /\ Mirrors(h) => Mirrors(h)'
  <2> SUFFICES ASSUME left'.faults = MaxFaults, Mirrors(h) PROVE Mirrors(h)'
    OBVIOUS
  <2>1. link[h] \in {"unknown", "listed"} /\ lidars[h].state = "Off"
    BY <1>3 DEF Mirrors, UtcInv, UtcTypes
  <2>2. link'[h] # "connected" /\ lidars'[h].state = "Off"
    BY <1>5, <2>1 DEF UtcInv, UtcTypes
  <2> QED
    BY <2>2 DEF Mirrors
<1>9. phase' = "crashed" => phase = "starting"
  BY <1>1, <1>4 DEF Utc!Up
<1> QED
  BY <1>1, <1>3, <1>4, <1>6, <1>7, <1>8, <1>9, UtcOneDevice

\* The other steps of a device, by what they do to its link and its copy.
LEMMA UtcEvent ==
  ASSUME UtcInv, NEW h \in Handles,
         \/ Utc!OnFound(h) \/ Utc!OnConnect(h) \/ Utc!OnStateChange(h)
         \/ Utc!OnDisconnect(h) \/ Utc!LidarSetRmcSyncTimeCb(h)
  PROVE  UtcInv'
<1> DEFINE Rest == \A k \in Handles \ {h} :
                     lidars'[k] = lidars[k] /\ link'[k] = link[k] /\ work'[k] = work[k]
           Frame == /\ Utc!Up /\ listener' = listener /\ phase' = phase
                    /\ left' \in Bounds /\ (left'.faults = MaxFaults => left.faults = MaxFaults)
<1>1. ASSUME Frame, Rest, UtcTypes', Mirrors(h) => Mirrors(h)' PROVE UtcInv'
  <2>1. phase' = "crashed" => phase = "starting"
    BY <1>1 DEF Utc!Up
  <2> QED
    BY <1>1, <2>1, UtcOneDevice
<1>2. ASSUME NEW b \in {"events", "faults"}, left[b] > 0, left' = Spent(b)
      PROVE  left' \in Bounds /\ (left'.faults = MaxFaults => left.faults = MaxFaults)
  <2>1. left \in Bounds /\ left' \in Bounds
    BY <1>2, SpentType DEF UtcInv, UtcTypes
  <2>2. left'.faults = left.faults \/ left'.faults = left.faults - 1
    BY <1>2, <2>1 DEF Spent, Bounds
  <2> QED
    BY <2>1, <2>2, BoundsAssumption DEF Bounds
<1>3. CASE Utc!OnFound(h)
  <2>1. /\ link[h] = "listed" /\ link' = [link EXCEPT ![h] = "found"]
        /\ work' = [work EXCEPT ![h] = "Init"] /\ lidars' = lidars
    BY <1>3 DEF Utc!OnFound, Utc!Found, Utc!Stays
  <2>2. Frame
    BY <1>3 DEF Utc!OnFound, Utc!Found, UtcInv, UtcTypes
  <2>3. Rest /\ UtcTypes'
    BY <2>1, <2>2 DEF UtcInv, UtcTypes, Links, Works
  <2>4. Mirrors(h) => Mirrors(h)'
    BY <2>1 DEF Mirrors, UtcInv, UtcTypes
  <2> QED
    BY <1>1, <2>2, <2>3, <2>4
<1>4. CASE Utc!OnConnect(h)
  <2>1. /\ link[h] = "found" /\ link' = [link EXCEPT ![h] = "connected"] /\ work' = work
        /\ lidars' = [lidars EXCEPT ![h] =
             IF lidars[h].state = "Off" THEN [state |-> "On", work |-> work[h]] ELSE lidars[h]]
    BY <1>4 DEF Utc!OnConnect, Utc!Connects, Utc!OnDeviceChange
  <2>2. Frame
    BY <1>4 DEF Utc!OnConnect, Utc!Connects, Utc!OnDeviceChange, UtcInv, UtcTypes
  <2>3. Rest /\ UtcTypes'
    BY <2>1, <2>2 DEF UtcInv, UtcTypes, Links
  <2>4. Mirrors(h) => Mirrors(h)'
    BY <2>1 DEF Mirrors, UtcInv, UtcTypes
  <2> QED
    BY <1>1, <2>2, <2>3, <2>4
<1>5. CASE Utc!OnStateChange(h)
  <2>1. PICK w \in Works : Utc!ChangesState(h, w) /\ Utc!OnDeviceChange(h, "StateChange", w)
    BY <1>5 DEF Utc!OnStateChange, Utc!Works, Works
  <2>2. /\ link' = link /\ work' = [work EXCEPT ![h] = w]
        /\ lidars' = [lidars EXCEPT ![h].work = w]
    BY <2>1 DEF Utc!ChangesState, Utc!OnDeviceChange
  <2>3. left' = left \/ (left.events > 0 /\ left' = Spent("events"))
    BY <2>1 DEF Utc!ChangesState, Utc!Spent, Spent
  <2>4. Frame
    BY <1>2, <2>1, <2>3 DEF Utc!ChangesState, Utc!OnDeviceChange, UtcInv, UtcTypes
  <2>5. Rest /\ UtcTypes'
    BY <2>2, <2>4 DEF UtcInv, UtcTypes
  <2>6. Mirrors(h) => Mirrors(h)'
    BY <2>2 DEF Mirrors, UtcInv, UtcTypes
  <2> QED
    BY <1>1, <2>4, <2>5, <2>6
<1>6. CASE Utc!OnDisconnect(h)
  <2>1. /\ link' = [link EXCEPT ![h] = "listed"] /\ work' = work
        /\ lidars' = [lidars EXCEPT ![h] = [lidars[h] EXCEPT !.state = "Off"]]
    BY <1>6 DEF Utc!OnDisconnect, Utc!Disconnects, Utc!OnDeviceChange
  <2>2. left.events > 0 /\ left' = Spent("events")
    BY <1>6 DEF Utc!OnDisconnect, Utc!Disconnects, Utc!Spent, Spent
  <2>3. Frame
    BY <1>2, <1>6, <2>2 DEF Utc!OnDisconnect, Utc!Disconnects, Utc!OnDeviceChange
  <2>4. Rest /\ UtcTypes'
    BY <2>1, <2>3 DEF UtcInv, UtcTypes, Links
  <2>5. Mirrors(h) => Mirrors(h)'
    BY <2>1 DEF Mirrors, UtcInv, UtcTypes
  <2> QED
    BY <1>1, <2>3, <2>4, <2>5
<1>7. CASE Utc!LidarSetRmcSyncTimeCb(h)
  <2>1. link' = link /\ work' = work /\ lidars' = lidars /\ listener' = listener
    BY <1>7 DEF Utc!LidarSetRmcSyncTimeCb, Utc!Answers, Utc!Stays
  <2>2. left' = left \/ (left.faults > 0 /\ left' = Spent("faults"))
    BY <1>7 DEF Utc!LidarSetRmcSyncTimeCb, Utc!Answers, Utc!Spent, Spent
  <2>3. Frame
    BY <1>2, <1>7, <2>1, <2>2 DEF Utc!LidarSetRmcSyncTimeCb, Utc!Answers, UtcInv, UtcTypes
  <2>4. Rest /\ UtcTypes'
    BY <2>1, <2>3 DEF UtcInv, UtcTypes
  <2>5. Mirrors(h) => Mirrors(h)'
    BY <2>1 DEF Mirrors
  <2> QED
    BY <1>1, <2>3, <2>4, <2>5
<1> QED
  BY <1>3, <1>4, <1>5, <1>6, <1>7

LEMMA UtcSteps == UtcInv /\ Utc!Next => UtcInv'
BY UtcProgram, UtcBroadcast, UtcEvent DEF Utc!Next, Utc!Event

LEMMA UtcPromise == UtcInv => Utc!TimeReachesAll
<1> SUFFICES ASSUME UtcInv PROVE Utc!TimeReachesAll
  OBVIOUS
<1>1. ASSUME left.faults = MaxFaults, NEW h \in Handles
      PROVE  (lidars[h].state # "Off" /\ lidars[h].work = "Normal") <=> Utc!Ready(h)
  BY <1>1 DEF UtcInv, UtcTypes, Mirrors, Utc!Ready
<1>2. left.faults = MaxFaults => Utc!Told = {h \in Handles : Utc!Ready(h)}
  BY <1>1 DEF Utc!Told
<1>3. Utc!NoCalls = NoCalls
  BY DEF Utc!NoCalls, Utc!Asked, NoCalls, Asked
<1>4. phase = "done" => calls = [h \in Handles |-> Utc!NoCalls]
  BY <1>3 DEF UtcInv
<1> QED
  BY <1>2, <1>4 DEF Utc!TimeReachesAll

-----------------------------------------------------------------------------
(* LidarSample.  As long as the program runs nobody is told to stop, and a *)
(* device in sampling state samples or was told to start.                  *)

LEMMA SampleStartFunction ==
  Sample!Functions["LidarStartSampling"] =
    Sample!Sends("General", "ControlSample", {"Lidar"}, Sample!DeviceTypes, FALSE)
<1> DEFINE f == "LidarStartSampling"
<1>1. f \in DOMAIN Sample!SamplingFunctions
  BY DEF Sample!SamplingFunctions
<1>2. Sample!SamplingFunctions[f] =
        Sample!Sends("General", "ControlSample", {"Lidar"}, Sample!DeviceTypes, FALSE)
  BY DEF Sample!SamplingFunctions
<1>3. f \notin DOMAIN Sample!DeviceFunctions /\ f \notin DOMAIN Sample!ParameterFunctions
  BY DEF Sample!DeviceFunctions, Sample!ParameterFunctions
<1>4. f \notin DOMAIN Sample!LidarFunctions /\ f \notin DOMAIN Sample!HubFunctions
  BY DEF Sample!LidarFunctions, Sample!HubFunctions
<1>5. f \notin DOMAIN Sample!HubUnitFunctions /\ f \notin DOMAIN Sample!SyncFunctions
  BY DEF Sample!HubUnitFunctions, Sample!SyncFunctions
<1> HIDE DEF f
<1>6. /\ \A k \in Sample!FunctionGroups : f \in DOMAIN k => k = Sample!SamplingFunctions
      /\ Sample!SamplingFunctions \in Sample!FunctionGroups
  BY <1>3, <1>4, <1>5 DEF Sample!FunctionGroups
<1>7. Sample!Functions[f] = Sample!SamplingFunctions[f]
  BY <1>1, <1>6 DEF Sample!Functions
<1> QED
  BY <1>2, <1>7 DEF f

LEMMA SampleStartAccepted ==
  ASSUME NEW h \in Handles
  PROVE  Sample!Accepts("LidarStartSampling", "Lidar", TypeOf[h], TRUE)
<1>1. TypeOf[h] \in Sample!DeviceTypes
  BY HandlesAssumption DEF LidarTypes, Sample!DeviceTypes, Sample!LidarTypes
<1> QED
  BY <1>1, SampleStartFunction DEF Sample!Accepts, Sample!Sends

SampleTypes ==
  /\ phase \in Phases /\ link \in [Handles -> Links] /\ work \in [Handles -> Works]
  /\ sampling \in [Handles -> BOOLEAN] /\ calls \in CallsType
  /\ devices \in [Handles -> [state : {"Disconnect", "Connect", "Sampling"}, work : Works]]

\* Nobody told h to stop, and its state is true.
Minds(h) ==
  /\ calls[h]["LidarStopSampling"] = 0
  /\ devices[h].state = "Sampling" => sampling[h] \/ calls[h]["LidarStartSampling"] > 0

SampleInv == SampleTypes /\ (phase \in {"off", "running"} => \A h \in Handles : Minds(h))

LEMMA SampleInit == Sample!Init => SampleInv
<1> SUFFICES ASSUME Sample!Init PROVE SampleInv
  OBVIOUS
<1>1. /\ phase = "off" /\ calls = [h \in Handles |-> [f \in Asked |-> 0]]
      /\ link = [h \in Handles |-> "unknown"] /\ work = [h \in Handles |-> "Init"]
      /\ sampling = [h \in Handles |-> FALSE]
      /\ devices = [h \in Handles |-> [state |-> "Disconnect", work |-> "Init"]]
  BY DEF Sample!Init, Sample!SdkInit, Sample!NoCalls, Sample!Asked, Asked
<1>2. [f \in Asked |-> 0] \in CallsOf
  BY DEF CallsOf
<1>3. calls \in CallsType
  BY <1>1, <1>2 DEF CallsType
<1>4. SampleTypes
  BY <1>1, <1>3 DEF SampleTypes, Phases, Links, Works
<1>5. ASSUME NEW h \in Handles PROVE Minds(h)
  BY <1>1 DEF Minds, Asked
<1> QED
  BY <1>4, <1>5 DEF SampleInv

\* A step of device h.
LEMMA SampleOneDevice ==
  ASSUME SampleInv, NEW h \in Handles, SampleTypes', phase' = phase,
         \A k \in Handles \ {h} :
           devices'[k] = devices[k] /\ calls'[k] = calls[k] /\ sampling'[k] = sampling[k],
         phase = "running" /\ Minds(h) => Minds(h)',
         phase # "off"
  PROVE  SampleInv'
BY DEF SampleInv, Minds

\* What issuing a start, or nothing, does to the commands under way.
LEMMA SampleIssue ==
  ASSUME NEW c \in CallsType, NEW h \in Handles, NEW fs \in {{}, {"LidarStartSampling"}}
  PROVE  /\ Sample!Issue(c, h, fs) \in CallsType
         /\ \A k \in Handles \ {h} : Sample!Issue(c, h, fs)[k] = c[k]
         /\ Sample!Issue(c, h, fs)[h]["LidarStopSampling"] = c[h]["LidarStopSampling"]
         /\ Sample!Issue(c, h, fs)[h]["LidarStartSampling"] >= c[h]["LidarStartSampling"]
         /\ fs # {} => Sample!Issue(c, h, fs)[h]["LidarStartSampling"] > 0
<1> DEFINE sent(f) == f \in fs /\ Sample!Accepts(f, "Lidar", TypeOf[h], TRUE)
           new == [f \in Asked |-> c[h][f] + (IF sent(f) THEN 1 ELSE 0)]
<1>1. /\ "LidarStopSampling" \in Asked /\ "LidarStartSampling" \in Asked
      /\ ~sent("LidarStopSampling") /\ (fs # {} => sent("LidarStartSampling"))
  BY SampleStartAccepted DEF Asked
<1>2. \A f \in Asked : c[h][f] \in Nat
  BY DEF CallsType, CallsOf
<1>3. Sample!Issue(c, h, fs) = [c EXCEPT ![h] = new]
  BY DEF Sample!Issue, Sample!Asked, Asked
<1> HIDE DEF sent
<1>4. /\ new["LidarStopSampling"] = c[h]["LidarStopSampling"]
      /\ new["LidarStartSampling"] >= c[h]["LidarStartSampling"]
      /\ fs # {} => new["LidarStartSampling"] > 0
  BY <1>1, <1>2
<1>5. \A f \in Asked : c[h][f] + (IF sent(f) THEN 1 ELSE 0) \in Nat
  BY <1>2
<1>6. new \in CallsOf
  BY <1>5 DEF CallsOf
<1> HIDE DEF new
<1> QED
  BY <1>3, <1>4, <1>6 DEF CallsType

LEMMA SampleChange ==
  ASSUME SampleInv, NEW h \in Handles, phase' = phase, phase # "off",
         link' \in [Handles -> Links], work' \in [Handles -> Works],
         NEW d \in [state : {"Disconnect", "Connect", "Sampling"}, work : Works],
         NEW c \in CallsType, \A k \in Handles \ {h} : c[k] = calls[k],
         sampling' \in [Handles -> BOOLEAN],
         \A k \in Handles \ {h} : sampling'[k] = sampling[k],
         \/ d.state = "Disconnect" /\ c[h]["LidarStopSampling"] \in {0, calls[h]["LidarStopSampling"]}
         \/ (d.state = "Sampling" => devices[h].state = "Sampling") /\ c = calls
            /\ sampling' = sampling,
         Sample!OnDeviceInfoChange(h, d, c)
  PROVE  SampleInv'
<1> DEFINE start == d.state = "Connect" /\ d.work = "Normal"
           fs == IF start THEN {"LidarStartSampling"} ELSE {}
<1>1. /\ devices' = [devices EXCEPT ![h] = IF start THEN [d EXCEPT !.state = "Sampling"] ELSE d]
      /\ calls' = Sample!Issue(c, h, fs)
  BY DEF Sample!OnDeviceInfoChange
<1>2. fs \in {{}, {"LidarStartSampling"}} /\ (start <=> fs # {})
  OBVIOUS
<1>3. [d EXCEPT !.state = "Sampling"] \in [state : {"Disconnect", "Connect", "Sampling"}, work : Works]
  OBVIOUS
<1>4. SampleTypes'
  <2>1. calls' \in CallsType
    BY <1>1, <1>2, SampleIssue
  <2> QED
    BY <1>1, <1>3, <2>1 DEF SampleInv, SampleTypes
<1>5. \A k \in Handles \ {h} : devices'[k] = devices[k] /\ calls'[k] = calls[k]
  <2>1. \A k \in Handles \ {h} : Sample!Issue(c, h, fs)[k] = c[k]
    BY <1>2, SampleIssue, ZenonT(30)
  <2>2. \A k \in Handles \ {h} : devices'[k] = devices[k]
    BY <1>1 DEF SampleInv, SampleTypes
  <2> QED
    BY <1>1, <2>1, <2>2
<1>6. devices'[h].state = IF start THEN "Sampling" ELSE d.state
  BY <1>1 DEF SampleInv, SampleTypes
<1> HIDE DEF start, fs
<1>7. ASSUME phase = "running", Minds(h) PROVE Minds(h)'
  <2>1. /\ calls'[h]["LidarStopSampling"] = c[h]["LidarStopSampling"]
        /\ calls'[h]["LidarStartSampling"] >= c[h]["LidarStartSampling"]
        /\ start => calls'[h]["LidarStartSampling"] > 0
    BY <1>1, <1>2, SampleIssue, ZenonT(30)
  <2>2. calls'[h]["LidarStopSampling"] = 0
    BY <1>7, <2>1 DEF Minds
  <2>3. c[h]["LidarStartSampling"] \in Nat /\ calls'[h]["LidarStartSampling"] \in Nat
    BY <1>4 DEF CallsType, CallsOf, Asked, SampleTypes
  <2>4. devices'[h].state = "Sampling" => sampling'[h] \/ calls'[h]["LidarStartSampling"] > 0
    BY <1>6, <1>7, <2>1, <2>3 DEF Minds
  <2> QED
    BY <2>2, <2>4 DEF Minds
<1> QED
  BY <1>4, <1>5, <1>7, SampleOneDevice

LEMMA SampleAnswer ==
  ASSUME SampleInv, NEW h \in Handles, Sample!OnSampleCallback(h)
  PROVE  SampleInv'
<1> DEFINE f == "LidarStartSampling"
<1>1. PICK outcome \in Outcomes :
        /\ Sample!Answers(h, f, outcome)
        /\ calls' = Settled(h, f)
        /\ devices' = IF outcome = "ok" THEN devices ELSE [devices EXCEPT ![h].state = "Connect"]
  BY DEF Sample!OnSampleCallback, Sample!Outcomes, Outcomes, Sample!Settled, Settled
<1>2. calls[h][f] > 0 /\ UNCHANGED <<phase, link, work>> /\ phase # "off"
  BY <1>1 DEF Sample!Answers, Sample!Up
<1>3. /\ sampling' \in {sampling, [sampling EXCEPT ![h] = TRUE]}
      /\ outcome = "ok" => sampling' = [sampling EXCEPT ![h] = TRUE]
  BY <1>1 DEF Sample!Answers, Sample!Executed
<1>4. /\ calls' \in CallsType /\ \A k \in Handles \ {h} : calls'[k] = calls[k]
      /\ calls'[h]["LidarStopSampling"] = calls[h]["LidarStopSampling"]
  BY <1>1, <1>2, SettledType DEF SampleInv, SampleTypes, Asked
<1>5. SampleTypes'
  BY <1>1, <1>2, <1>3, <1>4, ZenonT(30) DEF SampleInv, SampleTypes
<1>6. \A k \in Handles \ {h} : devices'[k] = devices[k] /\ sampling'[k] = sampling[k]
  BY <1>1, <1>3 DEF SampleInv, SampleTypes
<1>7. devices'[h].state = "Sampling" => sampling'[h]
  BY <1>1, <1>3 DEF SampleInv, SampleTypes
<1>8. Minds(h) => Minds(h)'
  BY <1>4, <1>7 DEF Minds
<1> QED
  BY <1>2, <1>4, <1>5, <1>6, <1>8, SampleOneDevice

\* The answer to a stop: nobody was told to stop while the program runs.
LEMMA SampleStopAnswer ==
  ASSUME SampleInv, NEW h \in Handles, Sample!OnStopSampleCallback(h)
  PROVE  SampleInv'
<1> DEFINE f == "LidarStopSampling"
<1>1. PICK outcome \in Outcomes :
        Sample!Answers(h, f, outcome) /\ calls' = Settled(h, f) /\ UNCHANGED devices
  BY DEF Sample!OnStopSampleCallback, Sample!Outcomes, Outcomes, Sample!Settled, Settled
<1>2. calls[h][f] > 0 /\ UNCHANGED <<phase, link, work>> /\ phase # "off"
  BY <1>1 DEF Sample!Answers, Sample!Up
<1>3. sampling' \in {sampling, [sampling EXCEPT ![h] = FALSE]}
  BY <1>1 DEF Sample!Answers, Sample!Executed
<1>4. calls' \in CallsType
  BY <1>1, <1>2, SettledType DEF SampleInv, SampleTypes, Asked
<1>5. SampleTypes'
  BY <1>1, <1>2, <1>3, <1>4 DEF SampleInv, SampleTypes
<1>6. phase # "running"
  BY <1>2 DEF SampleInv, Minds
<1> QED
  BY <1>2, <1>5, <1>6 DEF SampleInv

LEMMA SampleEvent ==
  ASSUME SampleInv, NEW h \in Handles, Sample!Event(h)
  PROVE  SampleInv'
<1> USE DEF Links
<1>1. phase # "off" /\ phase' = phase
  BY DEF Sample!Event, Sample!OnDeviceBroadcast, Sample!OnFound, Sample!OnConnect,
     Sample!OnStateChange, Sample!OnDisconnect, Sample!OnSampleCallback,
     Sample!OnStopSampleCallback, Sample!Broadcasts, Sample!Found, Sample!Connects,
     Sample!ChangesState, Sample!Disconnects, Sample!Answers, Sample!Up
<1>2. /\ link \in [Handles -> Links] /\ work \in [Handles -> Works] /\ calls \in CallsType
      /\ sampling \in [Handles -> BOOLEAN]
      /\ devices \in [Handles -> [state : {"Disconnect", "Connect", "Sampling"}, work : Works]]
  BY DEF SampleInv, SampleTypes
<1>3. CASE Sample!OnDeviceBroadcast(h)
  <2>1. /\ devices' = [devices EXCEPT ![h].state = "Disconnect"] /\ calls' = calls
        /\ work' = work /\ sampling' = sampling
        /\ link' = [link EXCEPT ![h] = IF link[h] = "unknown" THEN "listed" ELSE link[h]]
    BY <1>3 DEF Sample!OnDeviceBroadcast, Sample!Broadcasts, Sample!Listed
  <2>2. SampleTypes'
    BY <1>1, <1>2, <2>1 DEF SampleInv, SampleTypes
  <2>3. /\ \A k \in Handles \ {h} : devices'[k] = devices[k]
        /\ devices'[h].state = "Disconnect"
    BY <1>2, <2>1
  <2>4. Minds(h) => Minds(h)'
    BY <2>1, <2>3 DEF Minds
  <2> QED
    BY <1>1, <2>1, <2>2, <2>3, <2>4, SampleOneDevice
<1>4. CASE Sample!OnFound(h)
  BY <1>1, <1>2, <1>4 DEF Sample!OnFound, Sample!Found, SampleInv, SampleTypes, Minds, Works
<1>5. CASE Sample!OnConnect(h)
  <2> DEFINE d == IF devices[h].state = "Disconnect"
                  THEN [state |-> "Connect", work |-> work[h]] ELSE devices[h]
  <2>1. /\ Sample!OnDeviceInfoChange(h, d, calls) /\ work' = work /\ sampling' = sampling
        /\ link' = [link EXCEPT ![h] = "connected"]
    BY <1>5 DEF Sample!OnConnect, Sample!Connects, Sample!LidarConnect
  <2>2. /\ d \in [state : {"Disconnect", "Connect", "Sampling"}, work : Works]
        /\ d.state = "Sampling" => devices[h].state = "Sampling"
    BY <1>2
  <2> HIDE DEF d
  <2>3. link' \in [Handles -> Links]
    BY <1>2, <2>1
  <2> QED
    BY <1>1, <1>2, <2>1, <2>2, <2>3, SampleChange
<1>6. CASE Sample!OnStateChange(h)
  <2>1. PICK w \in Works : /\ Sample!ChangesState(h, w)
                           /\ Sample!OnDeviceInfoChange(h, [devices[h] EXCEPT !.work = w], calls)
    BY <1>6 DEF Sample!OnStateChange, Sample!LidarStateChange, Sample!Works, Works
  <2> DEFINE d == [devices[h] EXCEPT !.work = w]
  <2>2. link' = link /\ work' = [work EXCEPT ![h] = w] /\ sampling' = sampling
    BY <2>1 DEF Sample!ChangesState
  <2>3. /\ d \in [state : {"Disconnect", "Connect", "Sampling"}, work : Works]
        /\ d.state = "Sampling" => devices[h].state = "Sampling"
    BY <1>2
  <2>4. Sample!OnDeviceInfoChange(h, d, calls)
    BY <2>1
  <2> HIDE DEF d
  <2>5. link' \in [Handles -> Links] /\ work' \in [Handles -> Works]
    BY <1>2, <2>2
  <2> QED
    BY <1>1, <1>2, <2>2, <2>3, <2>4, <2>5, SampleChange
<1>7. CASE Sample!OnDisconnect(h)
  <2> DEFINE d == [devices[h] EXCEPT !.state = "Disconnect"]
  <2>1. /\ Sample!OnDeviceInfoChange(h, d, Dropped(h)) /\ work' = work
        /\ link' = [link EXCEPT ![h] = "listed"] /\ sampling' = [sampling EXCEPT ![h] = FALSE]
    BY <1>7 DEF Sample!OnDisconnect, Sample!Disconnects, Sample!LidarDisConnect, Sample!Dropped,
       Dropped, Sample!NoCalls, NoCalls, Sample!Asked, Asked
  <2>2. /\ d \in [state : {"Disconnect", "Connect", "Sampling"}, work : Works]
        /\ d.state = "Disconnect"
    BY <1>2
  <2>3. /\ Dropped(h) \in CallsType /\ \A k \in Handles \ {h} : Dropped(h)[k] = calls[k]
        /\ Dropped(h)[h]["LidarStopSampling"] = 0
    <3>1. Dropped(h)[h]["LidarStopSampling"] = 0
      BY <1>2 DEF Dropped, NoCalls, Asked, CallsType
    <3> QED
      BY <1>2, <3>1, DroppedType
  <2> HIDE DEF d
  <2>4. /\ link' \in [Handles -> Links] /\ work' \in [Handles -> Works]
        /\ sampling' \in [Handles -> BOOLEAN]
        /\ \A k \in Handles \ {h} : sampling'[k] = sampling[k]
    BY <1>2, <2>1
  <2> QED
    BY <1>1, <2>1, <2>2, <2>3, <2>4, SampleChange
<1> QED
  BY <1>3, <1>4, <1>5, <1>6, <1>7, SampleAnswer, SampleStopAnswer DEF Sample!Event

LEMMA SampleProgram ==
  ASSUME SampleInv, Sample!Program
  PROVE  SampleInv'
<1>1. CASE Sample!StartFails \/ Sample!Start
  BY <1>1 DEF Sample!StartFails, Sample!Start, SampleInv, SampleTypes, Minds, Phases
<1>2. CASE Sample!StopAll
  <2>1. phase' = "stopping" /\ UNCHANGED <<link, work, sampling, devices>>
    BY <1>2 DEF Sample!StopAll
  <2> DEFINE hs == {h \in Handles : devices[h].state = "Sampling"}
             fs == {"LidarStopSampling"}
             new == [h \in Handles |-> IF h \in hs THEN Sample!Issue(calls, h, fs)[h] ELSE calls[h]]
  <2>2. calls' = new
    BY <1>2 DEF Sample!StopAll, Sample!IssueAll
  <2>3. ASSUME NEW h \in Handles PROVE Sample!Issue(calls, h, fs)[h] \in CallsOf
    <3> DEFINE sent(f) == f \in fs /\ Sample!Accepts(f, "Lidar", TypeOf[h], TRUE)
               line == [f \in Asked |-> calls[h][f] + (IF sent(f) THEN 1 ELSE 0)]
    <3>1. Sample!Issue(calls, h, fs) = [calls EXCEPT ![h] = line]
      BY DEF Sample!Issue, Sample!Asked, Asked
    <3>2. calls \in CallsType
      BY DEF SampleInv, SampleTypes
    <3> HIDE DEF sent, fs
    <3>3. \A f \in Asked : calls[h][f] + (IF sent(f) THEN 1 ELSE 0) \in Nat
      BY <3>2 DEF CallsType, CallsOf
    <3>4. line \in CallsOf
      BY <3>3 DEF CallsOf
    <3> HIDE DEF line
    <3> QED
      BY <3>1, <3>2, <3>4 DEF CallsType
  <2>4. \A h \in Handles : calls[h] \in CallsOf
    BY DEF SampleInv, SampleTypes, CallsType
  <2> HIDE DEF hs, fs
  <2>5. calls' \in CallsType
    BY <2>2, <2>3, <2>4 DEF CallsType
  <2> QED
    BY <2>1, <2>5 DEF SampleInv, SampleTypes, Phases
<1>3. CASE Sample!Uninit
  <2>1. /\ phase' = "done" /\ UNCHANGED <<link, work, devices>>
        /\ calls' = [h \in Handles |-> NoCalls] /\ sampling' \in [Handles -> BOOLEAN]
    BY <1>3 DEF Sample!Uninit, Sample!Uninits, Sample!NoCalls, NoCalls, Sample!Asked, Asked
  <2>2. NoCalls \in CallsOf
    BY DEF NoCalls, CallsOf
  <2>3. calls' \in CallsType
    BY <2>1, <2>2 DEF CallsType
  <2> QED
    BY <2>1, <2>3 DEF SampleInv, SampleTypes, Phases
<1> QED
  BY <1>1, <1>2, <1>3 DEF Sample!Program

LEMMA SampleSteps == SampleInv /\ Sample!Next => SampleInv'
BY SampleEvent, SampleProgram DEF Sample!Next

-----------------------------------------------------------------------------
(* LvxRecorder.  As long as nothing is lost and no device goes, each is    *)
(* asked for its parameters once, after the main thread has added it, and  *)
(* described once; the list that reaches the number it is compared with    *)
(* has all.                                                                *)

RecMains ==
  {"starting", "settling", "adding", "added", "waiting", "opening", "recording",
   "stopping", "returned"}
RecEntry == [state : {"Disconnect", "Connect", "Sampling"}, work : Works]
Described == Recorder!Range(infos)
Get == "LidarGetExtrinsicParameter"

RecTypes ==
  /\ phase \in Phases /\ link \in [Handles -> Links] /\ work \in [Handles -> Works]
  /\ left \in Bounds /\ calls \in CallsType
  /\ devices \in [Handles -> RecEntry]
  /\ arrived \in Seq(Handles) /\ infos \in Seq(Handles) /\ next \in Nat \ {0}
  /\ registered \subseteq Handles /\ IsFiniteSet(codes) /\ main \in RecMains

\* The device that the main thread has added and not counted yet.
Adding == IF main = "added" THEN {arrived[next]} ELSE {}

\* Main's list of codes is respected, and it only counts what has come.
AddsKnown ==
  /\ main = "added" => next <= Len(arrived)
  /\ codes # {} => registered \cup Adding \subseteq codes

\* Before its connection, and until it is started, nobody asked h for its
\* parameters or has them; they are asked for, or read, once.
AskedOnce(h) ==
  /\ link[h] # "connected" => devices[h].state = "Disconnect"
  /\ link[h] # "connected" \/ devices[h].state = "Connect" =>
       calls[h][Get] = 0 /\ h \notin Described
  /\ calls[h][Get] <= 1 /\ (calls[h][Get] = 1 => h \notin Described)
  /\ link[h] # "unknown" => h \in registered \cup Adding

\* Nobody is described twice, and who opens the file has all.
Complete ==
  /\ Len(infos) = Cardinality(Described)
  /\ main \in {"opening", "recording"} => Described = registered
  /\ main = "recording" => header = infos

RecInv ==
  /\ RecTypes /\ AddsKnown
  /\ Recorder!Undisturbed => Complete /\ \A h \in Handles : AskedOnce(h)

LEMMA RangeAppend ==
  ASSUME NEW S, NEW s \in Seq(S), NEW x \in S
  PROVE  /\ Append(s, x) \in Seq(S) /\ Len(Append(s, x)) = Len(s) + 1 /\ Len(s) \in Nat
         /\ Recorder!Range(Append(s, x)) = Recorder!Range(s) \cup {x}
         /\ \A i \in 1..Len(s) : Append(s, x)[i] = s[i]
<1>1. /\ Append(s, x) \in Seq(S) /\ Len(Append(s, x)) = Len(s) + 1 /\ Len(s) \in Nat
      /\ \A i \in 1..Len(s) : Append(s, x)[i] = s[i]
      /\ Append(s, x)[Len(s) + 1] = x
  OBVIOUS
<1>2. DOMAIN Append(s, x) = 1..(Len(s) + 1) /\ DOMAIN s = 1..Len(s)
  BY <1>1
<1>3. ASSUME NEW y PROVE y \in Recorder!Range(Append(s, x)) <=> y \in Recorder!Range(s) \cup {x}
  BY <1>1, <1>2 DEF Recorder!Range
<1> QED
  BY <1>1, <1>3

LEMMA RangeElements ==
  ASSUME NEW S, NEW s \in Seq(S)
  PROVE  Recorder!Range(s) \subseteq S
BY DEF Recorder!Range

LEMMA RangeEmpty == Recorder!Range(<<>>) = {} /\ Len(<<>>) = 0
BY DEF Recorder!Range

LEMMA DescribedFinite ==
  ASSUME RecTypes
  PROVE  Described \subseteq Handles /\ IsFiniteSet(Described) /\ IsFiniteSet(registered)
<1>1. Described \subseteq Handles
  BY RangeElements DEF Described, RecTypes
<1> QED
  BY <1>1, HandlesAssumption, FS_Subset DEF RecTypes

\* The instance's count is the one that the library's theorems are about.
LEMMA SameCardinality == \A S : Recorder!Cardinality(S) = Cardinality(S)
BY DEF Recorder!Cardinality, Cardinality

LEMMA GetAsked == Get \in Asked
BY DEF Get, Asked

LEMMA RecInit == Recorder!Init => RecInv
<1> SUFFICES ASSUME Recorder!Init PROVE RecInv
  OBVIOUS
<1>1. /\ phase = "off" /\ calls = [h \in Handles |-> [f \in Asked |-> 0]]
      /\ link = [h \in Handles |-> "unknown"] /\ work = [h \in Handles |-> "Init"]
      /\ left = [events |-> MaxEvents, faults |-> MaxFaults]
      /\ devices = [h \in Handles |-> [state |-> "Disconnect", work |-> "Init"]]
  BY DEF Recorder!Init, Recorder!SdkInit, Recorder!NoCalls, Recorder!Asked, Asked
<1>2. /\ arrived = <<>> /\ next = 1 /\ registered = {} /\ infos = <<>> /\ main = "starting"
  BY DEF Recorder!Init
<1>3. IsFiniteSet(codes)
  BY CommandLinesAssumption DEF Recorder!Init
<1>4. [f \in Asked |-> 0] \in CallsOf
  BY DEF CallsOf
<1>5. calls \in CallsType
  BY <1>1, <1>4 DEF CallsType
<1>6. left \in Bounds
  BY <1>1, BoundsAssumption DEF Bounds
<1>7. /\ link \in [Handles -> Links] /\ work \in [Handles -> Works] /\ phase \in Phases
      /\ devices \in [Handles -> RecEntry]
  BY <1>1 DEF Links, Works, Phases, RecEntry
<1>8. <<>> \in Seq(Handles)
  OBVIOUS
<1>9. RecTypes
  BY <1>2, <1>3, <1>5, <1>6, <1>7, <1>8 DEF RecTypes, RecMains
<1>10. AddsKnown
  BY <1>2 DEF AddsKnown, Adding
<1>11. Described = {} /\ Len(infos) = 0
  BY <1>2, RangeEmpty DEF Described
<1>12. Complete
  BY <1>2, <1>11, FS_EmptySet DEF Complete
<1>13. ASSUME NEW h \in Handles PROVE AskedOnce(h)
  <2>1. /\ calls[h][Get] = 0 /\ link[h] = "unknown" /\ devices[h].state = "Disconnect"
        /\ h \notin Described
    BY <1>1, <1>11, GetAsked
  <2> QED
    BY <2>1 DEF AskedOnce
<1> QED
  BY <1>9, <1>10, <1>12, <1>13 DEF RecInv

\* Bounds are spent and never come back.
LEMMA Spending ==
  ASSUME left \in Bounds, NEW b \in {"events", "faults"}, left[b] > 0, left' = Spent(b)
  PROVE  left' \in Bounds /\ ~(Recorder!Undisturbed')
<1>1. left' \in Bounds
  BY SpentType
<1>2. left'[b] = left[b] - 1 /\ left[b] \in 0..(IF b = "events" THEN MaxEvents ELSE MaxFaults)
  BY DEF Spent, Bounds
<1>3. left'[b] # (IF b = "events" THEN MaxEvents ELSE MaxFaults)
  BY <1>2, BoundsAssumption
<1> QED
  BY <1>1, <1>3 DEF Recorder!Undisturbed

\* A step of device h: the main thread adds and counts nobody with it.
LEMMA RecOneDevice ==
  ASSUME RecInv, NEW h \in Handles, RecTypes', UNCHANGED <<codes, registered, next>>,
         \/ UNCHANGED arrived
         \/ \E k \in Handles : arrived' = Append(arrived, k),
         main' = "added" <=> main = "added",
         Recorder!Undisturbed' => Recorder!Undisturbed,
         Recorder!Undisturbed' => \A k \in Handles \ {h} :
           /\ link'[k] = link[k] /\ devices'[k] = devices[k]
           /\ calls'[k] = calls[k] /\ (k \in Described' <=> k \in Described),
         Recorder!Undisturbed' => Complete' /\ (Adding' = Adding => AskedOnce(h)')
  PROVE  RecInv'
<1>1. main = "added" => next <= Len(arrived) /\ next <= Len(arrived') /\ arrived'[next] = arrived[next]
  <2>1. ASSUME main = "added" PROVE next \in 1..Len(arrived) /\ Len(arrived) \in Nat
    BY <2>1 DEF RecInv, RecTypes, AddsKnown
  <2>2. CASE UNCHANGED arrived
    BY <2>1, <2>2
  <2>3. ASSUME NEW k \in Handles, arrived' = Append(arrived, k), main = "added"
        PROVE  next <= Len(arrived') /\ arrived'[next] = arrived[next]
    <3>1. arrived \in Seq(Handles)
      BY DEF RecInv, RecTypes
    <3> QED
      BY <2>1, <2>3, <3>1, RangeAppend
  <2> QED
    BY <2>1, <2>2, <2>3
<1>2. Adding' = Adding
  BY <1>1 DEF Adding
<1>3. AddsKnown'
  BY <1>1, <1>2 DEF AddsKnown, RecInv
<1>4. ASSUME Recorder!Undisturbed', NEW k \in Handles PROVE AskedOnce(k)'
  <2>1. CASE k = h
    BY <1>2, <1>4, <2>1
  <2>2. CASE k # h
    <3>1. AskedOnce(k)
      BY <1>4 DEF RecInv
    <3>2. /\ link'[k] = link[k] /\ devices'[k] = devices[k] /\ calls'[k] = calls[k]
          /\ (k \in Described' <=> k \in Described) /\ Adding' = Adding /\ registered' = registered
      BY <1>2, <1>4, <2>2
    <3> QED
      BY <3>1, <3>2 DEF AskedOnce, Get
  <2> QED
    BY <2>1, <2>2
<1> QED
  BY <1>3, <1>4 DEF RecInv

\* Nobody but a registered device is described while the main thread waits,
\* so that a list as long as there are registered devices, or codes, has all.
LEMMA DescribeStep ==
  ASSUME RecInv, NEW h \in Handles, NEW n \in {Cardinality(registered), Cardinality(codes)},
         UNCHANGED <<registered, header>>, Recorder!Describe(h, n)
  PROVE  /\ infos' \in Seq(Handles) /\ main' \in RecMains /\ (main' = "added" <=> main = "added")
         /\ Described' = Described \cup {h}
         /\ Recorder!Undisturbed /\ h \notin Described /\ h \in registered \cup Adding => Complete'
<1>1. /\ infos' = Append(infos, h)
      /\ main' = IF Len(infos') = n /\ main = "waiting" THEN "opening" ELSE main
  BY DEF Recorder!Describe
<1>2. infos \in Seq(Handles) /\ main \in RecMains /\ RecTypes
  BY DEF RecInv, RecTypes
<1>3. infos' \in Seq(Handles) /\ Len(infos') = Len(infos) + 1 /\ Described' = Described \cup {h}
  BY <1>1, <1>2, RangeAppend DEF Described
<1>4. main' \in RecMains /\ (main' = "added" <=> main = "added")
  BY <1>1, <1>2 DEF RecMains
<1>5. ASSUME Recorder!Undisturbed, h \notin Described, h \in registered \cup Adding
      PROVE  Complete'
  <2>1. Complete /\ \A k \in Handles : AskedOnce(k)
    BY <1>5 DEF RecInv
  <2>2. /\ IsFiniteSet(Described) /\ Described \subseteq Handles
        /\ IsFiniteSet(registered) /\ IsFiniteSet(codes)
    BY <1>2, DescribedFinite DEF RecTypes
  <2>3. IsFiniteSet(Described') /\ Cardinality(Described') = Cardinality(Described) + 1
    BY <1>3, <1>5, <2>2, FS_AddElement
  <2>4. Len(infos') = Cardinality(Described')
    BY <1>3, <2>1, <2>3 DEF Complete
  <2>5. main \notin {"opening", "recording"}
    BY <1>5, <2>1 DEF Complete, Adding
  <2>6. ASSUME main' \in {"opening", "recording"} PROVE Described' = registered /\ main' = "opening"
    <3>1. main = "waiting" /\ Len(infos') = n /\ main' = "opening"
      BY <1>1, <2>5, <2>6
    <3>2. Described \subseteq registered
      BY <2>1, <2>2, <3>1 DEF AskedOnce, Adding
    <3>3. Described' \subseteq registered
      BY <1>3, <1>5, <3>1, <3>2 DEF Adding
    <3>4. CASE n = Cardinality(registered)
      BY <2>2, <2>4, <3>1, <3>3, <3>4, FS_Subset
    <3>5. CASE n = Cardinality(codes) /\ codes # {}
      <4>1. registered \subseteq codes
        BY <3>5 DEF RecInv, AddsKnown
      <4>2. Described' = codes
        BY <2>2, <2>4, <3>1, <3>3, <3>5, <4>1, FS_Subset
      <4> QED
        BY <3>1, <3>3, <4>1, <4>2
    <3>6. CASE n = Cardinality(codes) /\ codes = {}
      <4>1. Cardinality(Described') = 0
        BY <2>4, <3>1, <3>6, FS_EmptySet
      <4> QED
        BY <1>3, <2>3, <4>1, FS_EmptySet
    <3> QED
      BY <3>4, <3>5, <3>6, <3>1
  <2> QED
    BY <2>4, <2>6 DEF Complete
<1> QED
  BY <1>3, <1>4, <1>5

\* Issuing a set of functions asks for the parameters once, or not at all.
LEMMA RecIssue ==
  ASSUME NEW c \in CallsType, NEW h \in Handles, NEW fs
  PROVE  /\ Recorder!Issue(c, h, fs) \in CallsType
         /\ \A k \in Handles \ {h} : Recorder!Issue(c, h, fs)[k] = c[k]
         /\ Recorder!Issue(c, h, fs)[h][Get] \in {c[h][Get], c[h][Get] + 1}
         /\ Get \notin fs => Recorder!Issue(c, h, fs)[h][Get] = c[h][Get]
<1> DEFINE sent(f) == f \in fs /\ Recorder!Accepts(f, "Lidar", TypeOf[h], TRUE)
           new == [f \in Asked |-> c[h][f] + (IF sent(f) THEN 1 ELSE 0)]
<1>1. \A f \in Asked : c[h][f] \in Nat
  BY DEF CallsType, CallsOf
<1>2. Recorder!Issue(c, h, fs) = [c EXCEPT ![h] = new]
  BY DEF Recorder!Issue, Recorder!Asked, Asked
<1>3. Get \notin fs => ~sent(Get)
  OBVIOUS
<1> HIDE DEF sent
<1>4. /\ new[Get] \in {c[h][Get], c[h][Get] + 1}
      /\ Get \notin fs => new[Get] = c[h][Get]
  BY <1>1, <1>3, GetAsked
<1>5. \A f \in Asked : c[h][f] + (IF sent(f) THEN 1 ELSE 0) \in Nat
  BY <1>1
<1>6. new \in CallsOf
  BY <1>5 DEF CallsOf
<1> HIDE DEF new
<1> QED
  BY <1>2, <1>4, <1>6 DEF CallsType

\* OnDeviceInfoChange after an event that left the commands c, undisturbed
\* only if it dropped none, and made d of the device's entry.
LEMMA RecChange ==
  ASSUME RecInv, NEW h \in Handles, phase' = phase,
         link' \in [Handles -> Links], work' \in [Handles -> Works], left' \in Bounds,
         NEW d \in RecEntry, NEW c \in CallsType,
         \A k \in Handles \ {h} : c[k] = calls[k] /\ link'[k] = link[k],
         Recorder!Undisturbed' =>
           /\ Recorder!Undisturbed /\ c = calls /\ link[h] # "unknown"
           /\ link'[h] # "connected" => link[h] # "connected"
           /\ d.state # "Disconnect" => link'[h] = "connected"
           /\ d.state = "Connect" => calls[h][Get] = 0 /\ h \notin Described,
         Recorder!OnDeviceInfoChange(h, d, c)
  PROVE  RecInv'
<1> DEFINE start == d.state = "Connect" /\ d.work = "Normal"
           asks == IF fromXml THEN {} ELSE {"LidarGetExtrinsicParameter"}
           fs == IF start THEN asks \cup {"LidarStartSampling"} ELSE {}
<1>1. /\ devices' = [devices EXCEPT ![h] = IF start THEN [d EXCEPT !.state = "Sampling"] ELSE d]
      /\ calls' = Recorder!Issue(c, h, fs)
      /\ IF start /\ fromXml
         THEN Recorder!Describe(h, Cardinality(codes))
         ELSE UNCHANGED <<infos, finished, main>>
      /\ UNCHANGED <<codes, arrived, registered, next, header>>
  BY SameCardinality
  DEF Recorder!OnDeviceInfoChange, Recorder!LidarGetExtrinsicFromXml, Recorder!options,
     Recorder!file
<1>2. (~start \/ fromXml) => Get \notin fs
  BY DEF Get
<1> HIDE DEF fs
<1>3. /\ calls' \in CallsType /\ \A k \in Handles \ {h} : calls'[k] = c[k]
      /\ calls'[h][Get] \in {c[h][Get], c[h][Get] + 1}
      /\ ~start \/ fromXml => calls'[h][Get] = c[h][Get]
  BY <1>1, <1>2, RecIssue
<1>4. /\ devices' \in [Handles -> RecEntry] /\ \A k \in Handles \ {h} : devices'[k] = devices[k]
      /\ devices'[h].state = IF start THEN "Sampling" ELSE d.state
  <2>1. [d EXCEPT !.state = "Sampling"] \in RecEntry
    BY DEF RecEntry
  <2>2. devices \in [Handles -> RecEntry]
    BY DEF RecInv, RecTypes
  <2>3. [d EXCEPT !.state = "Sampling"].state = "Sampling"
    BY DEF RecEntry
  <2> HIDE DEF start
  <2> QED
    BY <1>1, <2>1, <2>2, <2>3
<1>5. /\ infos' \in Seq(Handles) /\ main' \in RecMains /\ (main' = "added" <=> main = "added")
      /\ Described' = IF start /\ fromXml THEN Described \cup {h} ELSE Described
  <2>1. CASE start /\ fromXml
    BY <1>1, <2>1, DescribeStep
  <2>2. CASE ~(start /\ fromXml)
    BY <1>1, <2>2 DEF RecInv, RecTypes, Described
  <2> QED
    BY <2>1, <2>2
<1>6. RecTypes'
  BY <1>1, <1>3, <1>4, <1>5 DEF RecInv, RecTypes
<1>7. ASSUME Recorder!Undisturbed' PROVE Complete' /\ (Adding' = Adding => AskedOnce(h)')
  <2>1. AskedOnce(h) /\ Complete /\ c = calls
    BY <1>7 DEF RecInv
  <2>2. h \in registered \cup Adding
    BY <1>7, <2>1 DEF AskedOnce
  <2>3. start => calls[h][Get] = 0 /\ h \notin Described
    BY <1>7
  <2>4. Complete'
    <3>1. CASE start /\ fromXml
      BY <1>1, <1>7, <2>2, <2>3, <3>1, DescribeStep
    <3>2. CASE ~(start /\ fromXml)
      BY <1>1, <2>1, <3>2 DEF Complete, Described
    <3> QED
      BY <3>1, <3>2
  <2>5. /\ link'[h] # "connected" => devices'[h].state = "Disconnect"
        /\ link'[h] # "connected" \/ devices'[h].state = "Connect" =>
             calls'[h][Get] = 0 /\ h \notin Described'
    <3>1. CASE start
      BY <1>4, <1>7, <3>1
    <3>2. CASE ~start
      <4>1. devices'[h].state = d.state /\ calls'[h][Get] = calls[h][Get] /\ Described' = Described
        BY <1>3, <1>4, <1>5, <2>1, <3>2
      <4> QED
        BY <1>7, <2>1, <4>1 DEF AskedOnce
    <3> QED
      BY <3>1, <3>2
  <2>6. calls'[h][Get] <= 1 /\ (calls'[h][Get] = 1 => h \notin Described')
    <3>1. CASE start /\ fromXml
      BY <1>3, <2>1, <2>3, <3>1
    <3>2. CASE start /\ ~fromXml
      BY <1>3, <1>5, <2>1, <2>3, <3>2
    <3>3. CASE ~start
      <4>1. calls'[h][Get] = calls[h][Get] /\ Described' = Described
        BY <1>3, <1>5, <2>1, <3>3
      <4> QED
        BY <2>1, <4>1 DEF AskedOnce
    <3> QED
      BY <3>1, <3>2, <3>3
  <2>7. Adding' = Adding => h \in registered' \cup Adding'
    BY <1>1, <2>2
  <2> QED
    BY <2>4, <2>5, <2>6, <2>7 DEF AskedOnce, Get
<1>8. Recorder!Undisturbed' => \A k \in Handles \ {h} :
        /\ link'[k] = link[k] /\ devices'[k] = devices[k]
        /\ calls'[k] = calls[k] /\ (k \in Described' <=> k \in Described)
  BY <1>3, <1>4, <1>5
<1> HIDE DEF start
<1> QED
  BY <1>1, <1>5, <1>6, <1>7, <1>8, RecOneDevice

\* A step that leaves the devices alone, but for the answer to a command.
LEMMA RecQuiet ==
  ASSUME RecInv, NEW h \in Handles, phase' \in Phases, calls' \in CallsType, left' \in Bounds,
         UNCHANGED <<link, work, codes, registered, infos, next, header, main>>,
         devices' = devices \/ (~(Recorder!Undisturbed') /\ devices' \in [Handles -> RecEntry]),
         \/ UNCHANGED arrived
         \/ \E k \in Handles : arrived' = Append(arrived, k),
         \A k \in Handles \ {h} : calls'[k] = calls[k], calls'[h][Get] = calls[h][Get],
         Recorder!Undisturbed' => Recorder!Undisturbed
  PROVE  RecInv'
<1>1. arrived' \in Seq(Handles)
  BY RangeAppend, SMTT(30) DEF RecInv, RecTypes
<1>2. RecTypes'
  BY <1>1 DEF RecInv, RecTypes
<1>3. Described' = Described
  BY DEF Described
<1>4. ASSUME Recorder!Undisturbed' PROVE Complete' /\ (Adding' = Adding => AskedOnce(h)')
  <2>1. AskedOnce(h) /\ Complete /\ devices' = devices
    BY <1>4 DEF RecInv
  <2> QED
    BY <1>3, <2>1 DEF AskedOnce, Complete, Get
<1> QED
  BY <1>2, <1>3, <1>4, RecOneDevice

LEMMA RecSettled ==
  ASSUME RecTypes, NEW h \in Handles, NEW f \in Asked, NEW outcome,
         Recorder!Answers(h, f, outcome), calls' = Recorder!Settled(h, f)
  PROVE  /\ calls' \in CallsType /\ \A k \in Handles \ {h} : calls'[k] = calls[k]
         /\ f # Get => calls'[h][Get] = calls[h][Get]
         /\ f = Get => calls'[h][Get] = calls[h][Get] - 1 /\ calls[h][Get] > 0
         /\ left' \in Bounds /\ (Recorder!Undisturbed' => Recorder!Undisturbed /\ outcome = "ok")
         /\ UNCHANGED <<phase, link, work>>
<1>1. calls[h][f] > 0 /\ UNCHANGED <<phase, link, work>>
  BY DEF Recorder!Answers
<1>2. calls' = Settled(h, f) /\ calls \in CallsType
  BY DEF Recorder!Settled, Settled, RecTypes
<1>3. f = Get => calls'[h][Get] = calls[h][Get] - 1
  BY <1>2, GetAsked DEF Settled, CallsType, CallsOf
<1>4. \/ outcome = "ok" /\ left' = left
      \/ left.faults > 0 /\ left' = Spent("faults")
  BY DEF Recorder!Answers, Recorder!Spent, Spent
<1>5. left' \in Bounds /\ (Recorder!Undisturbed' => Recorder!Undisturbed /\ outcome = "ok")
  BY <1>4, Spending DEF RecTypes, Recorder!Undisturbed
<1> QED
  BY <1>1, <1>2, <1>3, <1>5, GetAsked, SettledType

LEMMA RecAnswer ==
  ASSUME RecInv, NEW h \in Handles, Recorder!OnGetLidarExtrinsicParameter(h)
  PROVE  RecInv'
<1>1. PICK outcome \in Outcomes :
        /\ Recorder!Answers(h, Get, outcome)
        /\ calls' = Recorder!Settled(h, Get)
        /\ IF outcome = "timeout"
           THEN UNCHANGED <<infos, finished, main>>
           ELSE Recorder!Describe(h, Cardinality(registered))
        /\ UNCHANGED <<codes, devices, arrived, registered, next, header>>
  BY SameCardinality
  DEF Recorder!OnGetLidarExtrinsicParameter, Recorder!Outcomes, Outcomes, Get,
     Recorder!options, Recorder!file
<1>2. /\ calls' \in CallsType /\ \A k \in Handles \ {h} : calls'[k] = calls[k]
      /\ calls'[h][Get] = calls[h][Get] - 1 /\ calls[h][Get] > 0
      /\ left' \in Bounds /\ (Recorder!Undisturbed' => Recorder!Undisturbed /\ outcome = "ok")
      /\ UNCHANGED <<phase, link, work>>
  BY <1>1, RecSettled, GetAsked DEF RecInv
<1>3. /\ infos' \in Seq(Handles) /\ main' \in RecMains /\ (main' = "added" <=> main = "added")
      /\ outcome # "timeout" => Described' = Described \cup {h}
  <2>1. CASE outcome = "timeout"
    BY <1>1, <2>1 DEF RecInv, RecTypes
  <2>2. CASE outcome # "timeout"
    BY <1>1, <2>2, DescribeStep
  <2> QED
    BY <2>1, <2>2
<1>4. RecTypes'
  BY <1>1, <1>2, <1>3 DEF RecInv, RecTypes
<1>5. ASSUME Recorder!Undisturbed'
      PROVE  /\ Complete' /\ (Adding' = Adding => AskedOnce(h)')
             /\ Described' = Described \cup {h}
  <2>1. AskedOnce(h) /\ Recorder!Undisturbed /\ outcome # "timeout"
    BY <1>2, <1>5 DEF RecInv
  <2>2. calls[h][Get] \in Nat
    BY GetAsked DEF RecInv, RecTypes, CallsType, CallsOf
  <2>3. /\ calls[h][Get] = 1 /\ h \notin Described /\ h \in registered \cup Adding
        /\ link[h] = "connected" /\ devices[h].state # "Connect"
    BY <1>2, <2>1, <2>2 DEF AskedOnce
  <2>4. Complete' /\ Described' = Described \cup {h}
    BY <1>1, <1>3, <2>1, <2>3, DescribeStep
  <2>5. Adding' = Adding => AskedOnce(h)'
    BY <1>1, <1>2, <2>3 DEF AskedOnce, Get
  <2> QED
    BY <2>4, <2>5
<1>6. Recorder!Undisturbed' => \A k \in Handles \ {h} :
        /\ link'[k] = link[k] /\ devices'[k] = devices[k]
        /\ calls'[k] = calls[k] /\ (k \in Described' <=> k \in Described)
  BY <1>1, <1>2, <1>5
<1> QED
  BY <1>1, <1>2, <1>3, <1>4, <1>5, <1>6, RecOneDevice

LEMMA RecEvent ==
  ASSUME RecInv, NEW h \in Handles, Recorder!Event(h)
  PROVE  RecInv'
<1>1. /\ link \in [Handles -> Links] /\ work \in [Handles -> Works] /\ calls \in CallsType
      /\ devices \in [Handles -> RecEntry] /\ left \in Bounds /\ phase \in Phases
  BY DEF RecInv, RecTypes
<1>2. ASSUME NEW b \in {"events", "faults"}, left[b] > 0, left' = Spent(b)
      PROVE  left' \in Bounds /\ ~(Recorder!Undisturbed')
  BY <1>1, <1>2, Spending
<1>3. left' = left => (Recorder!Undisturbed' <=> Recorder!Undisturbed)
  BY DEF Recorder!Undisturbed
<1>4. CASE Recorder!OnDeviceBroadcast(h)
  <2>1. /\ UNCHANGED <<link, work, calls, codes, devices, registered, infos, main, next, header>>
        /\ arrived' = arrived \/ arrived' = Append(arrived, h)
    BY <1>4 DEF Recorder!OnDeviceBroadcast, Recorder!Broadcasts, Recorder!options, Recorder!file
  <2>2. phase' \in {phase, "crashed"}
    BY <1>4 DEF Recorder!OnDeviceBroadcast
  <2>3. left' = left \/ (left.faults > 0 /\ left' = Spent("faults"))
    BY <1>4 DEF Recorder!OnDeviceBroadcast, Recorder!Broadcasts, Recorder!Spent, Spent
  <2>4. left' \in Bounds /\ (Recorder!Undisturbed' => Recorder!Undisturbed)
    BY <1>1, <1>2, <1>3, <2>3
  <2>5. phase' \in Phases
    BY <1>1, <2>2 DEF Phases
  <2> QED
    BY <1>1, <2>1, <2>4, <2>5, RecQuiet
<1>5. CASE Recorder!OnFound(h)
  <2>1. /\ link[h] = "listed" /\ link' = [link EXCEPT ![h] = "found"]
        /\ work' = [work EXCEPT ![h] = "Init"]
        /\ UNCHANGED <<phase, calls, left, codes, devices, arrived, registered, infos, main, next, header>>
    BY <1>5 DEF Recorder!OnFound, Recorder!Found, Recorder!options, Recorder!shared, Recorder!file
  <2>2. RecTypes'
    BY <1>1, <2>1 DEF RecInv, RecTypes, Links, Works
  <2>3. /\ link'[h] = "found" /\ \A k \in Handles \ {h} : link'[k] = link[k]
        /\ Described' = Described
    BY <1>1, <2>1 DEF Described
  <2>4. ASSUME Recorder!Undisturbed' PROVE Complete' /\ (Adding' = Adding => AskedOnce(h)')
    <3>1. AskedOnce(h) /\ Complete
      BY <1>3, <2>1, <2>4 DEF RecInv
    <3> QED
      BY <2>1, <2>3, <3>1 DEF AskedOnce, Complete, Get
  <2> QED
    BY <1>3, <2>1, <2>2, <2>3, <2>4, RecOneDevice
<1>6. CASE Recorder!OnConnect(h)
  <2> DEFINE d == IF devices[h].state = "Disconnect"
                  THEN [state |-> "Connect", work |-> work[h]] ELSE devices[h]
  <2>1. /\ Recorder!OnDeviceInfoChange(h, d, calls) /\ work' = work /\ left' = left /\ phase' = phase
        /\ link[h] = "found" /\ link' = [link EXCEPT ![h] = "connected"]
    BY <1>6 DEF Recorder!OnConnect, Recorder!Connects, Recorder!LidarConnect
  <2>2. d \in RecEntry
    BY <1>1 DEF RecEntry
  <2>3. link' \in [Handles -> Links] /\ link'[h] = "connected"
        /\ \A k \in Handles \ {h} : link'[k] = link[k]
    BY <1>1, <2>1 DEF Links
  <2> HIDE DEF d
  <2>4. ASSUME Recorder!Undisturbed' PROVE Recorder!Undisturbed /\ calls[h][Get] = 0 /\ h \notin Described
    <3>1. Recorder!Undisturbed
      BY <1>3, <2>1, <2>4
    <3> QED
      BY <2>1, <3>1 DEF RecInv, AskedOnce
  <2> QED
    BY <1>1, <2>1, <2>2, <2>3, <2>4, RecChange
<1>7. CASE Recorder!OnStateChange(h)
  <2>1. PICK w \in Works : /\ Recorder!ChangesState(h, w)
                           /\ Recorder!OnDeviceInfoChange(h, [devices[h] EXCEPT !.work = w], calls)
    BY <1>7 DEF Recorder!OnStateChange, Recorder!LidarStateChange, Recorder!Works, Works
  <2> DEFINE d == [devices[h] EXCEPT !.work = w]
  <2>2. link' = link /\ work' = [work EXCEPT ![h] = w] /\ phase' = phase /\ link[h] # "unknown"
    BY <2>1 DEF Recorder!ChangesState
  <2>3. left' = left \/ (left.events > 0 /\ left' = Spent("events"))
    BY <2>1 DEF Recorder!ChangesState, Recorder!Spent, Spent
  <2>4. left' \in Bounds /\ (Recorder!Undisturbed' => Recorder!Undisturbed)
    BY <1>1, <1>2, <1>3, <2>3
  <2>5. d \in RecEntry /\ d.state = devices[h].state
    BY <1>1 DEF RecEntry
  <2>6. Recorder!OnDeviceInfoChange(h, d, calls)
    BY <2>1
  <2> HIDE DEF d
  <2>7. link' \in [Handles -> Links] /\ work' \in [Handles -> Works]
    BY <1>1, <2>2
  <2>8. ASSUME Recorder!Undisturbed'
        PROVE  /\ d.state # "Disconnect" => link'[h] = "connected"
               /\ d.state = "Connect" => calls[h][Get] = 0 /\ h \notin Described
    <3>1. AskedOnce(h)
      BY <2>4, <2>8 DEF RecInv
    <3> QED
      BY <2>2, <2>5, <3>1 DEF AskedOnce
  <2> QED
    BY <1>1, <2>2, <2>4, <2>5, <2>6, <2>7, <2>8, RecChange
<1>8. CASE Recorder!OnDisconnect(h)
  <2> DEFINE d == [devices[h] EXCEPT !.state = "Disconnect"]
  <2>1. /\ Recorder!OnDeviceInfoChange(h, d, Dropped(h)) /\ work' = work /\ phase' = phase
        /\ link' = [link EXCEPT ![h] = "listed"] /\ left.events > 0 /\ left' = Spent("events")
    BY <1>8 DEF Recorder!OnDisconnect, Recorder!Disconnects, Recorder!LidarDisConnect,
       Recorder!Dropped, Dropped, Recorder!NoCalls, NoCalls, Recorder!Asked, Asked,
       Recorder!Spent, Spent
  <2>2. d \in RecEntry
    BY <1>1 DEF RecEntry
  <2>3. Dropped(h) \in CallsType /\ \A k \in Handles \ {h} : Dropped(h)[k] = calls[k]
    BY <1>1, DroppedType
  <2> HIDE DEF d
  <2>4. /\ link' \in [Handles -> Links] /\ work' \in [Handles -> Works]
        /\ \A k \in Handles \ {h} : link'[k] = link[k]
    BY <1>1, <2>1 DEF Links
  <2>5. left' \in Bounds /\ ~(Recorder!Undisturbed')
    BY <1>2, <2>1
  <2> QED
    BY <2>1, <2>2, <2>3, <2>4, <2>5, RecChange
<1>9. CASE Recorder!OnSampleCallback(h)
  <2>1. PICK outcome \in Outcomes :
          /\ Recorder!Answers(h, "LidarStartSampling", outcome)
          /\ calls' = Recorder!Settled(h, "LidarStartSampling")
          /\ devices' = IF outcome = "ok" THEN devices ELSE [devices EXCEPT ![h].state = "Connect"]
          /\ UNCHANGED <<codes, arrived, registered, infos, main, next, header>>
    BY <1>9 DEF Recorder!OnSampleCallback, Recorder!Outcomes, Outcomes, Recorder!options, Recorder!file
  <2>2. /\ calls' \in CallsType /\ \A k \in Handles \ {h} : calls'[k] = calls[k]
        /\ calls'[h][Get] = calls[h][Get] /\ UNCHANGED <<phase, link, work>>
        /\ left' \in Bounds /\ (Recorder!Undisturbed' => Recorder!Undisturbed /\ outcome = "ok")
    BY <2>1, RecSettled DEF RecInv, Asked, Get
  <2>3. [devices EXCEPT ![h].state = "Connect"] \in [Handles -> RecEntry]
    BY <1>1 DEF RecEntry
  <2>4. devices' = devices \/ (~(Recorder!Undisturbed') /\ devices' \in [Handles -> RecEntry])
    BY <2>1, <2>2, <2>3
  <2> QED
    BY <1>1, <2>1, <2>2, <2>4, RecQuiet
<1>10. CASE Recorder!OnStopSampleCallback(h)
  <2>1. PICK outcome \in Outcomes :
          /\ Recorder!Answers(h, "LidarStopSampling", outcome)
          /\ calls' = Recorder!Settled(h, "LidarStopSampling")
          /\ UNCHANGED <<codes, devices, arrived, registered, infos, main, next, header>>
    BY <1>10 DEF Recorder!OnStopSampleCallback, Recorder!Outcomes, Outcomes, Recorder!options,
       Recorder!shared, Recorder!file
  <2>2. /\ calls' \in CallsType /\ \A k \in Handles \ {h} : calls'[k] = calls[k]
        /\ calls'[h][Get] = calls[h][Get] /\ UNCHANGED <<phase, link, work>>
        /\ left' \in Bounds /\ (Recorder!Undisturbed' => Recorder!Undisturbed)
    BY <2>1, RecSettled DEF RecInv, Asked, Get
  <2> QED
    BY <1>1, <2>1, <2>2, RecQuiet
<1>11. CASE Recorder!GetLidarData(h)
  <2>1. UNCHANGED <<phase, link, work, calls, left, codes, devices, arrived, registered, infos,
                    main, next, header>>
    BY <1>11 DEF Recorder!GetLidarData, Recorder!sdkVars, Recorder!options, Recorder!file
  <2> QED
    BY <1>1, <1>3, <2>1, RecQuiet
<1> QED
  BY <1>4, <1>5, <1>6, <1>7, <1>8, <1>9, <1>10, <1>11, RecAnswer DEF Recorder!Event

\* A step of the main thread that leaves the devices and the lists alone.
LEMMA RecMainQuiet ==
  ASSUME RecInv, UNCHANGED <<link, left, codes, devices, arrived, registered, infos>>,
         phase' \in Phases, work' = work, calls' \in CallsType, next' \in Nat \ {0},
         \A h \in Handles : calls'[h][Get] = calls[h][Get] \/ calls'[h][Get] = 0,
         main # "added", main' \in RecMains \ {"added"},
         main' \in {"opening", "recording"} => main \in {"opening", "recording"},
         main' = "recording" => header' = infos
  PROVE  RecInv'
<1>1. RecTypes'
  BY DEF RecInv, RecTypes
<1>2. Adding = {} /\ Adding' = {} /\ Described' = Described
  BY DEF Adding, Described
<1>3. AddsKnown'
  BY <1>2 DEF RecInv, AddsKnown
<1>4. ASSUME Recorder!Undisturbed' PROVE Complete' /\ \A h \in Handles : AskedOnce(h)'
  <2>1. Recorder!Undisturbed
    BY <1>4 DEF Recorder!Undisturbed
  <2>2. Complete'
    BY <1>2, <2>1 DEF RecInv, Complete
  <2>3. ASSUME NEW h \in Handles PROVE AskedOnce(h)'
    <3>1. AskedOnce(h) /\ calls[h][Get] <= 1
      BY <2>1 DEF RecInv, AskedOnce
    <3>2. /\ calls'[h][Get] \in {0, calls[h][Get]}
          /\ UNCHANGED <<link, devices, registered, Adding, Described>>
      BY <1>2
    <3> QED
      BY <3>1, <3>2 DEF AskedOnce, Get
  <2> QED
    BY <2>2, <2>3
<1> QED
  BY <1>1, <1>3, <1>4 DEF RecInv

LEMMA AddStep ==
  ASSUME RecInv, Recorder!AddDevice
  PROVE  RecInv'
<1> DEFINE h == arrived[next]
<1>1. /\ main = "adding" /\ main' = "added" /\ next <= Len(arrived) /\ (codes = {} \/ h \in codes)
      /\ link' = [link EXCEPT ![h] = IF link[h] = "unknown" THEN "listed" ELSE link[h]]
      /\ UNCHANGED <<phase, work, calls, left, codes, devices, arrived, registered, infos, next, header>>
  BY DEF Recorder!AddDevice, Recorder!Goes, Recorder!Listed, Recorder!options, Recorder!shared,
     Recorder!file
<1>2. RecTypes /\ h \in Handles
  BY <1>1 DEF RecInv, RecTypes
<1>3. Adding = {} /\ Adding' = {h} /\ Described' = Described
  BY <1>1 DEF Adding, Described
<1> HIDE DEF h
<1>4. /\ link' \in [Handles -> Links] /\ \A k \in Handles \ {h} : link'[k] = link[k]
      /\ (link'[h] = "connected" <=> link[h] = "connected")
  BY <1>1, <1>2 DEF RecTypes, Links
<1>5. RecTypes'
  BY <1>1, <1>2, <1>4 DEF RecTypes, RecMains
<1>6. AddsKnown'
  <2>1. AddsKnown
    BY DEF RecInv
  <2> QED
    BY <1>1, <1>3, <2>1 DEF AddsKnown
<1>7. ASSUME Recorder!Undisturbed' PROVE Complete' /\ \A k \in Handles : AskedOnce(k)'
  <2>1. Recorder!Undisturbed /\ Complete
    BY <1>1, <1>7 DEF Recorder!Undisturbed, RecInv
  <2>2. Complete'
    BY <1>1, <1>3, <2>1 DEF Complete
  <2>3. ASSUME NEW k \in Handles PROVE AskedOnce(k)'
    <3>1. AskedOnce(k)
      BY <2>1 DEF RecInv
    <3>2. /\ UNCHANGED <<devices, calls, registered>> /\ Described' = Described
          /\ (link'[k] = "connected" <=> link[k] = "connected")
      BY <1>1, <1>3, <1>4
    <3>3. link'[k] # "unknown" => k \in registered \cup Adding'
      BY <1>3, <1>4, <3>1 DEF AskedOnce
    <3> QED
      BY <3>1, <3>2, <3>3 DEF AskedOnce, Get
  <2> QED
    BY <2>2, <2>3
<1> QED
  BY <1>5, <1>6, <1>7 DEF RecInv

LEMMA CountStep ==
  ASSUME RecInv, Recorder!CountDevice
  PROVE  RecInv'
<1> DEFINE h == arrived[next]
<1>1. /\ main = "added" /\ main' = "adding" /\ next' = next + 1
      /\ devices' = [devices EXCEPT ![h].state = "Disconnect"] /\ registered' = registered \cup {h}
      /\ UNCHANGED <<phase, link, work, calls, left, codes, arrived, infos, header>>
  BY DEF Recorder!CountDevice, Recorder!Goes, Recorder!sdkVars, Recorder!options, Recorder!file
<1>2. RecTypes /\ h \in Handles
  BY <1>1 DEF RecInv, RecTypes, AddsKnown
<1>3. Adding = {h} /\ Adding' = {} /\ Described' = Described
  BY <1>1 DEF Adding, Described
<1> HIDE DEF h
<1>4. /\ devices' \in [Handles -> RecEntry] /\ \A k \in Handles \ {h} : devices'[k] = devices[k]
      /\ devices'[h].state = "Disconnect"
  BY <1>1, <1>2 DEF RecTypes, RecEntry
<1>5. RecTypes'
  BY <1>1, <1>2, <1>4 DEF RecTypes, RecMains
<1>6. AddsKnown'
  <2>1. AddsKnown
    BY DEF RecInv
  <2> QED
    BY <1>1, <1>3, <2>1 DEF AddsKnown
<1>7. ASSUME Recorder!Undisturbed' PROVE Complete' /\ \A k \in Handles : AskedOnce(k)'
  <2>1. Recorder!Undisturbed /\ Complete
    BY <1>1, <1>7 DEF Recorder!Undisturbed, RecInv
  <2>2. Complete'
    BY <1>1, <1>3, <2>1 DEF Complete
  <2>3. ASSUME NEW k \in Handles PROVE AskedOnce(k)'
    <3>1. AskedOnce(k)
      BY <2>1 DEF RecInv
    <3>2. /\ UNCHANGED <<link, calls>> /\ Described' = Described
          /\ devices'[k].state = "Disconnect" \/ devices'[k] = devices[k]
          /\ registered' \cup Adding' = registered \cup Adding
      BY <1>1, <1>3, <1>4
    <3> QED
      BY <3>1, <3>2 DEF AskedOnce, Get
  <2> QED
    BY <2>2, <2>3
<1> QED
  BY <1>5, <1>6, <1>7 DEF RecInv

LEMMA RecProgram ==
  ASSUME RecInv, Recorder!Program
  PROVE  RecInv'
<1> USE DEF Recorder!Goes, Recorder!SdkIdle, Recorder!sdkVars, Recorder!options, Recorder!shared,
            Recorder!file
<1>1. RecTypes /\ main \in RecMains /\ phase \in Phases /\ calls \in CallsType /\ next \in Nat \ {0}
  BY DEF RecInv, RecTypes
<1>2. CASE \/ Recorder!StartFails \/ Recorder!Start \/ Recorder!WaitForDevicesReady
           \/ Recorder!SkipDevice \/ Recorder!WaitForExtrinsicParameter
           \/ Recorder!InitLvxFileHeader \/ Recorder!SaveFrame
  <2>1. UNCHANGED <<link, left, codes, devices, arrived, registered, infos, work, calls>>
    BY <1>2 DEF Recorder!StartFails, Recorder!Start, Recorder!WaitForDevicesReady,
       Recorder!SkipDevice, Recorder!WaitForExtrinsicParameter, Recorder!InitLvxFileHeader,
       Recorder!SaveFrame
  <2>2. phase' \in {phase, "done", "running"} /\ next' \in {next, next + 1}
    BY <1>2 DEF Recorder!StartFails, Recorder!Start, Recorder!WaitForDevicesReady,
       Recorder!SkipDevice, Recorder!WaitForExtrinsicParameter, Recorder!InitLvxFileHeader,
       Recorder!SaveFrame
  <2>3. /\ main # "added" /\ main' \in RecMains \ {"added"}
        /\ main' \in {"opening", "recording"} => main \in {"opening", "recording"}
    BY <1>2 DEF Recorder!StartFails, Recorder!Start, Recorder!WaitForDevicesReady,
       Recorder!SkipDevice, Recorder!WaitForExtrinsicParameter, Recorder!InitLvxFileHeader,
       Recorder!SaveFrame, RecMains
  <2>4. main' = "recording" =>
          header' = infos \/ (main = "recording" /\ header' = header)
    BY <1>2 DEF Recorder!StartFails, Recorder!Start, Recorder!WaitForDevicesReady,
       Recorder!SkipDevice, Recorder!WaitForExtrinsicParameter, Recorder!InitLvxFileHeader,
       Recorder!SaveFrame
  <2>5. phase' \in Phases /\ next' \in Nat \ {0}
    BY <1>1, <2>2 DEF Phases
  <2>6. CASE main' = "recording" /\ main = "recording" /\ header' = header
    <3>1. RecTypes' /\ AddsKnown' /\ Described' = Described /\ Adding' = {} /\ Adding = {}
      BY <1>1, <2>1, <2>5, <2>6 DEF RecInv, RecTypes, AddsKnown, Adding, Described
    <3>2. ASSUME Recorder!Undisturbed' PROVE Complete' /\ \A h \in Handles : AskedOnce(h)'
      <4>1. Complete /\ \A h \in Handles : AskedOnce(h)
        BY <2>1, <3>2 DEF RecInv, Recorder!Undisturbed
      <4> QED
        BY <2>1, <2>6, <3>1, <4>1 DEF Complete, AskedOnce, Get
    <3> QED
      BY <3>1, <3>2 DEF RecInv
  <2>7. CASE main' = "recording" => header' = infos
    BY <1>1, <2>1, <2>3, <2>5, <2>7, RecMainQuiet
  <2> QED
    BY <2>4, <2>6, <2>7
<1>3. CASE Recorder!NoDevice \/ Recorder!InitLvxFileFails \/ Recorder!Uninit
  <2>1. /\ UNCHANGED <<link, left, codes, devices, arrived, registered, infos, work, next>>
        /\ phase' = "done" /\ main # "added" /\ main' = "returned"
        /\ calls' = [h \in Handles |-> NoCalls]
    BY <1>3 DEF Recorder!NoDevice, Recorder!InitLvxFileFails, Recorder!Uninit, Recorder!Uninits,
       Recorder!NoCalls, NoCalls, Recorder!Asked, Asked
  <2>2. NoCalls \in CallsOf /\ NoCalls[Get] = 0
    BY GetAsked DEF NoCalls, CallsOf
  <2>3. calls' \in CallsType /\ \A h \in Handles : calls'[h][Get] = 0
    BY <2>1, <2>2 DEF CallsType
  <2> QED
    BY <1>1, <2>1, <2>3, RecMainQuiet DEF Phases, RecMains
<1>4. CASE Recorder!StopAll
  <2>1. /\ UNCHANGED <<link, left, codes, devices, arrived, registered, infos, work, next>>
        /\ phase' = "stopping" /\ main # "added" /\ main' = "stopping"
    BY <1>4 DEF Recorder!StopAll
  <2> DEFINE hs == {h \in Handles : devices[h].state = "Sampling"}
             fs == {"LidarStopSampling"}
  <2>2. calls' = [h \in Handles |-> IF h \in hs THEN Recorder!Issue(calls, h, fs)[h] ELSE calls[h]]
    BY <1>4 DEF Recorder!StopAll, Recorder!IssueAll
  <2>3. Get \notin fs
    BY DEF Get
  <2> HIDE DEF hs, fs
  <2>4. ASSUME NEW h \in Handles
        PROVE  calls'[h] \in CallsOf /\ calls'[h][Get] = calls[h][Get]
    <3>1. Recorder!Issue(calls, h, fs)[h] \in CallsOf /\ calls[h] \in CallsOf
      BY <1>1, RecIssue DEF CallsType
    <3>2. Recorder!Issue(calls, h, fs)[h][Get] = calls[h][Get]
      BY <1>1, <2>3, RecIssue
    <3> QED
      BY <2>2, <3>1, <3>2
  <2>5. calls' \in CallsType
    <3>1. calls' = [h \in Handles |-> calls'[h]]
      BY <2>2
    <3> QED
      BY <2>4, <3>1 DEF CallsType
  <2> QED
    BY <1>1, <2>1, <2>4, <2>5, RecMainQuiet DEF Phases, RecMains
<1> QED
  BY <1>2, <1>3, <1>4, AddStep, CountStep DEF Recorder!Program

LEMMA RecSteps == RecInv /\ Recorder!Next => RecInv'
BY RecEvent, RecProgram DEF Recorder!Next

LEMMA RecPromise == RecInv => Recorder!HeaderComplete
<1> SUFFICES ASSUME RecInv, main = "recording", Recorder!Undisturbed
             PROVE  Recorder!Range(header) = registered /\ Len(header) = Cardinality(registered)
  BY SameCardinality DEF Recorder!HeaderComplete
<1>1. Complete
  BY DEF RecInv
<1> QED
  BY <1>1 DEF Complete, Described

-----------------------------------------------------------------------------
(* LvxFile.  What SaveFrameToLvxFile writes is as long as the offsets it   *)
(* has computed say, packet by packet.                                     *)

(* Induction up to n over the set of those for which something holds: the  *)
(* least number for which it does not has a predecessor for which it does. *)
LEMMA UpTo ==
  ASSUME NEW n \in Nat, NEW T \in SUBSET Nat, 0 \in T,
         \A i \in 0..n : i \in T /\ i < n => i + 1 \in T
  PROVE  0..n \subseteq T
<1> SUFFICES ASSUME (0..n) \ T # {} PROVE FALSE
  OBVIOUS
<1> DEFINE Missing == (0..n) \ T
<1>1. IsWellFoundedOn(OpToRel(<, Nat), Nat)
  BY NatLessThanWellFounded
<1>2. Missing \subseteq Nat /\ Missing # {}
  OBVIOUS
<1> HIDE DEF Missing
<1>3. PICK x \in Missing : \A y \in Missing : ~(<<y, x>> \in OpToRel(<, Nat))
  BY <1>1, <1>2, WFMin
<1>4. \A y \in Missing : y < x => <<y, x>> \in OpToRel(<, Nat)
  BY <1>2 DEF OpToRel
<1>5. \A y \in Missing : ~(y < x)
  BY <1>3, <1>4
<1>6. x \in (0..n) \ T
  BY DEF Missing
<1>7. x - 1 \in 0..n /\ x - 1 < x
  BY <1>6
<1>8. x - 1 \in T
  BY <1>5, <1>7 DEF Missing
<1> QED
  BY <1>6, <1>7, <1>8

(* A loop of n steps from b, of which step i maps S to S as G[i] does, and *)
(* the values it has after each.                                           *)
IsLoop(n, S, b, G) == n \in Nat /\ b \in S /\ G \in [1..n -> [S -> S]]
Computes(f, n, b, G) == f = [i \in 0..n |-> IF i = 0 THEN b ELSE G[i][f[i - 1]]]

(* The function that is so defined by recursion is there, ...              *)
LEMMA RecursionExists ==
  ASSUME NEW n, NEW S, NEW b, NEW G, IsLoop(n, S, b, G)
  PROVE  \E f : Computes(f, n, b, G)
<1>0. n \in Nat /\ b \in S /\ G \in [1..n -> [S -> S]]
  BY DEF IsLoop
<1> DEFINE Good(k) == {f \in [0..k -> S] : f[0] = b /\ \A i \in 1..k : f[i] = G[i][f[i - 1]]}
<1> DEFINE T == {k \in 0..n : Good(k) # {}}
<1>1. 0 \in T
  <2>1. [i \in 0..0 |-> b] \in Good(0)
    BY <1>0
  <2> QED
    BY <1>0, <2>1
<1>2. ASSUME NEW k \in 0..n, k \in T, k < n PROVE k + 1 \in T
  <2> PICK f \in Good(k) : TRUE
    BY <1>2
  <2> DEFINE g == [i \in 0..k + 1 |-> IF i <= k THEN f[i] ELSE G[k + 1][f[k]]]
  <2>1. f[k] \in S /\ k + 1 \in 1..n
    BY <1>0, <1>2
  <2>2. G[k + 1][f[k]] \in S
    BY <1>0, <2>1
  <2>3. g \in [0..k + 1 -> S] /\ g[0] = b
    BY <1>0, <2>2
  <2>4. \A i \in 1..k + 1 : g[i] = G[i][g[i - 1]]
    <3> SUFFICES ASSUME NEW i \in 1..k + 1 PROVE g[i] = G[i][g[i - 1]]
      OBVIOUS
    <3>1. CASE i <= k
      BY <3>1
    <3>2. CASE i = k + 1
      BY <3>2
    <3> QED
      BY <3>1, <3>2
  <2>5. g \in Good(k + 1)
    BY <2>3, <2>4
  <2>6. k + 1 \in 0..n
    BY <1>0, <2>1
  <2> QED
    BY <2>5, <2>6
<1>3. T \in SUBSET Nat
  OBVIOUS
<1> HIDE DEF T
<1>4. 0..n \subseteq T
  BY <1>0, <1>1, <1>2, <1>3, UpTo
<1>5. PICK f \in Good(n) : TRUE
  BY <1>0, <1>4 DEF T
<1>6. f = [i \in 0..n |-> IF i = 0 THEN b ELSE G[i][f[i - 1]]]
  BY <1>0, <1>5
<1> QED
  BY <1>6 DEF Computes

(* ... and stays in the set of its values.                                 *)
LEMMA RecursionType ==
  ASSUME NEW n, NEW S, NEW b, NEW G, IsLoop(n, S, b, G), NEW f, Computes(f, n, b, G)
  PROVE  \A i \in 0..n : f[i] \in S
<1>0. /\ n \in Nat /\ b \in S /\ G \in [1..n -> [S -> S]]
      /\ f = [i \in 0..n |-> IF i = 0 THEN b ELSE G[i][f[i - 1]]]
  BY DEF IsLoop, Computes
<1> DEFINE T == {i \in 0..n : f[i] \in S}
<1>1. 0 \in T
  BY <1>0
<1>2. ASSUME NEW i \in 0..n, i \in T, i < n PROVE i + 1 \in T
  <2>1. i + 1 \in 0..n /\ i + 1 \in 1..n /\ i + 1 # 0 /\ i + 1 - 1 = i
    BY <1>0, <1>2
  <2>2. f[i + 1] = G[i + 1][f[i]]
    BY <1>0, <2>1
  <2> QED
    BY <1>0, <1>2, <2>1, <2>2
<1>3. T \in SUBSET Nat
  OBVIOUS
<1> HIDE DEF T
<1>4. 0..n \subseteq T
  BY <1>0, <1>1, <1>2, <1>3, UpTo
<1> QED
  BY <1>4 DEF T

LvxBuffer == [pos : Nat, out : Nat]
LvxFrame == [at : Nat, current : Nat, next : Nat]

LEMMA PackSizes ==
  ASSUME NEW type \in PacketTypes
  PROVE  Lvx!BasePointsHandle(type) \in Nat
<1>1. Lvx!PointNum[type] \in Nat /\ Lvx!PointSize[type] \in Nat
  BY PacketTypesAssumption DEF Lvx!PointNum, Lvx!PointSize
<1>2. \A x, y \in Nat : 19 + x * y \in Nat
  OBVIOUS
<1> QED
  BY <1>1, <1>2 DEF Lvx!BasePointsHandle

LEMMA PutType ==
  ASSUME NEW b \in LvxBuffer, NEW size \in Nat
  PROVE  /\ Lvx!Put(b, size) \in LvxBuffer
         /\ Lvx!Put(b, size).pos + Lvx!Put(b, size).out = b.pos + b.out + size
BY DEF Lvx!Put, LvxBuffer

(* The two loops of SaveFrameToLvxFile as the functions they compute.      *)
LEMMA NextLoop ==
  ASSUME NEW sizes \in Seq(Nat), NEW from \in Nat
  PROVE  \E ends \in [0..Len(sizes) -> Nat] :
           /\ ends[0] = from + Lvx!Size.frame
           /\ \A i \in 1..Len(sizes) : ends[i] = ends[i - 1] + sizes[i]
           /\ Lvx!NextOffset(from, sizes) = ends[Len(sizes)]
<1> DEFINE n == Len(sizes)
           f0 == from + Lvx!Size.frame
           ends == CHOOSE f : f = [i \in 0..n |-> IF i = 0 THEN f0 ELSE f[i - 1] + sizes[i]]
           G == [i \in 1..n |-> [x \in Nat |-> x + sizes[i]]]
<1>1. n \in Nat /\ f0 \in Nat
  BY DEF Lvx!Size
<1>2. \A i \in 1..n : sizes[i] \in Nat
  OBVIOUS
<1>3. IsLoop(n, Nat, f0, G)
  BY <1>1, <1>2 DEF IsLoop
<1>4. \A i \in 1..n, x \in Nat : G[i][x] = x + sizes[i]
  OBVIOUS
<1>5. ends = CHOOSE f : f = [i \in 0..n |-> IF i = 0 THEN f0 ELSE f[i - 1] + sizes[i]]
  OBVIOUS
<1>6. Lvx!NextOffset(from, sizes) = ends[n]
  BY DEF Lvx!NextOffset
<1>7. f0 = from + Lvx!Size.frame
  OBVIOUS
<1> HIDE DEF n, f0, ends, G
<1>8. PICK f : Computes(f, n, f0, G)
  BY <1>3, RecursionExists
<1>9. \A i \in 0..n : f[i] \in Nat
  BY <1>3, <1>8, RecursionType
<1>10. f = [i \in 0..n |-> IF i = 0 THEN f0 ELSE f[i - 1] + sizes[i]]
  <2>1. \A i \in 0..n : i # 0 => i - 1 \in 0..n /\ i \in 1..n
    BY <1>1
  <2>2. \A i \in 0..n : i # 0 => G[i][f[i - 1]] = f[i - 1] + sizes[i]
    BY <1>4, <1>9, <2>1
  <2> QED
    BY <1>8, <2>2 DEF Computes
<1>11. ends = [i \in 0..n |-> IF i = 0 THEN f0 ELSE ends[i - 1] + sizes[i]]
  BY <1>5, <1>10
<1>12. ends[0] = f0 /\ \A i \in 1..n : ends[i] = ends[i - 1] + sizes[i]
  BY <1>1, <1>11
<1> DEFINE T == {i \in 0..n : ends[i] \in Nat}
<1>13. 0..n \subseteq T
  <2>1. 0 \in T
    BY <1>1, <1>12
  <2>2. ASSUME NEW i \in 0..n, i \in T, i < n PROVE i + 1 \in T
    <3>1. i + 1 \in 1..n /\ i + 1 - 1 = i
      BY <1>1, <2>2
    <3>2. ends[i + 1] = ends[i] + sizes[i + 1] /\ sizes[i + 1] \in Nat
      BY <1>2, <1>12, <3>1
    <3> QED
      BY <2>2, <3>1, <3>2
  <2>3. T \in SUBSET Nat
    BY <1>1
  <2> HIDE DEF T
  <2> QED
    BY <1>1, <2>1, <2>2, <2>3, UpTo
<1>14. ends \in [0..n -> Nat]
  BY <1>11, <1>13
<1>15. /\ ends[0] = from + Lvx!Size.frame
       /\ \A i \in 1..n : ends[i] = ends[i - 1] + sizes[i]
       /\ Lvx!NextOffset(from, sizes) = ends[n]
  BY <1>6, <1>7, <1>12
<1> QED
  BY <1>14, <1>15 DEF n

LEMMA BufferLoop ==
  ASSUME NEW sizes \in Seq(Nat)
  PROVE  \E buffer \in [0..Len(sizes) -> LvxBuffer] :
           /\ buffer[0] = [pos |-> Lvx!Size.frame, out |-> 0]
           /\ \A i \in 1..Len(sizes) : buffer[i] = Lvx!Put(buffer[i - 1], sizes[i])
           /\ Lvx!Buffered(sizes) = buffer[Len(sizes)]
<1> DEFINE n == Len(sizes)
           b0 == [pos |-> Lvx!Size.frame, out |-> 0]
           buffer == CHOOSE f : f = [i \in 0..n |-> IF i = 0 THEN b0
                                                    ELSE Lvx!Put(f[i - 1], sizes[i])]
           G == [i \in 1..n |-> [x \in LvxBuffer |-> Lvx!Put(x, sizes[i])]]
<1>1. n \in Nat /\ b0 \in LvxBuffer
  BY DEF Lvx!Size, LvxBuffer
<1>2. \A i \in 1..n : sizes[i] \in Nat
  OBVIOUS
<1>3. \A i \in 1..n, x \in LvxBuffer : Lvx!Put(x, sizes[i]) \in LvxBuffer
  BY <1>2, PutType
<1>4. IsLoop(n, LvxBuffer, b0, G)
  BY <1>1, <1>3 DEF IsLoop
<1>5. \A i \in 1..n, x \in LvxBuffer : G[i][x] = Lvx!Put(x, sizes[i])
  OBVIOUS
<1>6. buffer = CHOOSE f : f = [i \in 0..n |-> IF i = 0 THEN b0 ELSE Lvx!Put(f[i - 1], sizes[i])]
  OBVIOUS
<1>7. Lvx!Buffered(sizes) = buffer[n]
  BY DEF Lvx!Buffered
<1>8. b0 = [pos |-> Lvx!Size.frame, out |-> 0]
  OBVIOUS
<1> HIDE DEF n, b0, buffer, G
<1>9. PICK f : Computes(f, n, b0, G)
  BY <1>4, RecursionExists
<1>10. \A i \in 0..n : f[i] \in LvxBuffer
  BY <1>4, <1>9, RecursionType
<1>11. f = [i \in 0..n |-> IF i = 0 THEN b0 ELSE Lvx!Put(f[i - 1], sizes[i])]
  <2>1. \A i \in 0..n : i # 0 => i - 1 \in 0..n /\ i \in 1..n
    BY <1>1
  <2>2. \A i \in 0..n : i # 0 => G[i][f[i - 1]] = Lvx!Put(f[i - 1], sizes[i])
    BY <1>5, <1>10, <2>1
  <2> QED
    BY <1>9, <2>2 DEF Computes
<1>12. buffer = [i \in 0..n |-> IF i = 0 THEN b0 ELSE Lvx!Put(buffer[i - 1], sizes[i])]
  BY <1>6, <1>11
<1>13. buffer[0] = b0 /\ \A i \in 1..n : buffer[i] = Lvx!Put(buffer[i - 1], sizes[i])
  BY <1>1, <1>12
<1> DEFINE T == {i \in 0..n : buffer[i] \in LvxBuffer}
<1>14. 0..n \subseteq T
  <2>1. 0 \in T
    BY <1>1, <1>13
  <2>2. ASSUME NEW i \in 0..n, i \in T, i < n PROVE i + 1 \in T
    <3>1. i + 1 \in 1..n /\ i + 1 - 1 = i /\ i + 1 \in 0..n
      BY <1>1, <2>2
    <3>2. buffer[i + 1] = Lvx!Put(buffer[i], sizes[i + 1]) /\ buffer[i] \in LvxBuffer
      BY <1>13, <2>2, <3>1
    <3>3. buffer[i + 1] \in LvxBuffer
      BY <1>3, <3>1, <3>2
    <3> QED
      BY <3>1, <3>3
  <2>3. T \in SUBSET Nat
    BY <1>1
  <2> HIDE DEF T
  <2> QED
    BY <1>1, <2>1, <2>2, <2>3, UpTo
<1>15. buffer \in [0..n -> LvxBuffer]
  BY <1>12, <1>14
<1>16. /\ buffer[0] = [pos |-> Lvx!Size.frame, out |-> 0]
       /\ \A i \in 1..n : buffer[i] = Lvx!Put(buffer[i - 1], sizes[i])
       /\ Lvx!Buffered(sizes) = buffer[n]
  BY <1>7, <1>8, <1>13
<1> QED
  BY <1>15, <1>16 DEF n

(* The bytes of a frame are as many as its offsets promise.                *)
LEMMA AsLongAsPromised ==
  ASSUME NEW sizes \in Seq(Nat), NEW from \in Nat
  PROVE  /\ Lvx!NextOffset(from, sizes) \in Nat
         /\ Lvx!NextOffset(from, sizes)
              = from + Lvx!Buffered(sizes).out + Lvx!Buffered(sizes).pos
<1>1. PICK ends \in [0..Len(sizes) -> Nat] :
           /\ ends[0] = from + Lvx!Size.frame
           /\ \A i \in 1..Len(sizes) : ends[i] = ends[i - 1] + sizes[i]
           /\ Lvx!NextOffset(from, sizes) = ends[Len(sizes)]
  BY NextLoop
<1>2. PICK buffer \in [0..Len(sizes) -> LvxBuffer] :
           /\ buffer[0] = [pos |-> Lvx!Size.frame, out |-> 0]
           /\ \A i \in 1..Len(sizes) : buffer[i] = Lvx!Put(buffer[i - 1], sizes[i])
           /\ Lvx!Buffered(sizes) = buffer[Len(sizes)]
  BY BufferLoop
<1> DEFINE n == Len(sizes)
           T == {i \in 0..n : ends[i] = from + buffer[i].out + buffer[i].pos}
<1>3. n \in Nat /\ \A i \in 1..n : sizes[i] \in Nat
  OBVIOUS
<1>4. 0..n \subseteq T
  <2>1. 0 \in T
    BY <1>1, <1>2, <1>3 DEF Lvx!Size
  <2>2. ASSUME NEW i \in 0..n, i \in T, i < n PROVE i + 1 \in T
    <3>1. i + 1 \in 1..n /\ i + 1 - 1 = i /\ i + 1 \in 0..n
      BY <1>3, <2>2
    <3>0. ends[i] = from + buffer[i].out + buffer[i].pos
      BY <2>2
    <3> HIDE DEF T
    <3>2. ends[i + 1] = ends[i] + sizes[i + 1] /\ sizes[i + 1] \in Nat /\ ends[i] \in Nat
      <4>1. ends[i + 1] = ends[i + 1 - 1] + sizes[i + 1] /\ sizes[i + 1] \in Nat
        BY <1>1, <1>3, <3>1
      <4>2. ends[i] \in Nat
        BY <1>1, <2>2
      <4> QED
        BY <3>1, <4>1, <4>2
    <3>3. buffer[i + 1] = Lvx!Put(buffer[i], sizes[i + 1]) /\ buffer[i] \in LvxBuffer
      <4>1. buffer[i + 1] = Lvx!Put(buffer[i + 1 - 1], sizes[i + 1])
        BY <1>2, <3>1
      <4>2. buffer[i] \in LvxBuffer
        BY <1>2, <2>2
      <4> QED
        BY <3>1, <4>1, <4>2
    <3>4. /\ buffer[i + 1] \in LvxBuffer
          /\ buffer[i + 1].pos + buffer[i + 1].out
               = buffer[i].pos + buffer[i].out + sizes[i + 1]
      BY <3>2, <3>3, PutType
    <3>5. /\ buffer[i].out \in Nat /\ buffer[i].pos \in Nat
          /\ buffer[i + 1].out \in Nat /\ buffer[i + 1].pos \in Nat
      BY <3>3, <3>4 DEF LvxBuffer
    <3>6. PICK q \in Nat, r \in Nat, u \in Nat, v \in Nat, k \in Nat :
            /\ q = buffer[i].out /\ r = buffer[i].pos
            /\ v = buffer[i + 1].out /\ u = buffer[i + 1].pos /\ k = sizes[i + 1]
      BY <3>2, <3>5
    <3>7. ends[i + 1] = from + v + u
      <4>1. ends[i] = from + q + r
        BY <3>0, <3>6
      <4>2. u + v = r + q + k
        BY <3>4, <3>6
      <4>3. ends[i + 1] = ends[i] + k
        BY <3>2, <3>6
      <4> QED
        BY <4>1, <4>2, <4>3
    <3>8. ends[i + 1] = from + buffer[i + 1].out + buffer[i + 1].pos
      BY <3>6, <3>7
    <3> QED
      BY <3>1, <3>8 DEF T
  <2>3. T \in SUBSET Nat
    BY <1>3
  <2> HIDE DEF T
  <2> QED
    BY <1>3, <2>1, <2>2, <2>3, UpTo
<1>5. n \in T
  BY <1>3, <1>4
<1>6. ends[n] = from + buffer[n].out + buffer[n].pos /\ ends[n] \in Nat
  BY <1>1, <1>3, <1>5
<1> QED
  BY <1>1, <1>2, <1>6

(* Between two frames the offset is the end of the file.                   *)
LvxInv ==
  /\ file \in {"none", "open", "closed"}
  /\ described \in Nat /\ written \in Nat /\ offset = written
  /\ chain \in Seq(LvxFrame)
  /\ file = "none" => chain = <<>>
  /\ Lvx!FramesChain

LEMMA LvxInit == Lvx!Init => LvxInv
BY DEF Lvx!Init, LvxInv, Lvx!FramesChain

LEMMA LvxSteps == LvxInv /\ Lvx!Next => LvxInv'
<1> SUFFICES ASSUME LvxInv, Lvx!Next PROVE LvxInv'
  OBVIOUS
<1>1. CASE Lvx!AddDeviceInfo
  BY <1>1 DEF Lvx!AddDeviceInfo, LvxInv, Lvx!FramesChain
<1>2. CASE Lvx!InitLvxFileHeader
  <2>1. chain = <<>> /\ chain' = <<>>
    BY <1>2 DEF Lvx!InitLvxFileHeader, LvxInv
  <2>2. written' \in Nat /\ offset' = written'
    BY <1>2 DEF Lvx!InitLvxFileHeader, LvxInv, Lvx!Size
  <2>3. file' = "open" /\ described' \in Nat
    BY <1>2 DEF Lvx!InitLvxFileHeader, LvxInv
  <2>4. chain' \in Seq(LvxFrame) /\ Lvx!FramesChain'
    BY <2>1 DEF Lvx!FramesChain
  <2> QED
    BY <2>1, <2>2, <2>3, <2>4 DEF LvxInv
<1>3. CASE Lvx!CloseLvxFile
  BY <1>3 DEF Lvx!CloseLvxFile, LvxInv, Lvx!FramesChain
<1>4. ASSUME NEW n \in 1..MaxPackets, NEW kinds \in [1..n -> PacketTypes],
             Lvx!SaveFrameToLvxFile(kinds)
      PROVE  LvxInv'
  <2> DEFINE sizes == [i \in DOMAIN kinds |-> Lvx!BasePointsHandle(kinds[i])]
             end == Lvx!NextOffset(offset, sizes)
             frame == [at |-> written, current |-> offset, next |-> end]
  <2>1. sizes \in Seq(Nat)
    <3>1. \A i \in 1..n : Lvx!BasePointsHandle(kinds[i]) \in Nat
      BY PackSizes
    <3>2. sizes \in [1..n -> Nat]
      BY <3>1
    <3> QED
      BY <3>2
  <2>2. /\ end \in Nat
        /\ end = offset + Lvx!Buffered(sizes).out + Lvx!Buffered(sizes).pos
    <3> HIDE DEF sizes
    <3> QED
      BY <2>1, AsLongAsPromised DEF LvxInv
  <2>3. /\ chain' = Append(chain, frame)
        /\ written' = written + Lvx!Buffered(sizes).out + Lvx!Buffered(sizes).pos
        /\ offset' = end /\ file = "open" /\ UNCHANGED <<file, described>>
    BY <1>4 DEF Lvx!SaveFrameToLvxFile
  <2>4. written' = end /\ offset' = end
    BY <2>2, <2>3 DEF LvxInv
  <2> HIDE DEF end, sizes
  <2>5. frame \in LvxFrame /\ chain \in Seq(LvxFrame)
    BY <2>2 DEF LvxInv, LvxFrame
  <2>6. /\ chain' \in Seq(LvxFrame) /\ Len(chain') = Len(chain) + 1
        /\ chain'[Len(chain) + 1] = frame
        /\ \A i \in 1..Len(chain) : chain'[i] = chain[i]
    <3> HIDE DEF frame
    <3> QED
      BY <2>3, <2>5
  <2>7. frame.at = written /\ frame.current = written /\ frame.next = written'
    BY <2>4 DEF LvxInv
  <2> HIDE DEF frame
  <2>8. Lvx!FramesChain'
    <3> SUFFICES ASSUME NEW i \in 1..Len(chain')
                 PROVE  /\ chain'[i].current = chain'[i].at
                        /\ chain'[i].next = IF i = Len(chain') THEN written'
                                            ELSE chain'[i + 1].at
      BY DEF Lvx!FramesChain
    <3>0. Len(chain) \in Nat /\ i \in Nat
      BY <2>5, <2>6
    <3>1. CASE i = Len(chain) + 1
      BY <2>6, <2>7, <3>1
    <3>2. CASE i = Len(chain) /\ i >= 1
      <4>1. chain[i].current = chain[i].at /\ chain[i].next = written
        BY <3>2 DEF LvxInv, Lvx!FramesChain
      <4> QED
        BY <2>6, <2>7, <3>0, <3>2, <4>1
    <3>3. CASE i < Len(chain)
      <4>1. i + 1 \in 1..Len(chain) /\ i \in 1..Len(chain) /\ i # Len(chain)
        BY <3>0, <3>3
      <4>2. chain[i].current = chain[i].at /\ chain[i].next = chain[i + 1].at
        BY <4>1 DEF LvxInv, Lvx!FramesChain
      <4> QED
        BY <2>6, <3>0, <3>3, <4>1, <4>2
    <3> QED
      BY <2>6, <3>0, <3>1, <3>2, <3>3
  <2> QED
    BY <2>2, <2>3, <2>4, <2>6, <2>8 DEF LvxInv
<1> QED
  BY <1>1, <1>2, <1>3, <1>4 DEF Lvx!Next

-----------------------------------------------------------------------------
(* The programs: each leaves the invariants of the others alone, which are *)
(* about a program that is not run.                                        *)

\* A group that arrives misses a sentence only so often: Synchro's decoder
\* recovers from any disturbance.
THEOREM LossBoundedAlways == ProgramsSpec => []LossBounded
<1> DEFINE I == program = "synchro" => SyncInv
<1>1. ProgramsInit => I
  BY SynchroInit DEF ProgramsInit
<1>2. I /\ [ProgramsNext]_vars => I'
  <2> SUFFICES ASSUME I, [ProgramsNext]_vars, program' = "synchro" PROVE SyncInv'
    OBVIOUS
  <2>1. CASE UNCHANGED vars
    <3>1. program = "synchro" /\ UNCHANGED <<held, len, due, intact, missed>>
      BY <2>1 DEF vars, alone, synchroVars
    <3> QED
      BY <3>1 DEF SyncInv, OwnHead, Behind, Begun
  <2>2. CASE ProgramsNext
    <3>1. Runs("synchro") /\ Sync!Next
      BY <2>2 DEF ProgramsNext, Runs
    <3> QED
      BY <3>1, SynchroSteps DEF Runs
  <2> QED
    BY <2>1, <2>2
<1>3. I => LossBounded
  BY SynchroBound DEF LossBounded
<1> QED
  BY <1>1, <1>2, <1>3, PTL DEF ProgramsSpec

\* However the packets of a frame fall on the boundaries of the buffer that
\* SaveFrameToLvxFile writes through, the headers in the file lead from each
\* frame to the next.
THEOREM FramesChainAlways == ProgramsSpec => []FramesChain
<1> DEFINE I == program = "lvx_file" => LvxInv
<1>1. ProgramsInit => I
  BY LvxInit DEF ProgramsInit
<1>2. I /\ [ProgramsNext]_vars => I'
  <2> SUFFICES ASSUME I, [ProgramsNext]_vars, program' = "lvx_file" PROVE LvxInv'
    OBVIOUS
  <2>1. CASE UNCHANGED vars
    <3>1. program = "lvx_file" /\ UNCHANGED <<file, described, written, offset, chain>>
      BY <2>1 DEF vars, alone, fileVars
    <3> QED
      BY <3>1 DEF LvxInv, Lvx!FramesChain
  <2>2. CASE ProgramsNext
    <3>1. Runs("lvx_file") /\ Lvx!Next
      BY <2>2 DEF ProgramsNext, Runs
    <3> QED
      BY <3>1, LvxSteps DEF Runs
  <2> QED
    BY <2>1, <2>2
<1>3. I => FramesChain
  BY DEF FramesChain, LvxInv
<1> QED
  BY <1>1, <1>2, <1>3, PTL DEF ProgramsSpec

\* UtcSync: however announcements, changes of state and disconnections come,
\* a sentence goes to exactly the devices that can use it, and none to an SDK
\* that is taken down.
THEOREM TimeReachesAllAlways == ProgramsSpec => []TimeReachesAll
<1> DEFINE I == program = "utc_sync" => UtcInv
<1>1. ProgramsInit => I
  BY UtcInit DEF ProgramsInit
<1>2. I /\ [ProgramsNext]_vars => I'
  <2> SUFFICES ASSUME I, [ProgramsNext]_vars, program' = "utc_sync" PROVE UtcInv'
    OBVIOUS
  <2>1. CASE UNCHANGED vars
    <3>1. program = "utc_sync" /\ UNCHANGED <<phase, link, work, calls, left, lidars, listener>>
      BY <2>1 DEF vars, sdkVars, utcOnly
    <3> QED
      BY <3>1 DEF UtcInv, UtcTypes, Mirrors
  <2>2. CASE ProgramsNext
    <3>1. Runs("utc_sync") /\ Utc!Next
      BY <2>2 DEF ProgramsNext, Runs
    <3> QED
      BY <3>1, UtcSteps DEF Runs
  <2> QED
    BY <2>1, <2>2
<1>3. I => TimeReachesAll
  BY UtcPromise DEF TimeReachesAll
<1> QED
  BY <1>1, <1>2, <1>3, PTL DEF ProgramsSpec

\* LidarSample: main, which stops the devices in sampling state, finds every
\* device it has started in that state or about to leave it.
THEOREM SampleStateIsTrueAlways == ProgramsSpec => []SampleStateIsTrue
<1> DEFINE I == program = "sample" => SampleInv
<1>1. ProgramsInit => I
  BY SampleInit DEF ProgramsInit
<1>2. I /\ [ProgramsNext]_vars => I'
  <2> SUFFICES ASSUME I, [ProgramsNext]_vars, program' = "sample" PROVE SampleInv'
    OBVIOUS
  <2>1. CASE UNCHANGED vars
    <3>1. program = "sample" /\ UNCHANGED <<phase, link, work, calls, sampling, devices>>
      BY <2>1 DEF vars, sdkVars
    <3> QED
      BY <3>1 DEF SampleInv, SampleTypes, Minds
  <2>2. CASE ProgramsNext
    <3>1. Runs("sample") /\ Sample!Next
      BY <2>2 DEF ProgramsNext, Runs
    <3> QED
      BY <3>1, SampleSteps DEF Runs
  <2> QED
    BY <2>1, <2>2
<1>3. I => SampleStateIsTrue
  BY DEF SampleStateIsTrue, Sample!SamplingIsTrue, SampleInv, Minds
<1> QED
  BY <1>1, <1>2, <1>3, PTL DEF ProgramsSpec

\* LvxRecorder: however the main thread's registration, the connections and
\* the answers interleave, the file's header describes every registered device
\* once, if nothing was lost.
THEOREM HeaderCompleteAlways == ProgramsSpec => []HeaderComplete
<1> DEFINE I == program = "recorder" => RecInv
<1>1. ProgramsInit => I
  BY RecInit DEF ProgramsInit
<1>2. I /\ [ProgramsNext]_vars => I'
  <2> SUFFICES ASSUME I, [ProgramsNext]_vars, program' = "recorder" PROVE RecInv'
    OBVIOUS
  <2>1. CASE UNCHANGED vars
    <3>1. /\ program = "recorder"
          /\ UNCHANGED <<phase, link, work, calls, left, devices, codes, arrived, main, next,
                         registered, infos, header>>
      BY <2>1 DEF vars, sdkVars, recorderOnly
    <3> QED
      BY <3>1 DEF RecInv, RecTypes, AddsKnown, Adding, Complete, AskedOnce, Described, Get,
         Recorder!Undisturbed
  <2>2. CASE ProgramsNext
    <3>1. Runs("recorder") /\ Recorder!Next
      BY <2>2 DEF ProgramsNext, Runs
    <3> QED
      BY <3>1, RecSteps DEF Runs
  <2> QED
    BY <2>1, <2>2
<1>3. I => HeaderComplete
  BY RecPromise DEF HeaderComplete
<1> QED
  BY <1>1, <1>2, <1>3, PTL DEF ProgramsSpec

(* LdsLidar's invariant while it runs.  Of the others only UtcSync uses    *)
(* lidars_, and never for a device that is configured or sampling.         *)
LdsAmongPrograms ==
  IF program = "lds_lidar" THEN LdsInv
  ELSE IF program = "utc_sync" THEN UtcInv
  ELSE lidars = [h \in Handles |-> Unconnected]

LEMMA LdsAmongProgramsAlways == ProgramsSpec => []LdsAmongPrograms
<1>1. ProgramsInit => LdsAmongPrograms
  BY LdsInitHolds, UtcInit DEF ProgramsInit, NoLds, LdsAmongPrograms
<1>2. LdsAmongPrograms /\ [ProgramsNext]_vars => LdsAmongPrograms'
  <2> SUFFICES ASSUME LdsAmongPrograms, [ProgramsNext]_vars PROVE LdsAmongPrograms'
    OBVIOUS
  <2>1. CASE UNCHANGED vars
    <3>1. program' = program /\ UNCHANGED ldsVars /\ UNCHANGED listener
      BY <2>1 DEF vars, ldsVars, utcOnly
    <3>2. LdsInv => LdsInv'
      BY <3>1, LdsNextHolds
    <3>3. UtcInv => UtcInv'
      BY <3>1 DEF ldsVars, sdkVars, UtcInv, UtcTypes, Mirrors
    <3>4. lidars' = lidars
      BY <3>1 DEF ldsVars
    <3> QED
      BY <3>1, <3>2, <3>3, <3>4 DEF LdsAmongPrograms
  <2>2. CASE Runs("lds_lidar") /\ Next
    BY <2>2, LdsNextHolds DEF Runs, LdsAmongPrograms
  <2>3. CASE Runs("utc_sync") /\ Utc!Next
    BY <2>3, UtcSteps DEF Runs, LdsAmongPrograms
  <2>4. CASE /\ program \notin {"lds_lidar", "utc_sync"}
             /\ program' = program /\ lidars' = lidars
    BY <2>4 DEF LdsAmongPrograms
  <2> QED
    BY <2>1, <2>2, <2>3, <2>4 DEF ProgramsNext, Runs, NotSample, NotRecorder, NotSdk
<1> QED
  BY <1>1, <1>2, PTL DEF ProgramsSpec

(* LdsLidar: a device that is configured has a command under way for each  *)
(* setting that is awaited - no setting is refused for the type of the     *)
(* device, and none that timed out is given up - whichever program runs.   *)
THEOREM AskedForEveryBitAlways == ProgramsSpec => []AskedForEveryBit
<1>1. LdsAmongPrograms => AskedForEveryBit
  BY DEF LdsAmongPrograms, LdsInv, Live, Kept, AskedForEveryBit, UtcInv, UtcTypes, Unconnected
<1> QED
  BY <1>1, LdsAmongProgramsAlways, PTL

(* LdsLidar: a device taken for sampling samples or has yet to answer the  *)
(* command that starts it, through disconnections, broadcasts and failed   *)
(* commands, whichever program runs.                                       *)
THEOREM SamplingIsTrueAlways == ProgramsSpec => []SamplingIsTrue
<1>1. LdsAmongPrograms => SamplingIsTrue
  BY DEF LdsAmongPrograms, LdsInv, Live, Kept, SamplingIsTrue, UtcInv, UtcTypes, Unconnected
<1> QED
  BY <1>1, LdsAmongProgramsAlways, PTL
=============================================================================
