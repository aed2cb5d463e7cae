------------------------------ MODULE CommandApi ------------------------------
(***************************************************************************)
(* The functions of livox_sdk.h that send a command (command_impl.cpp).    *)
(* Each of them looks at the mode the first device put the SDK in, at the  *)
(* type of the device and, twice, at its firmware, and either refuses with *)
(* kStatusNotSupported or hands CommandHandler::SendCommand one command:   *)
(* a set, an identifier and the handle it goes to.  A function is a record *)
(* of what it needs and what it sends; payloads are left out, since no     *)
(* property tells them apart.                                              *)
(***************************************************************************)
EXTENDS Naturals, Sequences

LidarTypes == {"Mid40", "Tele", "Horizon", "Mid70", "Avia"}
DeviceTypes == LidarTypes \cup {"Hub"}
DeviceModes == {"None", "Lidar", "Hub"}

(* The identifiers of the three command sets, in the order of their values. *)
GeneralCommandID ==
  <<"Broadcast", "Handshake", "DeviceInfo", "Heartbeat", "ControlSample",
    "CoordinateSystem", "Disconnect", "PushAbnormalState",
    "ConfigureStaticDynamicIp", "GetDeviceIpInformation", "RebootDevice",
    "SetDeviceParam", "GetDeviceParam", "ResetDeviceParam">>

LidarCommandID ==
  <<"SetMode", "SetExtrinsicParameter", "GetExtrinsicParameter",
    "ControlRainFogSuppression", "ControlFan", "GetFanState",
    "SetPointCloudReturnMode", "GetPointCloudReturnMode", "SetImuPushFrequency",
    "GetImuPushFrequency", "SetSyncTime">>

HubCommandID ==
  <<"QueryLidarInformation", "SetMode", "ControlSlotPower",
    "SetExtrinsicParameter", "GetExtrinsicParameter", "QueryLidarDeviceStatus",
    "ExtrinsicParameterCalculation", "RainFogSuppression", "QuerySlotPowerStatus",
    "ControlFan", "GetFanState", "SetPointCloudReturnMode",
    "GetPointCloudReturnMode", "SetImuPushFrequency", "GetImuPushFrequency">>

CommandIDs == [General |-> GeneralCommandID, Lidar |-> LidarCommandID, Hub |-> HubCommandID]

(* A function that sends command id of a set: in which modes, to which     *)
(* types of device, and whether a Mid40 needs firmware 03.07 for it.       *)
Sends(set, id, modes, types, firmware) ==
  [set |-> set, id |-> id, modes |-> modes, types |-> types, firmware |-> firmware]

Always(id) == Sends("General", id, DeviceModes, DeviceTypes, FALSE)
OnlyTo(types, id) == Sends("General", id, DeviceModes, types, FALSE)
Except(types, id) == Sends("Lidar", id, {"Lidar"}, DeviceTypes \ types, FALSE)
ThroughHub(id) == Sends("Hub", id, {"Hub"}, DeviceTypes, FALSE)

SamplingFunctions ==
  [LidarStartSampling |-> Sends("General", "ControlSample", {"Lidar"}, DeviceTypes, FALSE),
   LidarStopSampling  |-> Sends("General", "ControlSample", {"Lidar"}, DeviceTypes, FALSE),
   HubStartSampling   |-> Sends("General", "ControlSample", {"Hub"}, DeviceTypes, FALSE),
   HubStopSampling    |-> Sends("General", "ControlSample", {"Hub"}, DeviceTypes, FALSE)]

DeviceFunctions ==
  [QueryDeviceInformation |-> Always("DeviceInfo"),
   DisconnectDevice       |-> Always("Disconnect"),
   SetCartesianCoordinate |-> Always("CoordinateSystem"),
   SetSphericalCoordinate |-> Always("CoordinateSystem"),
   SetDynamicIp           |-> Always("ConfigureStaticDynamicIp"),
   SetStaticIp            |-> Always("ConfigureStaticDynamicIp"),
   SetStaticDynamicIP     |-> Always("ConfigureStaticDynamicIp"),
   GetDeviceIpInformation |-> Always("GetDeviceIpInformation"),
   RebootDevice           |-> Sends("General", "RebootDevice", DeviceModes, DeviceTypes, TRUE)]

ParameterFunctions ==
  [LidarEnableHighSensitivity   |-> OnlyTo({"Tele", "Avia"}, "SetDeviceParam"),
   LidarDisableHighSensitivity  |-> OnlyTo({"Tele", "Avia"}, "SetDeviceParam"),
   LidarGetHighSensitivityState |-> OnlyTo({"Tele", "Avia"}, "GetDeviceParam"),
   LidarSetSlotNum              |-> OnlyTo({"Mid70", "Avia"}, "SetDeviceParam"),
   LidarGetSlotNum              |-> OnlyTo({"Mid70", "Avia"}, "GetDeviceParam"),
   LidarSetScanPattern          |-> OnlyTo({"Avia"}, "SetDeviceParam"),
   LidarGetScanPattern          |-> OnlyTo({"Avia"}, "GetDeviceParam"),
   DeviceResetAllParameters     |-> OnlyTo({"Avia", "Mid70", "Tele"}, "ResetDeviceParam"),
   DeviceResetParameters        |-> OnlyTo({"Avia", "Mid70", "Tele"}, "ResetDeviceParam")]

LidarFunctions ==
  [LidarSetMode                 |-> Except({}, "SetMode"),
   LidarSetExtrinsicParameter   |-> Except({}, "SetExtrinsicParameter"),
   LidarGetExtrinsicParameter   |-> Except({}, "GetExtrinsicParameter"),
   LidarRainFogSuppress         |-> Except(DeviceTypes \ {"Mid40"}, "ControlRainFogSuppression"),
   LidarTurnOnFan               |-> Except({"Mid40", "Mid70", "Avia"}, "ControlFan"),
   LidarTurnOffFan              |-> Except({"Mid40", "Mid70", "Avia"}, "ControlFan"),
   LidarGetFanState             |-> Except({"Mid40", "Mid70", "Avia"}, "GetFanState"),
   LidarSetPointCloudReturnMode |-> Except({"Mid40"}, "SetPointCloudReturnMode"),
   LidarGetPointCloudReturnMode |-> Except({"Mid40"}, "GetPointCloudReturnMode"),
   LidarSetImuPushFrequency     |-> Except({"Mid40", "Mid70"}, "SetImuPushFrequency"),
   LidarGetImuPushFrequency     |-> Except({"Mid40", "Mid70"}, "GetImuPushFrequency")]

HubFunctions ==
  [HubQueryLidarInformation |-> ThroughHub("QueryLidarInformation"),
   HubSetMode               |-> ThroughHub("SetMode"),
   HubControlSlotPower      |-> ThroughHub("ControlSlotPower"),
   HubSetExtrinsicParameter |-> ThroughHub("SetExtrinsicParameter"),
   HubGetExtrinsicParameter |-> ThroughHub("GetExtrinsicParameter"),
   HubQueryLidarStatus      |-> ThroughHub("QueryLidarDeviceStatus"),
   HubExtrinsicParameterCalculation |-> ThroughHub("ExtrinsicParameterCalculation")]

HubUnitFunctions ==
  [HubRainFogSuppress         |-> ThroughHub("RainFogSuppression"),
   HubQuerySlotPowerStatus    |-> ThroughHub("QuerySlotPowerStatus"),
   HubFanControl              |-> ThroughHub("ControlFan"),
   HubGetFanState             |-> ThroughHub("GetFanState"),
   HubSetPointCloudReturnMode |-> ThroughHub("SetPointCloudReturnMode"),
   HubGetPointCloudReturnMode |-> ThroughHub("GetPointCloudReturnMode"),
   HubSetImuPushFrequency     |-> ThroughHub("SetImuPushFrequency"),
   HubGetImuPushFrequency     |-> ThroughHub("GetImuPushFrequency")]

SyncFunctions ==
  [LidarSetUtcSyncTime |-> Sends("Lidar", "SetSyncTime", DeviceModes, DeviceTypes, FALSE),
   LidarSetRmcSyncTime |-> Sends("Lidar", "SetSyncTime", {"Lidar"}, DeviceTypes, TRUE)]

FunctionGroups ==
  {SamplingFunctions, DeviceFunctions, ParameterFunctions, LidarFunctions,
   HubFunctions, HubUnitFunctions, SyncFunctions}

Functions ==
  [f \in UNION {DOMAIN g : g \in FunctionGroups} |->
     (CHOOSE g \in FunctionGroups : f \in DOMAIN g)[f]]

(* Function f sends its command to a device of the type, in the mode, with *)
(* the firmware (TRUE from version 03.07 on).  SetStaticDynamicIP is the   *)
(* one whose needs do not multiply out: in LiDAR mode only a Mid40.        *)
Accepts(f, mode, type, firmware) ==
  /\ mode \in Functions[f].modes
  /\ type \in Functions[f].types
  /\ Functions[f].firmware /\ type = "Mid40" => firmware
  /\ f = "SetStaticDynamicIP" /\ mode = "Lidar" => type = "Mid40"

(* Where it goes: hub functions take no handle and use kHubDefaultHandle. *)
Destination(f, handle, hub) ==
  IF Functions[f].modes = {"Hub"} THEN hub ELSE handle

(* HubGetLidarHandle: the handle of a LiDAR in one of the hub's slots.     *)
HubGetLidarHandle(slot, id) == ((slot - 1) * 3 + id - 1) % 256

(* GetCommandTimeout indexes one table per set by the identifier, and its  *)
(* assertion compares with the table's size in bytes, twice its length.    *)
(* Every command the functions send has an entry of its own.               *)
GetCommandTimeoutDefined(set, id) == \E i \in DOMAIN CommandIDs[set] : CommandIDs[set][i] = id

ASSUME EveryCommandIsTimed ==
  \A f \in DOMAIN Functions : GetCommandTimeoutDefined(Functions[f].set, Functions[f].id)
===============================================================================
