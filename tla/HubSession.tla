------------------------------ MODULE HubSession ------------------------------
(***************************************************************************)
(* The SDK in hub mode: one hub with its channel and data socket, and the  *)
(* LiDARs behind it, which DeviceManager learns of by a query that it      *)
(* sends when the hub is found and when the hub says that they changed.    *)
(* The program's callbacks belong to modules that extend this one; each    *)
(* step here leaves phase and calls to the callback that runs with it.     *)
(* Commands are answered once or time out (CommandChannel), callbacks run  *)
(* on the IO thread.  The sockets are taken to be created: what a failure  *)
(* does to a session is in Connection.                                     *)
(***************************************************************************)
EXTENDS CommandApi, SequencesExt

CONSTANTS
  Units,      \* the LiDARs that may be plugged into the hub
  TypeOf,     \* Units -> LidarTypes
  Hub,        \* kHubDefaultHandle
  MaxShakes,  \* bound: handshakes under way at a time
  MaxEvents,  \* bound: units plugged and unplugged, losses of state and of the hub
  MaxFaults   \* bound: lost or refused commands and queries, lost pushes, late broadcasts

ASSUME UnitsAssumption == IsFiniteSet(Units) /\ TypeOf \in [Units -> LidarTypes]
ASSUME HubAssumption == Hub \notin Units
ASSUME HubBoundsAssumption == MaxShakes \in Nat /\ MaxEvents \in Nat /\ MaxFaults \in Nat

VARIABLES
  phase,      \* where the program's main function is
  listed,     \* the table names the hub
  shaking,    \* connecting_devices_: handshakes under way
  connected,  \* the table's connected flags
  valid,      \* is_valid_ of the two hub handlers: there is a channel
  work,       \* info.state of the hub in the table; Init stands for all but Normal
  queries,    \* DeviceManager's queries, unanswered, in the order they were sent
  told,       \* history: what became of the last query, see Tells
  plugged,    \* external: the units in the hub
  sampling,   \* external: the hub samples
  calls,      \* the program's commands, not called back: [HubAsked -> Nat]
  left        \* what remains of the two bounds

tableVars == <<listed, shaking, connected, valid, work>>
queryVars == <<queries, told, plugged>>
hubVars == <<phase, tableVars, queryVars, sampling, calls, left>>

HubAsked == {"HubQueryLidarInformation", "HubGetExtrinsicParameter", "HubStartSampling",
             "HubStopSampling", "HubSetPointCloudReturnMode", "HubSetImuPushFrequency",
             "SetCartesianCoordinate"}

Works == {"Init", "Normal"}
NoCalls == [f \in HubAsked |-> 0]
Up == phase \in {"starting", "running", "stopping"}
Query == [read |-> FALSE, units |-> {}]

(* What the table owes to the queries.  The last one sent is under way;    *)
(* its answer was the last that was taken; or the table was left behind:   *)
(* by a push that was lost, by an answer to an older query that came after *)
(* it, by a refusal, or by a query that timed out and was not repeated.    *)
Tells == {"asked", "answered", "behind"}

HubInit ==
  /\ phase = "off"
  /\ listed = FALSE /\ shaking = 0 /\ connected = {} /\ valid = FALSE /\ work = "Init"
  /\ queries = <<>> /\ told = "behind" /\ plugged \in SUBSET Units
  /\ sampling = FALSE /\ calls = NoCalls
  /\ left = [events |-> MaxEvents, faults |-> MaxFaults]

Spent(b) == [left EXCEPT ![b] = @ - 1]

(* c with the functions fs called; without a channel SendCommand refuses.  *)
Issue(c, fs) ==
  [f \in HubAsked |->
     c[f] + (IF f \in fs /\ valid /\ Accepts(f, "Hub", "Hub", TRUE) THEN 1 ELSE 0)]

(***************************************************************************)
(* Discovery and the table.                                                *)
(***************************************************************************)

(* A broadcast of the hub.  The program's callback comes first, and may    *)
(* add the hub: AddListeningDevice clears its connected flag, whatever     *)
(* session there is.  Then a listed hub that is not connected is offered a *)
(* handshake.  A hub in session does not broadcast, but a datagram may     *)
(* still be in the socket.                                                 *)
Broadcasts(adds) ==
  LET known == listed \/ adds
      flags == IF adds THEN connected \ {Hub} ELSE connected
  IN /\ Up
     /\ IF valid THEN left.faults > 0 /\ left' = Spent("faults") ELSE UNCHANGED left
     /\ listed' = known /\ connected' = flags
     /\ shaking' = IF known /\ Hub \notin flags /\ shaking < MaxShakes
                   THEN shaking + 1 ELSE shaking
     /\ UNCHANGED <<valid, work, queryVars, sampling>>

(* DeviceFound: the table's entry is replaced, the handlers refuse a hub   *)
(* they already have, and the manager asks for the units in either case.   *)
DeviceFound ==
  /\ connected' = connected \cup {Hub} /\ work' = "Init" /\ valid' = TRUE
  /\ queries' = Append(queries, Query) /\ told' = "asked"

HandshakeAck ==
  /\ Up /\ shaking > 0 /\ shaking' = shaking - 1
  /\ DeviceFound
  /\ UNCHANGED <<phase, listed, plugged, sampling, calls, left>>

HandshakeExpires ==
  /\ Up /\ shaking > 0 /\ shaking' = shaking - 1
  /\ UNCHANGED <<phase, listed, connected, valid, work, queryVars, sampling, calls, left>>

(* UpdateDeviceState, from a heartbeat: the program is told only when the  *)
(* hub's flag is set. *)
ChangesState(w) ==
  /\ Up /\ valid /\ w # work
  /\ IF w = "Normal" THEN UNCHANGED left ELSE left.events > 0 /\ left' = Spent("events")
  /\ work' = w
  /\ UNCHANGED <<phase, listed, shaking, connected, valid, queryVars, sampling>>

(* DeviceRemove in hub mode: no flag stays, and the channel goes with its  *)
(* commands. *)
HubRemoved ==
  /\ Up /\ valid /\ left.events > 0 /\ left' = Spent("events")
  /\ connected' = {} /\ valid' = FALSE
  /\ queries' = <<>> /\ told' = "behind"
  /\ sampling' = FALSE /\ calls' = NoCalls
  /\ UNCHANGED <<phase, listed, shaking, work, plugged>>

(***************************************************************************)
(* The units.                                                              *)
(***************************************************************************)

(* External: the hub executes a query. *)
HubExecutes ==
  /\ Up
  /\ \E i \in DOMAIN queries :
       /\ ~queries[i].read
       /\ queries' = [queries EXCEPT ![i] = [read |-> TRUE, units |-> plugged]]
  /\ UNCHANGED <<phase, tableVars, told, plugged, sampling, calls, left>>

(* The last query sent is the one that is answered, or no longer awaited.  *)
IsLast(i) == told = "asked" /\ i = Len(queries)

(* HubLidarInfomationCallback with an answer, which is                     *)
(* kEventHubConnectionChange.  Answers come in any order; the code of the  *)
(* response is not looked at, so that a refusal gives what list it holds.  *)
QueryAnswered ==
  /\ Up
  /\ \E i \in DOMAIN queries :
       /\ queries[i].read
       /\ \/ /\ connected' = (connected \cap {Hub}) \cup queries[i].units
             /\ told' = IF IsLast(i) THEN "answered" ELSE IF told = "asked" THEN told ELSE "behind"
             /\ UNCHANGED left
          \/ /\ left.faults > 0 /\ left' = Spent("faults")
             /\ \E us \in SUBSET Units : connected' = (connected \cap {Hub}) \cup us
             /\ told' = IF told = "asked" /\ ~IsLast(i) THEN told ELSE "behind"
       /\ queries' = RemoveAt(queries, i)
  /\ UNCHANGED <<phase, listed, shaking, valid, work, plugged, sampling>>

\* Mutant: a query that timed out is not sent again.
TimesOut_Dropped(i) ==
  /\ queries' = RemoveAt(queries, i)
  /\ UNCHANGED told

(* ... and with kStatusTimeout: it is sent again to a connected hub. *)
TimesOut(i) ==
  IF Hub \in connected
  THEN queries' = Append(RemoveAt(queries, i), Query) /\ told' = "asked"
  ELSE /\ queries' = RemoveAt(queries, i)
       /\ told' = IF IsLast(i) THEN "behind" ELSE told

QueryTimesOut ==
  /\ Up /\ left.faults > 0 /\ left' = Spent("faults")
  /\ \E i \in DOMAIN queries : TimesOut(i)
  /\ UNCHANGED <<phase, tableVars, plugged, sampling, calls>>

(* A unit is plugged or unplugged, and the hub pushes an abnormal state    *)
(* (IsSubLidarException): OnSubLidarDisconnect has the manager ask again.  *)
UnitsChange ==
  /\ Up /\ left.events > 0
  /\ \E u \in Units : plugged' \in {plugged \cup {u}, plugged \ {u}} \ {plugged}
  /\ \/ /\ valid /\ left' = Spent("events")
        /\ queries' = Append(queries, Query) /\ told' = "asked"
     \/ /\ ~valid /\ left' = Spent("events") /\ UNCHANGED <<queries, told>>
     \/ /\ valid /\ left.faults > 0
        /\ left' = [events |-> left.events - 1, faults |-> left.faults - 1]
        /\ told' = "behind" /\ UNCHANGED queries
  /\ UNCHANGED <<phase, tableVars, sampling, calls>>

(***************************************************************************)
(* The program's commands.                                                 *)
(***************************************************************************)
Executed(f) ==
  CASE f = "HubStartSampling" -> TRUE [] f = "HubStopSampling" -> FALSE [] OTHER -> sampling

Outcomes == {"ok", "refused", "timeout"}

Answers(f, outcome) ==
  /\ Up /\ calls[f] > 0
  /\ \/ /\ outcome = "ok"
        /\ sampling' = Executed(f) /\ UNCHANGED left
     \/ /\ outcome = "refused" /\ left.faults > 0
        /\ left' = Spent("faults") /\ UNCHANGED sampling
     \/ /\ outcome = "timeout" /\ left.faults > 0
        /\ left' = Spent("faults") /\ sampling' \in {sampling, Executed(f)}
  /\ UNCHANGED <<phase, tableVars, queryVars>>

Settled(f) == [calls EXCEPT ![f] = @ - 1]

Uninits ==
  /\ phase' = "done" /\ calls' = NoCalls
  /\ sampling' \in {sampling} \cup {Executed(f) : f \in {g \in HubAsked : calls[g] > 0}}
  /\ UNCHANGED <<tableVars, queryVars, left>>

(* What the hub and the manager do without a callback of the program. *)
Quiet == HandshakeAck \/ HandshakeExpires \/ HubExecutes \/ QueryTimesOut \/ UnitsChange

(***************************************************************************)
(* Properties                                                              *)
(***************************************************************************)
HubTypeOK ==
  /\ phase \in {"off", "starting", "running", "stopping", "done", "crashed"}
  /\ listed \in BOOLEAN /\ shaking \in 0..MaxShakes
  /\ connected \subseteq Units \cup {Hub} /\ valid \in BOOLEAN /\ work \in Works
  /\ queries \in Seq([read : BOOLEAN, units : SUBSET Units])
  /\ told \in Tells /\ plugged \subseteq Units
  /\ sampling \in BOOLEAN /\ calls \in [HubAsked -> Nat]
  /\ left \in [events : 0..MaxEvents, faults : 0..MaxFaults]

(* When no query is under way, or the last one sent was the last to be     *)
(* answered, the table of a connected hub names exactly the units in it:   *)
(* through losses of the hub, late broadcasts that clear its flag, units   *)
(* that change while a query is under way, queries that time out, answers  *)
(* that overtake each other and refusals, all as long as one more query is *)
(* sent after them.  The table of a connected hub is left behind by a lost *)
(* push, by an answer that comes after that of a newer query, and by a     *)
(* refusal, when no query follows.                                         *)
UnitsTold ==
  Up /\ valid /\ Hub \in connected /\ told # "behind" /\ (queries = <<>> \/ told = "answered") =>
    connected \ {Hub} = plugged
===============================================================================
