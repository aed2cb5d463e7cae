--------------------------- MODULE HubPrograms_proof ---------------------------
(***************************************************************************)
(* What the hub's session and the programs for a hub promise, for every    *)
(* set of units and whatever the bounds.                                   *)
(***************************************************************************)
EXTENDS HubPrograms, TLAPS

(***************************************************************************)
(* The functions of the SDK.                                               *)
(***************************************************************************)

(* A function is what its group says it is. *)
LEMMA FunctionOf ==
  ASSUME NEW g \in FunctionGroups, NEW f \in DOMAIN g,
         \A k \in FunctionGroups : f \in DOMAIN k => k = g
  PROVE  Functions[f] = g[f]
BY DEF Functions

(* HubStartSampling is sent to a hub in hub mode. *)
LEMMA StartAccepted == Accepts("HubStartSampling", "Hub", "Hub", TRUE)
<1> DEFINE f == "HubStartSampling"
<1>1. f \in DOMAIN SamplingFunctions
  BY DEF SamplingFunctions
<1>2. SamplingFunctions[f] = Sends("General", "ControlSample", {"Hub"}, DeviceTypes, FALSE)
  BY DEF SamplingFunctions
<1>3. f \notin DOMAIN DeviceFunctions
  BY DEF DeviceFunctions
<1>4. f \notin DOMAIN ParameterFunctions
  BY DEF ParameterFunctions
<1>5. f \notin DOMAIN LidarFunctions
  BY DEF LidarFunctions
<1>6. f \notin DOMAIN HubFunctions
  BY DEF HubFunctions
<1>7. f \notin DOMAIN HubUnitFunctions
  BY DEF HubUnitFunctions
<1>8. f \notin DOMAIN SyncFunctions
  BY DEF SyncFunctions
<1>9. f # "SetStaticDynamicIP"
  OBVIOUS
<1> HIDE DEF f
<1>10. SamplingFunctions \in FunctionGroups
  BY DEF FunctionGroups
<1>11. \A k \in FunctionGroups : f \in DOMAIN k => k = SamplingFunctions
  BY <1>3, <1>4, <1>5, <1>6, <1>7, <1>8 DEF FunctionGroups
<1>12. Functions[f] = SamplingFunctions[f]
  BY <1>1, <1>10, <1>11, FunctionOf
<1>13. Functions[f].modes = {"Hub"} /\ Functions[f].types = DeviceTypes /\ Functions[f].firmware = FALSE
  BY <1>2, <1>12 DEF Sends
<1>14. Accepts(f, "Hub", "Hub", TRUE)
  BY <1>9, <1>13 DEF Accepts, DeviceTypes
<1> QED
  BY <1>14 DEF f

(***************************************************************************)
(* Commands and queries.                                                   *)
(***************************************************************************)
CallsType == [HubAsked -> Nat]
QueryType == [read : BOOLEAN, units : SUBSET Units]

(* Issuing commands adds to those that are under way. *)
LEMMA IssueType ==
  ASSUME NEW c \in CallsType, NEW fs
  PROVE  Issue(c, fs) \in CallsType
<1> DEFINE sent(f) == f \in fs /\ valid /\ Accepts(f, "Hub", "Hub", TRUE)
<1>1. ASSUME NEW f \in HubAsked
      PROVE  c[f] + (IF sent(f) THEN 1 ELSE 0) \in Nat
  <2>1. c[f] \in Nat
    BY DEF CallsType
  <2> HIDE DEF sent
  <2> QED
    BY <2>1
<1> QED
  BY <1>1 DEF Issue, CallsType

LEMMA IssueKeeps ==
  ASSUME NEW c \in CallsType, NEW fs, NEW f \in HubAsked, f \notin fs
  PROVE  Issue(c, fs)[f] = c[f]
BY DEF Issue, CallsType

LEMMA IssueGrows ==
  ASSUME NEW c \in CallsType, NEW fs, NEW f \in HubAsked
  PROVE  Issue(c, fs)[f] >= c[f]
<1> DEFINE sent == f \in fs /\ valid /\ Accepts(f, "Hub", "Hub", TRUE)
<1>1. c[f] \in Nat
  BY DEF CallsType
<1>2. Issue(c, fs)[f] = c[f] + (IF sent THEN 1 ELSE 0)
  BY DEF Issue
<1> HIDE DEF sent
<1> QED
  BY <1>1, <1>2

LEMMA StartIssued ==
  ASSUME NEW c \in CallsType, valid
  PROVE  Issue(c, {"HubStartSampling"})["HubStartSampling"] > 0
<1>1. "HubStartSampling" \in HubAsked
  BY DEF HubAsked
<1>2. c["HubStartSampling"] \in Nat
  BY <1>1 DEF CallsType
<1>3. Issue(c, {"HubStartSampling"})["HubStartSampling"] = c["HubStartSampling"] + 1
  BY <1>1, StartAccepted DEF Issue
<1> QED
  BY <1>2, <1>3

(* A command that is called back is no longer under way. *)
LEMMA SettledType ==
  ASSUME calls \in CallsType, NEW f \in HubAsked, calls[f] > 0
  PROVE  /\ Settled(f) \in CallsType
         /\ \A g \in HubAsked : g # f => Settled(f)[g] = calls[g]
BY DEF Settled, CallsType

LEMMA NoCallsType == NoCalls \in CallsType /\ \A f \in HubAsked : NoCalls[f] = 0
BY DEF NoCalls, CallsType

(* A sequence, one element of which is removed. *)
LEMMA Removal ==
  ASSUME NEW S, NEW s \in Seq(S), NEW i \in 1..Len(s)
  PROVE  /\ RemoveAt(s, i) \in Seq(S)
         /\ Len(RemoveAt(s, i)) = Len(s) - 1
         /\ i # Len(s) => RemoveAt(s, i)[Len(s) - 1] = s[Len(s)]
<1> DEFINE before == SubSeq(s, 1, i - 1)
           after == SubSeq(s, i + 1, Len(s))
<1>1. Len(s) \in Nat /\ i \in Nat /\ 1 <= i /\ i <= Len(s)
  OBVIOUS
<1>2. before \in Seq(S) /\ Len(before) = i - 1
  BY <1>1
<1>3. /\ after \in Seq(S) /\ Len(after) = Len(s) - i
      /\ i # Len(s) => after[Len(s) - i] = s[Len(s)]
  BY <1>1
<1>4. RemoveAt(s, i) = before \o after
  BY DEF RemoveAt
<1> HIDE DEF before, after
<1>5. RemoveAt(s, i) \in Seq(S) /\ Len(RemoveAt(s, i)) = Len(s) - 1
  <2>1. before \o after \in Seq(S) /\ Len(before \o after) = Len(before) + Len(after)
    BY <1>2, <1>3
  <2>2. (i - 1) + (Len(s) - i) = Len(s) - 1
    BY <1>1
  <2> QED
    BY <1>2, <1>3, <1>4, <2>1, <2>2
<1>6. ASSUME i # Len(s)  PROVE RemoveAt(s, i)[Len(s) - 1] = s[Len(s)]
  <2>1. (before \o after)[Len(s) - 1] = after[Len(s) - i]
    BY <1>1, <1>2, <1>3, <1>6
  <2> QED
    BY <1>3, <1>4, <1>6, <2>1
<1> QED
  BY <1>5, <1>6

LEMMA EmptyType == <<>> \in Seq(QueryType)
OBVIOUS

LEMMA QueryIsUnread == Query \in QueryType /\ ~Query.read
BY DEF Query, QueryType

(* Queries are appended, ... *)
LEMMA AppendQuery ==
  ASSUME NEW s \in Seq(QueryType)
  PROVE  /\ Append(s, Query) \in Seq(QueryType) /\ Append(s, Query) # <<>>
         /\ Append(s, Query)[Len(Append(s, Query))] = Query
BY QueryIsUnread

(* ... answered in any order ... *)
LEMMA RemoveQuery ==
  ASSUME queries \in Seq(QueryType), NEW i \in DOMAIN queries
  PROVE  /\ RemoveAt(queries, i) \in Seq(QueryType)
         /\ queries # <<>> /\ queries[i] \in QueryType
         /\ i # Len(queries) =>
              /\ RemoveAt(queries, i) # <<>>
              /\ RemoveAt(queries, i)[Len(RemoveAt(queries, i))] = queries[Len(queries)]
<1>1. i \in 1..Len(queries) /\ Len(queries) \in Nat
  OBVIOUS
<1> DEFINE rest == RemoveAt(queries, i)
<1>2. /\ rest \in Seq(QueryType) /\ Len(rest) = Len(queries) - 1
      /\ i # Len(queries) => rest[Len(queries) - 1] = queries[Len(queries)]
  BY <1>1, Removal
<1> HIDE DEF rest
<1>3. queries # <<>> /\ queries[i] \in QueryType
  BY <1>1
<1>4. ASSUME i # Len(queries)  PROVE rest # <<>>
  BY <1>1, <1>2, <1>4
<1> QED
  BY <1>2, <1>3, <1>4 DEF rest

(* ... and executed by the hub. *)
LEMMA ExecuteQuery ==
  ASSUME NEW s \in Seq(QueryType), NEW i \in DOMAIN s, NEW q \in QueryType
  PROVE  /\ [s EXCEPT ![i] = q] \in Seq(QueryType)
         /\ [s EXCEPT ![i] = q] # <<>>
         /\ Len([s EXCEPT ![i] = q]) = Len(s)
         /\ [s EXCEPT ![i] = q][Len(s)] = IF i = Len(s) THEN q ELSE s[Len(s)]
OBVIOUS

(***************************************************************************)
(* The invariant.  Without a channel the table is empty and nothing is     *)
(* asked.  While the last query is awaited it, once the hub has read it,   *)
(* holds the units as they are; when its answer was the last, the table    *)
(* does.                                                                   *)
(***************************************************************************)
Unbound == ~valid => queries = <<>> /\ connected = {}
LastIsFresh ==
  told = "asked" =>
    /\ queries # <<>>
    /\ queries[Len(queries)].read => queries[Len(queries)].units = plugged
TableIsFresh == told = "answered" /\ Hub \in connected => connected \ {Hub} = plugged

(* A session whose flag was cleared has its state set back, and only main  *)
(* stops the hub.  Then a state that says the hub samples is true when no  *)
(* query is under way. *)
ClearedIsBack == valid /\ Hub \notin connected => devices.state # "Sampling"
StopIsLast == phase # "stopping" => calls["HubStopSampling"] = 0
StateIsTrue ==
  phase \in {"off", "running"} /\ valid /\ queries = <<>> /\ devices.state = "Sampling" =>
    sampling \/ calls["HubStartSampling"] > 0

(***************************************************************************)
(* What the steps of the session do to the table and the queries.  The     *)
(* table's part of the state is handled once for the steps that leave it   *)
(* alone.                                                                  *)
(***************************************************************************)
Table == /\ listed \in BOOLEAN /\ shaking \in 0..MaxShakes
         /\ connected \subseteq Units \cup {Hub} /\ valid \in BOOLEAN /\ work \in Works
Queries == queries \in Seq(QueryType) /\ told \in Tells /\ plugged \subseteq Units
Rest == /\ phase \in {"off", "starting", "running", "stopping", "done", "crashed"}
        /\ sampling \in BOOLEAN /\ calls \in CallsType
        /\ left \in [events : 0..MaxEvents, faults : 0..MaxFaults]

LEMMA HubTypeParts == HubTypeOK <=> Table /\ Queries /\ Rest
BY DEF HubTypeOK, Table, Queries, Rest, QueryType, CallsType

Fresh == Unbound /\ LastIsFresh /\ TableIsFresh

(* A bound that is used up stays a bound. *)
LEMMA SpentType ==
  ASSUME left \in [events : 0..MaxEvents, faults : 0..MaxFaults],
         NEW b \in {"events", "faults"}, left[b] > 0
  PROVE  Spent(b) \in [events : 0..MaxEvents, faults : 0..MaxFaults]
BY HubBoundsAssumption DEF Spent

LEMMA BroadcastFresh ==
  ASSUME Table, Queries, Fresh, NEW adds \in BOOLEAN, Broadcasts(adds)
  PROVE  Table' /\ Queries' /\ Fresh'
<1> USE HubBoundsAssumption
<1>1. Table'
  BY DEF Table, Broadcasts
<1>2. Queries' /\ valid' = valid /\ connected' \in {connected, connected \ {Hub}}
  BY DEF Queries, Broadcasts, queryVars
<1>3. Fresh'
  BY <1>2 DEF Fresh, Unbound, LastIsFresh, TableIsFresh, Broadcasts, queryVars
<1> QED
  BY <1>1, <1>2, <1>3

LEMMA ShakeFresh ==
  ASSUME Table, Queries, Fresh, HandshakeAck
  PROVE  Table' /\ Queries' /\ Fresh'
<1> USE HubBoundsAssumption
<1>1. Table'
  BY DEF Table, HandshakeAck, DeviceFound, Works
<1>2. Queries'
  BY AppendQuery DEF Queries, HandshakeAck, DeviceFound, Tells
<1>3. queries' # <<>> /\ queries'[Len(queries')] = Query
  BY AppendQuery DEF Queries, HandshakeAck, DeviceFound
<1>4. valid' = TRUE /\ told' = "asked"
  BY DEF HandshakeAck, DeviceFound
<1>5. Unbound' /\ LastIsFresh' /\ TableIsFresh'
  BY <1>3, <1>4, QueryIsUnread DEF Unbound, LastIsFresh, TableIsFresh
<1> QED
  BY <1>1, <1>2, <1>5 DEF Fresh

LEMMA ExpireFresh ==
  ASSUME Table, Queries, Fresh, HandshakeExpires
  PROVE  Table' /\ Queries' /\ Fresh'
<1> USE HubBoundsAssumption
<1>1. Table'
  BY DEF Table, HandshakeExpires
<1>2. Queries' /\ Fresh'
  BY DEF Queries, Fresh, Unbound, LastIsFresh, TableIsFresh, HandshakeExpires, queryVars
<1> QED
  BY <1>1, <1>2

LEMMA StateFresh ==
  ASSUME Table, Queries, Fresh, NEW w \in Works, ChangesState(w)
  PROVE  Table' /\ Queries' /\ Fresh'
<1>1. Table'
  BY DEF Table, ChangesState
<1>2. Queries' /\ Fresh'
  BY DEF Queries, Fresh, Unbound, LastIsFresh, TableIsFresh, ChangesState, queryVars
<1> QED
  BY <1>1, <1>2

LEMMA RemovedFresh ==
  ASSUME Table, Queries, Fresh, HubRemoved
  PROVE  Table' /\ Queries' /\ Fresh'
<1>1. Table'
  BY DEF Table, HubRemoved
<1>2. Queries'
  BY EmptyType DEF Queries, HubRemoved, Tells
<1>3. Fresh'
  BY DEF Fresh, Unbound, LastIsFresh, TableIsFresh, HubRemoved
<1> QED
  BY <1>1, <1>2, <1>3

LEMMA ExecuteFresh ==
  ASSUME Table, Queries, Fresh, HubExecutes
  PROVE  Table' /\ Queries' /\ Fresh'
<1>1. Table'
  BY DEF Table, HubExecutes, tableVars
<1>2. PICK i \in DOMAIN queries : queries' = [queries EXCEPT ![i] = [read |-> TRUE, units |-> plugged]]
  BY DEF HubExecutes
<1>3. plugged' = plugged /\ told' = told /\ valid' = valid /\ connected' = connected
  BY DEF HubExecutes, tableVars
<1> DEFINE q == [read |-> TRUE, units |-> plugged]
<1>4. q \in QueryType /\ q.units = plugged
  BY DEF Queries, QueryType
<1> HIDE DEF q
<1>5. queries' = [queries EXCEPT ![i] = q]
  BY <1>2 DEF q
<1>6. /\ queries' \in Seq(QueryType) /\ queries' # <<>> /\ Len(queries') = Len(queries)
      /\ queries'[Len(queries)] = IF i = Len(queries) THEN q ELSE queries[Len(queries)]
  BY <1>4, <1>5, ExecuteQuery DEF Queries
<1>7. queries # <<>>
  BY <1>2
<1>8. Queries'
  BY <1>3, <1>6 DEF Queries
<1>9. Unbound' /\ TableIsFresh'
  BY <1>3, <1>6, <1>7 DEF Fresh, Unbound, TableIsFresh
<1>10. LastIsFresh'
  BY <1>3, <1>4, <1>6, <1>7 DEF Fresh, LastIsFresh
<1> QED
  BY <1>1, <1>8, <1>9, <1>10 DEF Fresh

LEMMA AnsweredFresh ==
  ASSUME Table, Queries, Fresh, QueryAnswered
  PROVE  Table' /\ Queries' /\ Fresh'
<1>1. PICK i \in DOMAIN queries :
        /\ queries[i].read /\ queries' = RemoveAt(queries, i)
        /\ \/ /\ connected' = (connected \cap {Hub}) \cup queries[i].units
              /\ told' = IF IsLast(i) THEN "answered" ELSE IF told = "asked" THEN told ELSE "behind"
           \/ /\ \E us \in SUBSET Units : connected' = (connected \cap {Hub}) \cup us
              /\ told' = IF told = "asked" /\ ~IsLast(i) THEN told ELSE "behind"
  BY DEF QueryAnswered
<1>2. UNCHANGED <<listed, shaking, valid, work, plugged>>
  BY DEF QueryAnswered
<1>3. queries # <<>> /\ queries[i] \in QueryType /\ queries' \in Seq(QueryType)
  BY <1>1, RemoveQuery DEF Queries
<1>4. told' \in Tells
  BY <1>1 DEF Queries, Tells
<1>5. queries[i].units \subseteq Units
  BY <1>3 DEF QueryType
<1>6. PICK us \in SUBSET Units : connected' = (connected \cap {Hub}) \cup us
  BY <1>1, <1>5
<1>7. Table' /\ Queries'
  BY <1>2, <1>3, <1>4, <1>6 DEF Table, Queries
<1>8. Unbound'
  BY <1>2, <1>3 DEF Fresh, Unbound
<1>9. LastIsFresh'
  <2> SUFFICES ASSUME told' = "asked"
               PROVE  /\ queries' # <<>>
                      /\ queries'[Len(queries')].read => queries'[Len(queries')].units = plugged'
    BY DEF LastIsFresh
  <2>1. told = "asked" /\ i # Len(queries)
    BY <1>1 DEF IsLast
  <2>2. queries' # <<>> /\ queries'[Len(queries')] = queries[Len(queries)]
    BY <1>1, <2>1, RemoveQuery DEF Queries
  <2> QED
    BY <1>2, <2>1, <2>2 DEF Fresh, LastIsFresh
<1>10. TableIsFresh'
  <2> SUFFICES ASSUME told' = "answered" PROVE connected' \ {Hub} = plugged'
    BY DEF TableIsFresh
  <2>1. IsLast(i) /\ connected' = (connected \cap {Hub}) \cup queries[i].units
    BY <1>1
  <2>2. queries[i].units = plugged
    BY <1>1, <2>1 DEF Fresh, LastIsFresh, IsLast
  <2> QED
    BY <1>2, <1>5, <2>1, <2>2, HubAssumption
<1> QED
  BY <1>7, <1>8, <1>9, <1>10 DEF Fresh

LEMMA TimesOutFresh ==
  ASSUME Table, Queries, Fresh, QueryTimesOut
  PROVE  Table' /\ Queries' /\ Fresh'
<1>1. PICK i \in DOMAIN queries : TimesOut(i)
  BY DEF QueryTimesOut
<1>2. valid' = valid /\ connected' = connected /\ plugged' = plugged
  BY DEF QueryTimesOut, tableVars
<1>3. Table'
  BY DEF Table, QueryTimesOut, tableVars
<1>4. RemoveAt(queries, i) \in Seq(QueryType) /\ queries # <<>>
  BY RemoveQuery DEF Queries
<1>5. CASE Hub \in connected
  <2>1. queries' = Append(RemoveAt(queries, i), Query) /\ told' = "asked"
    BY <1>1, <1>5 DEF TimesOut
  <2>2. queries' \in Seq(QueryType) /\ queries' # <<>> /\ queries'[Len(queries')] = Query
    BY <1>4, <2>1, AppendQuery
  <2> QED
    BY <1>2, <1>3, <1>4, <2>1, <2>2, QueryIsUnread
    DEF Queries, Fresh, Unbound, LastIsFresh, TableIsFresh, Tells
<1>6. CASE Hub \notin connected
  <2>1. queries' = RemoveAt(queries, i) /\ told' = IF IsLast(i) THEN "behind" ELSE told
    BY <1>1, <1>6 DEF TimesOut
  <2>2. Queries' /\ Unbound' /\ TableIsFresh'
    BY <1>2, <1>4, <1>6, <2>1 DEF Queries, Tells, Fresh, Unbound, TableIsFresh
  <2>3. LastIsFresh'
    <3> SUFFICES ASSUME told' = "asked"
                 PROVE  /\ queries' # <<>>
                        /\ queries'[Len(queries')].read => queries'[Len(queries')].units = plugged'
      BY DEF LastIsFresh
    <3>1. told = "asked" /\ i # Len(queries)
      BY <2>1 DEF IsLast
    <3>2. queries' # <<>> /\ queries'[Len(queries')] = queries[Len(queries)]
      BY <2>1, <3>1, RemoveQuery DEF Queries
    <3> QED
      BY <1>2, <3>1, <3>2 DEF Fresh, LastIsFresh
  <2> QED
    BY <1>3, <2>2, <2>3 DEF Fresh
<1> QED
  BY <1>5, <1>6

LEMMA ChangeFresh ==
  ASSUME Table, Queries, Fresh, UnitsChange
  PROVE  Table' /\ Queries' /\ Fresh'
<1>1. Table' /\ valid' = valid /\ connected' = connected
  BY DEF Table, UnitsChange, tableVars
<1>2. plugged' \subseteq Units
  BY DEF Queries, UnitsChange
<1>3. CASE valid /\ told' = "asked" /\ queries' = Append(queries, Query)
  <2>1. queries' \in Seq(QueryType) /\ queries' # <<>> /\ queries'[Len(queries')] = Query
    BY <1>3, AppendQuery DEF Queries
  <2> QED
    BY <1>1, <1>2, <1>3, <2>1, QueryIsUnread
    DEF Queries, Tells, Fresh, Unbound, LastIsFresh, TableIsFresh
<1>4. CASE ~valid /\ told' = told /\ queries' = queries
  BY <1>1, <1>2, <1>4 DEF Queries, Fresh, Unbound, LastIsFresh, TableIsFresh
<1>5. CASE told' = "behind" /\ valid /\ queries' = queries
  BY <1>1, <1>2, <1>5 DEF Queries, Tells, Fresh, Unbound, LastIsFresh, TableIsFresh
<1> QED
  BY <1>3, <1>4, <1>5 DEF UnitsChange

LEMMA IdleFresh ==
  ASSUME Table, Queries, Fresh, UNCHANGED <<tableVars, queryVars>>
  PROVE  Table' /\ Queries' /\ Fresh'
BY DEF Table, Queries, Fresh, Unbound, LastIsFresh, TableIsFresh, tableVars, queryVars

(***************************************************************************)
(* What the steps do to the program: one lemma for each, with the type of  *)
(* the rest of the state and the three parts of the invariant.             *)
(***************************************************************************)
Entry == devices \in [state : {"Disconnect", "Connect", "Sampling"}, work : Works]
Told == ClearedIsBack /\ StopIsLast /\ StateIsTrue

LEMMA NamesAsked == "HubStartSampling" \in HubAsked /\ "HubStopSampling" \in HubAsked
BY DEF HubAsked

(* OnDeviceInfoChange, in the sample and in the recorder, takes a hub for  *)
(* sampling when it tells it to. *)
Changed(d) ==
  /\ Entry' /\ calls' \in CallsType /\ StopIsLast'
  /\ d.state = "Disconnect" => devices'.state # "Sampling"
  /\ devices'.state = "Sampling" =>
       calls'["HubStartSampling"] > 0 \/ (d.state = "Sampling"
         /\ calls'["HubStartSampling"] >= calls["HubStartSampling"])

LEMMA InfoChange ==
  ASSUME Table, valid, calls \in CallsType, StopIsLast,
         NEW d \in [state : {"Disconnect", "Connect", "Sampling"}, work : Works],
         OnDeviceInfoChange(d, calls), phase' = phase
  PROVE  Changed(d)
<1> DEFINE start == d.state = "Connect" /\ d.work = "Normal"
           fs == IF start THEN {"HubStartSampling"} ELSE {}
<1>1. devices' = IF start THEN [d EXCEPT !.state = "Sampling"] ELSE d
  BY DEF OnDeviceInfoChange
<1>2. calls' = Issue(calls, fs)
  BY DEF OnDeviceInfoChange
<1>3. Entry'
  BY <1>1 DEF Entry
<1>4. calls' \in CallsType /\ calls'["HubStartSampling"] >= calls["HubStartSampling"]
  BY <1>2, IssueType, IssueGrows, NamesAsked
<1>5. StopIsLast'
  <2>1. "HubStopSampling" \notin fs
    OBVIOUS
  <2>2. calls'["HubStopSampling"] = calls["HubStopSampling"]
    BY <1>2, <2>1, IssueKeeps, NamesAsked
  <2> QED
    BY <2>2 DEF StopIsLast
<1>6. CASE start
  <2>1. calls'["HubStartSampling"] > 0
    BY <1>2, <1>6, StartIssued
  <2> QED
    BY <1>1, <1>3, <1>4, <1>5, <1>6, <2>1 DEF Changed
<1>7. CASE ~start
  BY <1>1, <1>3, <1>4, <1>5, <1>7 DEF Changed
<1> QED
  BY <1>6, <1>7

LEMMA BroadcastTold ==
  ASSUME Table, Queries, Rest, Entry, Told, OnDeviceBroadcast
  PROVE  Rest' /\ Entry' /\ Told'
<1>1. phase' = phase /\ calls' = calls /\ sampling' = sampling
      /\ devices' = [devices EXCEPT !.state = "Disconnect"]
  BY DEF OnDeviceBroadcast, Broadcasts
<1>2. left' \in [events : 0..MaxEvents, faults : 0..MaxFaults]
  BY SpentType DEF Rest, OnDeviceBroadcast, Broadcasts
<1>3. Entry' /\ devices'.state = "Disconnect"
  BY <1>1 DEF Entry
<1> QED
  BY <1>1, <1>2, <1>3 DEF Rest, Told, ClearedIsBack, StopIsLast, StateIsTrue

LEMMA ConnectionTold ==
  ASSUME Table, Queries, Unbound, Rest, Entry, Told, QueryAnswered,
         valid => Changed(HubDeviceConnect(devices))
  PROVE  Rest' /\ Entry' /\ Told'
<1>1. phase' = phase /\ valid' = valid /\ sampling' = sampling
  BY DEF QueryAnswered
<1>2. valid
  BY RemoveQuery DEF Unbound, Queries, QueryAnswered
<1>9. left' \in [events : 0..MaxEvents, faults : 0..MaxFaults]
  BY SpentType DEF QueryAnswered, Rest
<1> DEFINE d == HubDeviceConnect(devices)
<1>3. d.state # "Sampling"
  BY <1>2 DEF HubDeviceConnect, HubDeviceDisconnect, Entry, Told, ClearedIsBack
<1>4. Hub \notin connected => d.state = "Disconnect"
  BY <1>2 DEF HubDeviceConnect, HubDeviceDisconnect, Entry, Told, ClearedIsBack
<1>5. Changed(d)
  BY <1>2
<1> HIDE DEF d
<1>6. /\ Entry' /\ calls' \in CallsType /\ StopIsLast'
      /\ d.state = "Disconnect" => devices'.state # "Sampling"
      /\ devices'.state = "Sampling" => calls'["HubStartSampling"] > 0
  BY <1>3, <1>5 DEF Changed
<1>7. Hub \in connected => Hub \in connected'
  BY DEF QueryAnswered
<1>8. ClearedIsBack' /\ StateIsTrue'
  BY <1>4, <1>6, <1>7 DEF ClearedIsBack, StateIsTrue
<1> QED
  BY <1>1, <1>6, <1>8, <1>9 DEF Rest, Told

LEMMA StateTold ==
  ASSUME Table, Queries, Rest, Entry, Told, NEW w \in Works, ChangesState(w),
         IF Hub \in connected
         THEN Changed(HubDeviceStateChange(devices, w))
         ELSE calls' = calls /\ devices' = devices
  PROVE  Rest' /\ Entry' /\ Told'
<1>1. /\ valid /\ phase' = phase /\ valid' = valid /\ sampling' = sampling
      /\ connected' = connected /\ queries' = queries
  BY DEF ChangesState, queryVars
<1>2. left' \in [events : 0..MaxEvents, faults : 0..MaxFaults]
  BY SpentType DEF Rest, ChangesState
<1>3. CASE Hub \in connected
  <2> DEFINE d == HubDeviceStateChange(devices, w)
  <2>1. d.state = devices.state
    BY DEF HubDeviceStateChange, Entry
  <2>2. Changed(d)
    BY <1>3
  <2>3. calls \in CallsType
    BY DEF Rest
  <2> HIDE DEF d
  <2>4. /\ Entry' /\ calls' \in CallsType /\ StopIsLast'
        /\ devices'.state = "Sampling" =>
             calls'["HubStartSampling"] > 0 \/ (d.state = "Sampling"
               /\ calls'["HubStartSampling"] >= calls["HubStartSampling"])
    BY <2>2 DEF Changed
  <2>5. ClearedIsBack'
    BY <1>1, <1>3 DEF ClearedIsBack
  <2>6. calls["HubStartSampling"] \in Nat /\ calls'["HubStartSampling"] \in Nat
    BY <2>3, <2>4, NamesAsked DEF CallsType
  <2>7. StateIsTrue'
    BY <1>1, <2>1, <2>4, <2>6 DEF Told, StateIsTrue
  <2> QED
    BY <1>1, <1>2, <2>4, <2>5, <2>7 DEF Rest, Told
<1>4. CASE Hub \notin connected
  BY <1>1, <1>2, <1>4 DEF Rest, Entry, Told, ClearedIsBack, StopIsLast, StateIsTrue
<1> QED
  BY <1>3, <1>4

LEMMA DisconnectTold ==
  ASSUME Table, Queries, Rest, Entry, Told, OnDisconnect
  PROVE  Rest' /\ Entry' /\ Told'
<1>1. phase' = phase /\ valid' = FALSE /\ sampling' = FALSE /\ calls' = NoCalls
  BY DEF OnDisconnect, HubRemoved
<1>2. left' \in [events : 0..MaxEvents, faults : 0..MaxFaults]
  BY SpentType DEF Rest, OnDisconnect, HubRemoved
<1>3. Entry'
  BY DEF OnDisconnect, HubDeviceDisconnect, Entry
<1>4. calls' \in CallsType /\ StopIsLast'
  BY <1>1, NoCallsType, NamesAsked DEF StopIsLast
<1> QED
  BY <1>1, <1>2, <1>3, <1>4 DEF Rest, Told, ClearedIsBack, StateIsTrue

(* What an answer does to the device and to the bounds. *)
LEMMA AnswerRest ==
  ASSUME Rest, NEW f \in HubAsked, NEW outcome \in Outcomes, Answers(f, outcome)
  PROVE  /\ sampling' \in BOOLEAN /\ left' \in [events : 0..MaxEvents, faults : 0..MaxFaults]
         /\ outcome = "ok" => sampling' = Executed(f)
         /\ phase' = phase /\ valid' = valid /\ connected' = connected /\ queries' = queries
<1>1. Executed(f) \in BOOLEAN
  BY DEF Executed, Rest
<1>2. sampling' \in BOOLEAN
  BY <1>1 DEF Answers, Outcomes, Rest
<1>3. left' \in [events : 0..MaxEvents, faults : 0..MaxFaults]
  BY SpentType DEF Answers, Outcomes, Rest
<1>4. outcome = "ok" => sampling' = Executed(f)
  BY DEF Answers
<1>5. phase' = phase /\ valid' = valid /\ connected' = connected /\ queries' = queries
  BY DEF Answers, tableVars, queryVars
<1> QED
  BY <1>2, <1>3, <1>4, <1>5

LEMMA SampleTold ==
  ASSUME Table, Queries, Rest, Entry, Told, OnSampleCallback
  PROVE  Rest' /\ Entry' /\ Told'
<1>1. PICK outcome \in Outcomes :
        /\ Answers("HubStartSampling", outcome)
        /\ calls' = Settled("HubStartSampling")
        /\ devices' = IF outcome = "ok" THEN devices ELSE [devices EXCEPT !.state = "Connect"]
  BY DEF OnSampleCallback
<1>2. /\ sampling' \in BOOLEAN /\ left' \in [events : 0..MaxEvents, faults : 0..MaxFaults]
      /\ outcome = "ok" => sampling' = Executed("HubStartSampling")
      /\ phase' = phase /\ valid' = valid /\ connected' = connected /\ queries' = queries
  BY <1>1, AnswerRest, NamesAsked
<1>3. Executed("HubStartSampling") = TRUE
  BY DEF Executed
<1>4. calls["HubStartSampling"] > 0
  BY <1>1 DEF Answers
<1>5. calls' \in CallsType /\ calls'["HubStopSampling"] = calls["HubStopSampling"]
  BY <1>1, <1>4, SettledType, NamesAsked DEF Rest
<1>6. Entry' /\ (outcome # "ok" => devices'.state = "Connect")
  BY <1>1 DEF Entry
<1>7. ClearedIsBack'
  BY <1>1, <1>2, <1>6 DEF Told, ClearedIsBack
<1>8. StopIsLast'
  BY <1>2, <1>5 DEF Told, StopIsLast
<1>9. StateIsTrue'
  BY <1>2, <1>3, <1>6 DEF StateIsTrue
<1> QED
  BY <1>2, <1>5, <1>6, <1>7, <1>8, <1>9 DEF Rest, Told

LEMMA StopTold ==
  ASSUME Table, Queries, Rest, Entry, Told, OnStopSampleCallback
  PROVE  Rest' /\ Entry' /\ Told'
<1>1. PICK outcome \in Outcomes :
        /\ Answers("HubStopSampling", outcome)
        /\ calls' = Settled("HubStopSampling") /\ UNCHANGED devices
  BY DEF OnStopSampleCallback
<1>2. /\ sampling' \in BOOLEAN /\ left' \in [events : 0..MaxEvents, faults : 0..MaxFaults]
      /\ phase' = phase /\ valid' = valid /\ connected' = connected /\ queries' = queries
  BY <1>1, AnswerRest, NamesAsked
<1>3. calls["HubStopSampling"] > 0
  BY <1>1 DEF Answers
<1>4. phase = "stopping"
  BY <1>3 DEF Told, StopIsLast
<1>5. calls' \in CallsType
  BY <1>1, <1>3, SettledType, NamesAsked DEF Rest
<1>6. Entry' /\ ClearedIsBack'
  BY <1>1, <1>2 DEF Entry, Told, ClearedIsBack
<1> QED
  BY <1>2, <1>4, <1>5, <1>6 DEF Rest, Told, StopIsLast, StateIsTrue
(* What happens without a callback leaves the program alone, and a query   *)
(* is under way after each step that binds the hub or asks again. *)
LEMMA QuietTold ==
  ASSUME Table, Queries, Rest, Entry, Told, Quiet, UNCHANGED devices
  PROVE  Rest' /\ Entry' /\ Told'
<1>1. phase' = phase /\ calls' = calls /\ sampling' = sampling /\ devices' = devices
  BY DEF Quiet, HandshakeAck, HandshakeExpires, HubExecutes, QueryTimesOut, UnitsChange
<1>2. Entry' /\ StopIsLast'
  BY <1>1 DEF Entry, Told, StopIsLast
<1>3. left' \in [events : 0..MaxEvents, faults : 0..MaxFaults]
  <2>1. CASE HandshakeAck \/ HandshakeExpires \/ HubExecutes
    BY <2>1 DEF Rest, HandshakeAck, HandshakeExpires, HubExecutes
  <2>2. CASE QueryTimesOut
    BY <2>2, SpentType DEF Rest, QueryTimesOut
  <2>3. CASE UnitsChange
    <3>1. left.events > 0 /\ (left' = Spent("events") \/ left.faults > 0)
      BY <2>3 DEF UnitsChange
    <3>2. left' = Spent("events") \/
          left' = [events |-> left.events - 1, faults |-> left.faults - 1]
      BY <2>3 DEF UnitsChange
    <3>3. CASE left' = Spent("events")
      BY <3>1, <3>3, SpentType DEF Rest
    <3>4. CASE left' = [events |-> left.events - 1, faults |-> left.faults - 1] /\ left.faults > 0
      BY <3>1, <3>4, HubBoundsAssumption DEF Rest
    <3> QED
      BY <2>3, <3>3, <3>4 DEF UnitsChange
  <2> QED
    BY <2>1, <2>2, <2>3 DEF Quiet
<1>4. Rest'
  BY <1>1, <1>3 DEF Rest
<1>5. CASE HandshakeAck
  <2>1. Hub \in connected' /\ queries' # <<>>
    BY <1>5, AppendQuery DEF Queries, HandshakeAck, DeviceFound
  <2> QED
    BY <1>2, <1>4, <2>1 DEF Told, ClearedIsBack, StateIsTrue
<1>6. CASE HandshakeExpires
  <2>1. UNCHANGED <<valid, connected, queries>>
    BY <1>6 DEF HandshakeExpires, queryVars
  <2> QED
    BY <1>1, <1>2, <1>4, <2>1 DEF Told, ClearedIsBack, StateIsTrue
<1>7. CASE HubExecutes
  <2>1. UNCHANGED <<valid, connected>>
    BY <1>7 DEF HubExecutes, tableVars
  <2>2. PICK i \in DOMAIN queries : queries' = [queries EXCEPT ![i] = [read |-> TRUE, units |-> plugged]]
    BY <1>7 DEF HubExecutes
  <2>3. [read |-> TRUE, units |-> plugged] \in QueryType
    BY DEF Queries, QueryType
  <2>4. queries' # <<>>
    BY <2>2, <2>3, ExecuteQuery DEF Queries
  <2> QED
    BY <1>1, <1>2, <1>4, <2>1, <2>4 DEF Told, ClearedIsBack, StateIsTrue
<1>8. CASE QueryTimesOut
  <2>1. UNCHANGED <<valid, connected>>
    BY <1>8 DEF QueryTimesOut, tableVars
  <2>2. PICK i \in DOMAIN queries : TimesOut(i)
    BY <1>8 DEF QueryTimesOut
  <2>3. Hub \in connected => queries' # <<>>
    BY <2>2, RemoveQuery, AppendQuery DEF Queries, TimesOut
  <2> QED
    BY <1>1, <1>2, <1>4, <2>1, <2>3 DEF Told, ClearedIsBack, StateIsTrue
<1>9. CASE UnitsChange
  <2>1. UNCHANGED <<valid, connected>>
    BY <1>9 DEF UnitsChange, tableVars
  <2>2. queries' = queries \/ queries' # <<>>
    BY <1>9, AppendQuery DEF Queries, UnitsChange
  <2> QED
    BY <1>1, <1>2, <1>4, <2>1, <2>2 DEF Told, ClearedIsBack, StateIsTrue
<1> QED
  BY <1>5, <1>6, <1>7, <1>8, <1>9 DEF Quiet

LEMMA ProgramTold ==
  ASSUME Table, Queries, Rest, Entry, Told, Program
  PROVE  Rest' /\ Entry' /\ Told'
<1>1. CASE StartFails \/ Start
  BY <1>1 DEF StartFails, Start, SdkIdle, tableVars, queryVars, Rest, Entry, Told, ClearedIsBack,
              StopIsLast, StateIsTrue
<1>2. CASE StopHub
  <2>1. calls' \in CallsType
    BY <1>2, IssueType DEF StopHub, Rest
  <2> QED
    BY <1>2, <2>1 DEF StopHub, SdkIdle, tableVars, queryVars, Rest, Entry, Told, ClearedIsBack,
                      StopIsLast, StateIsTrue
<1>3. CASE Uninit
  <2>1. phase' = "done" /\ calls' = NoCalls /\ left' = left /\ devices' = devices
        /\ UNCHANGED <<valid, connected>>
    BY <1>3 DEF Uninit, Uninits, tableVars
  <2>2. \A f \in HubAsked : Executed(f) \in BOOLEAN
    BY DEF Executed, Rest
  <2>3. sampling' \in BOOLEAN
    BY <1>3, <2>2 DEF Uninit, Uninits, Rest
  <2>4. calls' \in CallsType /\ calls'["HubStopSampling"] = 0
    BY <2>1, NoCallsType, NamesAsked
  <2> QED
    BY <2>1, <2>3, <2>4 DEF Rest, Entry, Told, ClearedIsBack, StopIsLast, StateIsTrue
<1> QED
  BY <1>1, <1>2, <1>3 DEF Program

(* sample/hub: the steps together. *)
SampleParts == Rest /\ Entry /\ Told

LEMMA SampleNext ==
  ASSUME Table, Queries, Unbound, SampleParts, Next
  PROVE  SampleParts'
<1> USE DEF SampleParts
<1>1. CASE Program
  BY <1>1, ProgramTold
<1>2. CASE OnDeviceBroadcast
  BY <1>2, BroadcastTold
<1>3. CASE OnHubConnectionChange
  <2> DEFINE d == HubDeviceConnect(devices)
  <2>1. QueryAnswered /\ OnDeviceInfoChange(d, calls)
    BY <1>3 DEF OnHubConnectionChange
  <2>2. d \in [state : {"Disconnect", "Connect", "Sampling"}, work : Works]
    BY DEF HubDeviceConnect, HubDeviceDisconnect, Entry, Table
  <2>3. phase' = phase /\ calls \in CallsType /\ StopIsLast
    BY <2>1 DEF QueryAnswered, Rest, Told
  <2> HIDE DEF d
  <2>4. valid => Changed(d)
    BY <2>1, <2>2, <2>3, InfoChange
  <2> QED
    BY <2>1, <2>4, ConnectionTold DEF d
<1>4. CASE OnStateChange
  <2>1. PICK w \in Works :
          /\ ChangesState(w)
          /\ IF Hub \in connected
             THEN OnDeviceInfoChange(HubDeviceStateChange(devices, w), calls)
             ELSE UNCHANGED <<calls, devices>>
    BY <1>4 DEF OnStateChange
  <2> DEFINE d == HubDeviceStateChange(devices, w)
  <2>2. d \in [state : {"Disconnect", "Connect", "Sampling"}, work : Works]
    BY DEF HubDeviceStateChange, Entry
  <2>3. phase' = phase /\ calls \in CallsType /\ StopIsLast /\ valid
    BY <2>1 DEF ChangesState, Rest, Told
  <2>4. Hub \in connected => OnDeviceInfoChange(d, calls)
    BY <2>1
  <2> HIDE DEF d
  <2>5. Hub \in connected => Changed(d)
    BY <2>2, <2>3, <2>4, InfoChange
  <2> QED
    BY <2>1, <2>5, StateTold DEF d
<1>5. CASE OnDisconnect
  BY <1>5, DisconnectTold
<1>6. CASE OnSampleCallback
  BY <1>6, SampleTold
<1>7. CASE OnStopSampleCallback
  BY <1>7, StopTold
<1>8. CASE Quiet /\ UNCHANGED devices
  BY <1>8, QuietTold
<1> QED
  BY <1>1, <1>2, <1>3, <1>4, <1>5, <1>6, <1>7, <1>8 DEF Next, Event

(***************************************************************************)
(* The recorder, which keeps the hub's entry as the sample does.           *)
(***************************************************************************)
LEMMA RecorderFunctionOf ==
  ASSUME NEW g \in Recorder!FunctionGroups, NEW f \in DOMAIN g,
         \A k \in Recorder!FunctionGroups : f \in DOMAIN k => k = g
  PROVE  Recorder!Functions[f] = g[f]
BY DEF Recorder!Functions

LEMMA RecorderStartAccepted == Recorder!Accepts("HubStartSampling", "Hub", "Hub", TRUE)
<1> DEFINE f == "HubStartSampling"
<1>1. f \in DOMAIN Recorder!SamplingFunctions
  BY DEF Recorder!SamplingFunctions
<1>2. Recorder!SamplingFunctions[f]
        = Recorder!Sends("General", "ControlSample", {"Hub"}, Recorder!DeviceTypes, FALSE)
  BY DEF Recorder!SamplingFunctions
<1>3. f \notin DOMAIN Recorder!DeviceFunctions /\ f \notin DOMAIN Recorder!ParameterFunctions
  BY DEF Recorder!DeviceFunctions, Recorder!ParameterFunctions
<1>4. f \notin DOMAIN Recorder!LidarFunctions /\ f \notin DOMAIN Recorder!HubFunctions
  BY DEF Recorder!LidarFunctions, Recorder!HubFunctions
<1>5. f \notin DOMAIN Recorder!HubUnitFunctions /\ f \notin DOMAIN Recorder!SyncFunctions
  BY DEF Recorder!HubUnitFunctions, Recorder!SyncFunctions
<1>6. f # "SetStaticDynamicIP"
  OBVIOUS
<1> HIDE DEF f
<1>7. Recorder!SamplingFunctions \in Recorder!FunctionGroups
  BY DEF Recorder!FunctionGroups
<1>8. \A k \in Recorder!FunctionGroups : f \in DOMAIN k => k = Recorder!SamplingFunctions
  BY <1>3, <1>4, <1>5 DEF Recorder!FunctionGroups
<1>9. Recorder!Functions[f] = Recorder!SamplingFunctions[f]
  BY <1>1, <1>7, <1>8, RecorderFunctionOf
<1>10. /\ Recorder!Functions[f].modes = {"Hub"}
       /\ Recorder!Functions[f].types = Recorder!DeviceTypes
       /\ Recorder!Functions[f].firmware = FALSE
  BY <1>2, <1>9 DEF Recorder!Sends
<1>11. Recorder!Accepts(f, "Hub", "Hub", TRUE)
  BY <1>6, <1>10 DEF Recorder!Accepts, Recorder!DeviceTypes
<1> QED
  BY <1>11 DEF f

LEMMA RecorderIssue ==
  ASSUME NEW c \in CallsType, NEW fs
  PROVE  /\ Recorder!Issue(c, fs) \in CallsType
         /\ \A f \in HubAsked : Recorder!Issue(c, fs)[f] >= c[f]
         /\ \A f \in HubAsked : f \notin fs => Recorder!Issue(c, fs)[f] = c[f]
         /\ valid /\ "HubStartSampling" \in fs => Recorder!Issue(c, fs)["HubStartSampling"] > 0
<1> DEFINE sent(f) == f \in fs /\ valid /\ Recorder!Accepts(f, "Hub", "Hub", TRUE)
<1>1. Recorder!HubAsked = HubAsked
  BY DEF Recorder!HubAsked, HubAsked
<1>2. Recorder!Issue(c, fs) = [f \in HubAsked |-> c[f] + (IF sent(f) THEN 1 ELSE 0)]
  BY <1>1 DEF Recorder!Issue
<1>3. ASSUME NEW f \in HubAsked
      PROVE  c[f] \in Nat /\ Recorder!Issue(c, fs)[f] = c[f] + (IF sent(f) THEN 1 ELSE 0)
  BY <1>2 DEF CallsType
<1>4. \A f : f \notin fs => ~sent(f)
  OBVIOUS
<1>5. valid /\ "HubStartSampling" \in fs => sent("HubStartSampling")
  BY RecorderStartAccepted
<1> HIDE DEF sent
<1>6. \A f \in HubAsked : c[f] + (IF sent(f) THEN 1 ELSE 0) \in Nat
  BY <1>3
<1>7. Recorder!Issue(c, fs) \in CallsType
  BY <1>2, <1>6 DEF CallsType
<1>8. \A f \in HubAsked : Recorder!Issue(c, fs)[f] >= c[f]
  BY <1>3
<1>9. \A f \in HubAsked : f \notin fs => Recorder!Issue(c, fs)[f] = c[f]
  BY <1>3, <1>4
<1>10. valid /\ "HubStartSampling" \in fs => Recorder!Issue(c, fs)["HubStartSampling"] > 0
  BY <1>3, <1>5, NamesAsked
<1> QED
  BY <1>7, <1>8, <1>9, <1>10

LEMMA RecorderInfoChange ==
  ASSUME Table, valid, calls \in CallsType, StopIsLast,
         NEW d \in [state : {"Disconnect", "Connect", "Sampling"}, work : Works],
         Recorder!OnDeviceInfoChange(d, calls), phase' = phase
  PROVE  Changed(d)
<1> DEFINE start == d.state = "Connect" /\ d.work = "Normal"
           fs == IF start THEN {"HubGetExtrinsicParameter", "HubStartSampling"} ELSE {}
<1>1. devices' = IF start THEN [d EXCEPT !.state = "Sampling"] ELSE d
  BY DEF Recorder!OnDeviceInfoChange
<1>2. calls' = Recorder!Issue(calls, fs)
  BY DEF Recorder!OnDeviceInfoChange
<1>3. Entry'
  BY <1>1 DEF Entry
<1>4. "HubStopSampling" \notin fs /\ (start => "HubStartSampling" \in fs)
  OBVIOUS
<1> HIDE DEF fs
<1>5. calls' \in CallsType /\ calls'["HubStartSampling"] >= calls["HubStartSampling"]
  BY <1>2, RecorderIssue, NamesAsked
<1>6. calls'["HubStopSampling"] = calls["HubStopSampling"]
  BY <1>2, <1>4, RecorderIssue, NamesAsked
<1>7. StopIsLast'
  BY <1>6 DEF StopIsLast
<1>8. start => calls'["HubStartSampling"] > 0
  BY <1>2, <1>4, RecorderIssue, NamesAsked
<1> QED
  BY <1>1, <1>3, <1>5, <1>7, <1>8 DEF Changed

(* Steps that leave the session and the hub's entry alone. *)
LEMMA PartsIdle ==
  ASSUME SampleParts, UNCHANGED <<phase, valid, connected, queries, sampling, calls, left, devices>>
  PROVE  SampleParts'
BY DEF SampleParts, Rest, Entry, Told, ClearedIsBack, StopIsLast, StateIsTrue

LEMMA RecorderBroadcast ==
  ASSUME Table, Queries, SampleParts, coded \in BOOLEAN, Recorder!OnDeviceBroadcast
  PROVE  SampleParts'
<1> USE DEF SampleParts
<1>1. CASE coded = TRUE
  <2>1. OnDeviceBroadcast
    BY <1>1 DEF Recorder!OnDeviceBroadcast, OnDeviceBroadcast, Recorder!Broadcasts, Broadcasts,
                Recorder!Up, Up, Recorder!Spent, Spent, Recorder!queryVars, queryVars
  <2> QED
    BY <2>1, BroadcastTold
<1>2. CASE coded = FALSE
  <2>1. UNCHANGED <<phase, calls, sampling, valid, queries, connected, devices>>
    BY <1>2 DEF Recorder!OnDeviceBroadcast, Recorder!Broadcasts, Recorder!queryVars
  <2>2. left' = left \/ (left.faults > 0 /\ left' = Spent("faults"))
    BY DEF Recorder!OnDeviceBroadcast, Recorder!Broadcasts, Recorder!Spent, Spent
  <2>3. left' \in [events : 0..MaxEvents, faults : 0..MaxFaults]
    BY <2>2, SpentType DEF Rest
  <2> QED
    BY <2>1, <2>3 DEF Rest, Entry, Told, ClearedIsBack, StopIsLast, StateIsTrue
<1> QED
  BY <1>1, <1>2

(* The callbacks that the recorder shares with the sample. *)
LEMMA RecorderConnection ==
  ASSUME Table, Queries, Unbound, SampleParts, Recorder!OnHubConnectionChange
  PROVE  SampleParts'
<1> USE DEF SampleParts
<1> DEFINE d == HubDeviceConnect(devices)
<1>1. QueryAnswered
  BY DEF Recorder!OnHubConnectionChange, Recorder!QueryAnswered, QueryAnswered, Recorder!Up, Up,
         Recorder!IsLast, IsLast, Recorder!RemoveAt, RemoveAt, Recorder!Spent, Spent
<1>2. Recorder!OnDeviceInfoChange(d, calls)
  BY DEF Recorder!OnHubConnectionChange, Recorder!HubDeviceConnectionChange, HubDeviceConnect,
         Recorder!HubDeviceDisconnect, HubDeviceDisconnect
<1>3. d \in [state : {"Disconnect", "Connect", "Sampling"}, work : Works]
  BY DEF HubDeviceConnect, HubDeviceDisconnect, Entry, Table
<1>4. phase' = phase /\ calls \in CallsType /\ StopIsLast
  BY <1>1 DEF QueryAnswered, Rest, Told
<1> HIDE DEF d
<1>5. valid => Changed(d)
  BY <1>2, <1>3, <1>4, RecorderInfoChange
<1> QED
  BY <1>1, <1>5, ConnectionTold DEF d

LEMMA RecorderState ==
  ASSUME Table, Queries, SampleParts, Recorder!OnStateChange
  PROVE  SampleParts'
<1> USE DEF SampleParts
<1>1. PICK w \in Works :
        /\ Recorder!ChangesState(w)
        /\ IF Hub \in connected
           THEN Recorder!OnDeviceInfoChange(Recorder!HubDeviceStateChange(devices, w), calls)
           ELSE calls' = calls /\ devices' = devices
  BY DEF Recorder!OnStateChange, Recorder!Works, Works
<1>2. ChangesState(w)
  BY <1>1 DEF Recorder!ChangesState, ChangesState, Recorder!Up, Up, Recorder!Spent, Spent,
              Recorder!queryVars, queryVars
<1> DEFINE d == HubDeviceStateChange(devices, w)
<1>3. d \in [state : {"Disconnect", "Connect", "Sampling"}, work : Works]
  BY DEF HubDeviceStateChange, Entry
<1>4. phase' = phase /\ calls \in CallsType /\ StopIsLast /\ valid
  BY <1>2 DEF ChangesState, Rest, Told
<1>5. Hub \in connected => Recorder!OnDeviceInfoChange(d, calls)
  BY <1>1 DEF Recorder!HubDeviceStateChange, HubDeviceStateChange
<1> HIDE DEF d
<1>6. Hub \in connected => Changed(d)
  BY <1>3, <1>4, <1>5, RecorderInfoChange
<1> QED
  BY <1>1, <1>2, <1>6, StateTold DEF d

LEMMA RecorderShared ==
  ASSUME Table, Queries, SampleParts,
         Recorder!OnDisconnect \/ Recorder!OnSampleCallback \/ Recorder!OnStopSampleCallback
  PROVE  SampleParts'
<1> USE DEF SampleParts
<1>1. Recorder!NoCalls = NoCalls
  BY DEF Recorder!NoCalls, NoCalls, Recorder!HubAsked, HubAsked
<1>2. CASE Recorder!OnDisconnect
  <2>1. OnDisconnect
    BY <1>1, <1>2 DEF Recorder!OnDisconnect, OnDisconnect, Recorder!HubRemoved, HubRemoved,
                      Recorder!Up, Up, Recorder!Spent, Spent, Recorder!HubDeviceDisconnect,
                      HubDeviceDisconnect
  <2> QED
    BY <2>1, DisconnectTold
<1>3. ASSUME NEW f, NEW outcome, Recorder!Answers(f, outcome)  PROVE Answers(f, outcome)
  BY <1>3 DEF Recorder!Answers, Answers, Recorder!Up, Up, Recorder!Spent, Spent,
              Recorder!Executed, Executed, Recorder!tableVars, tableVars,
              Recorder!queryVars, queryVars
<1>4. CASE Recorder!OnSampleCallback
  <2>1. PICK outcome \in Outcomes :
          /\ Recorder!Answers("HubStartSampling", outcome)
          /\ calls' = Recorder!Settled("HubStartSampling")
          /\ devices' = IF outcome = "ok" THEN devices ELSE [devices EXCEPT !.state = "Connect"]
    BY <1>4 DEF Recorder!OnSampleCallback, Recorder!Outcomes, Outcomes
  <2>2. Answers("HubStartSampling", outcome) /\ calls' = Settled("HubStartSampling")
    BY <1>3, <2>1 DEF Recorder!Settled, Settled
  <2>3. OnSampleCallback
    BY <2>1, <2>2 DEF OnSampleCallback
  <2> QED
    BY <2>3, SampleTold
<1>5. CASE Recorder!OnStopSampleCallback
  <2>1. PICK outcome \in Outcomes :
          /\ Recorder!Answers("HubStopSampling", outcome)
          /\ calls' = Recorder!Settled("HubStopSampling") /\ devices' = devices
    BY <1>5 DEF Recorder!OnStopSampleCallback, Recorder!Outcomes, Outcomes
  <2>2. Answers("HubStopSampling", outcome) /\ calls' = Settled("HubStopSampling")
    BY <1>3, <2>1 DEF Recorder!Settled, Settled
  <2>3. OnStopSampleCallback
    BY <2>1, <2>2 DEF OnStopSampleCallback
  <2> QED
    BY <2>3, StopTold
<1> QED
  BY <1>2, <1>4, <1>5

(* The extrinsic parameters leave the hub's entry alone. *)
LEMMA RecorderParameters ==
  ASSUME Table, Queries, SampleParts, Recorder!OnGetLidarUnitsExtrinsicParameter
  PROVE  SampleParts'
<1> USE DEF SampleParts
<1> DEFINE f == "HubGetExtrinsicParameter"
<1>1. PICK outcome \in Outcomes :
        Recorder!Answers(f, outcome) /\ calls' = Recorder!Settled(f) /\ devices' = devices
  BY DEF Recorder!OnGetLidarUnitsExtrinsicParameter, Recorder!Outcomes, Outcomes
<1>2. /\ calls[f] > 0 /\ UNCHANGED <<phase, valid, connected, queries>>
      /\ sampling' \in {sampling, Recorder!Executed(f)}
  BY <1>1 DEF Recorder!Answers, Recorder!tableVars, Recorder!queryVars
<1>3. sampling' = sampling
  BY <1>2 DEF Recorder!Executed
<1>4. left' = left \/ (left.faults > 0 /\ left' = Spent("faults"))
  BY <1>1 DEF Recorder!Answers, Recorder!Spent, Spent
<1>5. left' \in [events : 0..MaxEvents, faults : 0..MaxFaults]
  BY <1>4, SpentType DEF Rest
<1>6. f \in HubAsked /\ f # "HubStartSampling" /\ f # "HubStopSampling"
  BY DEF HubAsked
<1>7. calls' = Settled(f)
  BY <1>1 DEF Recorder!Settled, Settled
<1>8. /\ calls' \in CallsType /\ calls'["HubStartSampling"] = calls["HubStartSampling"]
      /\ calls'["HubStopSampling"] = calls["HubStopSampling"]
  BY <1>2, <1>6, <1>7, SettledType, NamesAsked DEF Rest
<1> QED
  BY <1>1, <1>2, <1>3, <1>5, <1>8 DEF Rest, Entry, Told, ClearedIsBack, StopIsLast, StateIsTrue

LEMMA RecorderProgram ==
  ASSUME SampleParts, Recorder!Program
  PROVE  SampleParts'
<1> USE DEF SampleParts
<1>1. CASE \/ Recorder!Wait \/ Recorder!InitLvxFileHeader \/ Recorder!SaveFrame
  BY <1>1, PartsIdle DEF Recorder!Wait, Recorder!InitLvxFileHeader, Recorder!SaveFrame,
    Recorder!hubVars, Recorder!tableVars, Recorder!queryVars, Recorder!shared
<1>2. CASE Recorder!StartFails \/ Recorder!Start
  <2>1. phase = "off" /\ phase' \in {"running", "done"}
        /\ UNCHANGED <<valid, connected, queries, sampling, calls, left, devices>>
    BY <1>2 DEF Recorder!StartFails, Recorder!Start, Recorder!SdkIdle, Recorder!tableVars,
                Recorder!queryVars, Recorder!shared
  <2> QED
    BY <2>1 DEF Rest, Entry, Told, ClearedIsBack, StopIsLast, StateIsTrue
<1>3. CASE Recorder!StopHub
  <2>1. /\ phase' = "stopping" /\ calls' = Recorder!Issue(calls, {"HubStopSampling"})
        /\ UNCHANGED <<valid, connected, queries, sampling, left, devices>>
    BY <1>3 DEF Recorder!StopHub, Recorder!SdkIdle, Recorder!tableVars, Recorder!queryVars,
                Recorder!shared
  <2>2. calls' \in CallsType
    BY <2>1, RecorderIssue DEF Rest
  <2> QED
    BY <2>1, <2>2 DEF Rest, Entry, Told, ClearedIsBack, StopIsLast, StateIsTrue
<1>4. CASE Recorder!InitLvxFileFails \/ Recorder!Uninit
  <2>1. Recorder!Uninits /\ devices' = devices
    BY <1>4 DEF Recorder!InitLvxFileFails, Recorder!Uninit, Recorder!shared
  <2>2. phase' = "done" /\ calls' = NoCalls /\ UNCHANGED <<valid, connected, queries, left>>
    BY <2>1 DEF Recorder!Uninits, Recorder!NoCalls, NoCalls, Recorder!HubAsked, HubAsked,
                Recorder!tableVars, Recorder!queryVars
  <2>3. \A f : Recorder!Executed(f) \in BOOLEAN
    BY DEF Recorder!Executed, Rest
  <2>4. sampling' \in BOOLEAN
    BY <2>1, <2>3 DEF Recorder!Uninits, Rest
  <2>5. calls' \in CallsType /\ calls'["HubStopSampling"] = 0
    BY <2>2, NoCallsType, NamesAsked
  <2> QED
    BY <2>1, <2>2, <2>4, <2>5 DEF Rest, Entry, Told, ClearedIsBack, StopIsLast, StateIsTrue
<1> QED
  BY <1>1, <1>2, <1>3, <1>4 DEF Recorder!Program

(* What happens without a callback is the same in every program.           *)
LEMMA RecorderQuiet == ASSUME Recorder!Quiet PROVE Quiet
<1> USE DEF Recorder!Up, Up, Recorder!queryVars, queryVars, Recorder!tableVars, tableVars,
            Recorder!Spent, Spent, Recorder!Query, Query
<1>1. CASE Recorder!HandshakeAck
  BY <1>1 DEF Quiet, Recorder!HandshakeAck, HandshakeAck, Recorder!DeviceFound, DeviceFound
<1>2. CASE Recorder!HandshakeExpires
  BY <1>2 DEF Quiet, Recorder!HandshakeExpires, HandshakeExpires
<1>3. CASE Recorder!HubExecutes
  BY <1>3 DEF Quiet, Recorder!HubExecutes, HubExecutes
<1>4. CASE Recorder!QueryTimesOut
  BY <1>4 DEF Quiet, Recorder!QueryTimesOut, QueryTimesOut, Recorder!TimesOut, TimesOut, Recorder!IsLast,
    IsLast, Recorder!RemoveAt, RemoveAt, Recorder!Query, Query
<1>5. CASE Recorder!UnitsChange
  BY <1>5 DEF Quiet, Recorder!UnitsChange, UnitsChange
<1> QED
  BY <1>1, <1>2, <1>3, <1>4, <1>5 DEF Recorder!Quiet

LEMMA RecorderNext ==
  ASSUME Table, Queries, Unbound, SampleParts, coded \in BOOLEAN, Recorder!Next
  PROVE  SampleParts' /\ coded' \in BOOLEAN
<1>1. coded' \in BOOLEAN
  BY DEF Recorder!Next, Recorder!Program, Recorder!StartFails, Recorder!Start, Recorder!Wait,
    Recorder!InitLvxFileFails, Recorder!InitLvxFileHeader, Recorder!SaveFrame, Recorder!StopHub,
    Recorder!Uninit, Recorder!shared, Recorder!Event, Recorder!OnDeviceBroadcast,
    Recorder!OnHubConnectionChange, Recorder!OnDeviceInfoChange, Recorder!OnStateChange,
    Recorder!OnDisconnect, Recorder!OnSampleCallback, Recorder!OnStopSampleCallback,
    Recorder!OnGetLidarUnitsExtrinsicParameter, Recorder!GetHubData, Recorder!Quietly,
    Recorder!Reported
<1>2. CASE Recorder!Program
  BY <1>1, <1>2, RecorderProgram
<1>3. CASE Recorder!OnDeviceBroadcast
  BY <1>1, <1>3, RecorderBroadcast
<1>4. CASE Recorder!OnHubConnectionChange
  BY <1>1, <1>4, RecorderConnection
<1>5. CASE Recorder!OnStateChange
  BY <1>1, <1>5, RecorderState
<1>6. CASE Recorder!OnDisconnect \/ Recorder!OnSampleCallback \/ Recorder!OnStopSampleCallback
  BY <1>1, <1>6, RecorderShared
<1>7. CASE Recorder!OnGetLidarUnitsExtrinsicParameter
  BY <1>1, <1>7, RecorderParameters
<1>8. CASE Recorder!GetHubData
  BY <1>1, <1>8, PartsIdle DEF Recorder!GetHubData, Recorder!hubVars, Recorder!tableVars, Recorder!queryVars
<1>9. CASE Recorder!Quietly
  BY <1>1, <1>9, RecorderQuiet, QuietTold DEF Recorder!Quietly, Recorder!shared, SampleParts
<1> QED
  BY <1>1, <1>2, <1>3, <1>4, <1>5, <1>6, <1>7, <1>8, <1>9 DEF Recorder!Next, Recorder!Event

(***************************************************************************)
(* The data source, sample_cc/hub.                                         *)
(***************************************************************************)

LEMMA LdsFunctionOf ==
  ASSUME NEW g \in Lds!FunctionGroups, NEW f \in DOMAIN g,
         \A k \in Lds!FunctionGroups : f \in DOMAIN k => k = g
  PROVE  Lds!Functions[f] = g[f]
BY DEF Lds!Functions

(* The commands it configures and starts the hub with are sent to a hub.   *)
LEMMA LdsStartAccepted == Lds!Accepts("HubStartSampling", "Hub", "Hub", TRUE)
<1> DEFINE f == "HubStartSampling"
<1>1. f \in DOMAIN Lds!SamplingFunctions
  BY DEF Lds!SamplingFunctions
<1>2. Lds!SamplingFunctions[f] = Lds!Sends("General", "ControlSample", {"Hub"}, Lds!DeviceTypes, FALSE)
  BY DEF Lds!SamplingFunctions
<1>3. f \notin DOMAIN Lds!DeviceFunctions /\ f \notin DOMAIN Lds!ParameterFunctions
  BY DEF Lds!DeviceFunctions, Lds!ParameterFunctions
<1>4. f \notin DOMAIN Lds!LidarFunctions /\ f \notin DOMAIN Lds!HubFunctions
  BY DEF Lds!LidarFunctions, Lds!HubFunctions
<1>5. f \notin DOMAIN Lds!HubUnitFunctions /\ f \notin DOMAIN Lds!SyncFunctions
  BY DEF Lds!HubUnitFunctions, Lds!SyncFunctions
<1>6. f # "SetStaticDynamicIP"
  OBVIOUS
<1> HIDE DEF f
<1>7. Lds!SamplingFunctions \in Lds!FunctionGroups
  BY DEF Lds!FunctionGroups
<1>8. \A k \in Lds!FunctionGroups : f \in DOMAIN k => k = Lds!SamplingFunctions
  BY <1>3, <1>4, <1>5 DEF Lds!FunctionGroups
<1>9. Lds!Functions[f] = Lds!SamplingFunctions[f]
  BY <1>1, <1>7, <1>8, LdsFunctionOf
<1>10. /\ Lds!Functions[f].modes = {"Hub"} /\ Lds!Functions[f].types = Lds!DeviceTypes
       /\ Lds!Functions[f].firmware = FALSE
  BY <1>2, <1>9 DEF Lds!Sends
<1>11. Lds!Accepts(f, "Hub", "Hub", TRUE)
  BY <1>6, <1>10 DEF Lds!Accepts, Lds!DeviceTypes
<1> QED
  BY <1>11 DEF f

LEMMA LdsCoordinateAccepted == Lds!Accepts("SetCartesianCoordinate", "Hub", "Hub", TRUE)
<1> DEFINE f == "SetCartesianCoordinate"
<1>1. f \in DOMAIN Lds!DeviceFunctions
  BY DEF Lds!DeviceFunctions
<1>2. Lds!DeviceFunctions[f] = Lds!Always("CoordinateSystem")
  BY DEF Lds!DeviceFunctions
<1>3. f \notin DOMAIN Lds!SamplingFunctions /\ f \notin DOMAIN Lds!ParameterFunctions
  BY DEF Lds!SamplingFunctions, Lds!ParameterFunctions
<1>4. f \notin DOMAIN Lds!LidarFunctions /\ f \notin DOMAIN Lds!HubFunctions
  BY DEF Lds!LidarFunctions, Lds!HubFunctions
<1>5. f \notin DOMAIN Lds!HubUnitFunctions /\ f \notin DOMAIN Lds!SyncFunctions
  BY DEF Lds!HubUnitFunctions, Lds!SyncFunctions
<1>6. f # "SetStaticDynamicIP"
  OBVIOUS
<1> HIDE DEF f
<1>7. Lds!DeviceFunctions \in Lds!FunctionGroups
  BY DEF Lds!FunctionGroups
<1>8. \A k \in Lds!FunctionGroups : f \in DOMAIN k => k = Lds!DeviceFunctions
  BY <1>3, <1>4, <1>5 DEF Lds!FunctionGroups
<1>9. Lds!Functions[f] = Lds!DeviceFunctions[f]
  BY <1>1, <1>7, <1>8, LdsFunctionOf
<1>10. /\ Lds!Functions[f].modes = Lds!DeviceModes /\ Lds!Functions[f].types = Lds!DeviceTypes
       /\ Lds!Functions[f].firmware = FALSE
  BY <1>2, <1>9 DEF Lds!Sends, Lds!Always
<1>11. Lds!Accepts(f, "Hub", "Hub", TRUE)
  BY <1>6, <1>10 DEF Lds!Accepts, Lds!DeviceTypes, Lds!DeviceModes
<1> QED
  BY <1>11 DEF f

LEMMA LdsSettingAccepted ==
  ASSUME NEW f \in Lds!UnitSettings
  PROVE  Lds!Accepts(f, "Hub", "Hub", TRUE)
<1>1. f \in DOMAIN Lds!HubUnitFunctions
  BY DEF Lds!HubUnitFunctions, Lds!UnitSettings
<1>2. \E id : Lds!HubUnitFunctions[f] = Lds!ThroughHub(id)
  BY DEF Lds!HubUnitFunctions, Lds!UnitSettings
<1>3. f \notin DOMAIN Lds!SamplingFunctions /\ f \notin DOMAIN Lds!ParameterFunctions
  BY DEF Lds!SamplingFunctions, Lds!ParameterFunctions, Lds!UnitSettings
<1>4. f \notin DOMAIN Lds!LidarFunctions /\ f \notin DOMAIN Lds!HubFunctions
  BY DEF Lds!LidarFunctions, Lds!HubFunctions, Lds!UnitSettings
<1>5. f \notin DOMAIN Lds!DeviceFunctions /\ f \notin DOMAIN Lds!SyncFunctions
  BY DEF Lds!DeviceFunctions, Lds!SyncFunctions, Lds!UnitSettings
<1>6. f # "SetStaticDynamicIP"
  BY DEF Lds!UnitSettings
<1>7. Lds!HubUnitFunctions \in Lds!FunctionGroups
  BY DEF Lds!FunctionGroups
<1>8. \A k \in Lds!FunctionGroups : f \in DOMAIN k => k = Lds!HubUnitFunctions
  BY <1>3, <1>4, <1>5 DEF Lds!FunctionGroups
<1>9. Lds!Functions[f] = Lds!HubUnitFunctions[f]
  BY <1>1, <1>7, <1>8, LdsFunctionOf
<1>10. /\ Lds!Functions[f].modes = {"Hub"} /\ Lds!Functions[f].types = Lds!DeviceTypes
       /\ Lds!Functions[f].firmware = FALSE
  BY <1>2, <1>9 DEF Lds!Sends, Lds!ThroughHub
<1> QED
  BY <1>6, <1>10 DEF Lds!Accepts, Lds!DeviceTypes

Awaitable == Lds!UnitSettings \cup {"SetCartesianCoordinate"}

(* Issuing commands: what is issued with a channel is under way. *)
LEMMA LdsIssue ==
  ASSUME NEW c \in CallsType, NEW fs
  PROVE  /\ Lds!Issue(c, fs) \in CallsType
         /\ \A f \in HubAsked : Lds!Issue(c, fs)[f] >= c[f]
         /\ \A f \in HubAsked : f \notin fs => Lds!Issue(c, fs)[f] = c[f]
         /\ valid => \A f \in HubAsked :
              f \in fs /\ f \in Awaitable \cup {"HubStartSampling"} => Lds!Issue(c, fs)[f] > 0
<1> DEFINE sent(f) == f \in fs /\ valid /\ Lds!Accepts(f, "Hub", "Hub", TRUE)
<1>1. Lds!HubAsked = HubAsked
  BY DEF Lds!HubAsked, HubAsked
<1>2. Lds!Issue(c, fs) = [f \in HubAsked |-> c[f] + (IF sent(f) THEN 1 ELSE 0)]
  BY <1>1 DEF Lds!Issue
<1>3. ASSUME NEW f \in HubAsked
      PROVE  c[f] \in Nat /\ Lds!Issue(c, fs)[f] = c[f] + (IF sent(f) THEN 1 ELSE 0)
  BY <1>2 DEF CallsType
<1>4. \A f : f \notin fs => ~sent(f)
  OBVIOUS
<1>5. valid => \A f : f \in fs /\ f \in Awaitable \cup {"HubStartSampling"} => sent(f)
  BY LdsStartAccepted, LdsCoordinateAccepted, LdsSettingAccepted DEF Awaitable
<1> HIDE DEF sent
<1>6. \A f \in HubAsked : c[f] + (IF sent(f) THEN 1 ELSE 0) \in Nat
  BY <1>3
<1>7. Lds!Issue(c, fs) \in CallsType
  BY <1>2, <1>6 DEF CallsType
<1>8. \A f \in HubAsked : Lds!Issue(c, fs)[f] >= c[f]
  BY <1>3
<1>9. \A f \in HubAsked : f \notin fs => Lds!Issue(c, fs)[f] = c[f]
  BY <1>3, <1>4
<1>10. valid => \A f \in HubAsked :
         f \in fs /\ f \in Awaitable \cup {"HubStartSampling"} => Lds!Issue(c, fs)[f] > 0
  BY <1>3, <1>5
<1> QED
  BY <1>7, <1>8, <1>9, <1>10

(* ... and a command that is called back. *)
LEMMA LdsSettled ==
  ASSUME calls \in CallsType, NEW f \in HubAsked, calls[f] > 0
  PROVE  /\ Lds!Settled(f) \in CallsType
         /\ \A g \in HubAsked : g # f => Lds!Settled(f)[g] = calls[g]
BY DEF Lds!Settled, CallsType

LEMMA LdsNames ==
  /\ Awaitable \subseteq HubAsked /\ "HubStartSampling" \in HubAsked
  /\ "HubQueryLidarInformation" \in HubAsked
  /\ "HubStartSampling" \notin Awaitable /\ "HubQueryLidarInformation" \notin Awaitable
BY DEF Awaitable, Lds!UnitSettings, HubAsked

LEMMA LdsNoCalls == Lds!NoCalls \in CallsType /\ \A f \in HubAsked : Lds!NoCalls[f] = 0
<1>1. Lds!HubAsked = HubAsked
  BY DEF Lds!HubAsked, HubAsked
<1> QED
  BY <1>1 DEF Lds!NoCalls, CallsType

(***************************************************************************)
(* The invariant.  It holds until the SDK is taken down, in every state of *)
(* the hub: its state is Off when the bits outlive a loss of the hub, and  *)
(* On when they outlive a start that failed.  A command is only under way  *)
(* while there is a channel.                                               *)
(***************************************************************************)
LdsEntry ==
  /\ hub \in [state : {"Off", "On", "Config", "Sampling"}, work : Works, bits : SUBSET Awaitable]
  /\ calls \in CallsType /\ sampling \in BOOLEAN /\ valid \in BOOLEAN
NoChannelNoCalls == ~valid => \A f \in HubAsked : calls[f] = 0
BitsAreAsked == phase # "done" => \A f \in hub.bits \ gaveUp : calls[f] > 0
ConfigAwaits == hub.state = "Config" => hub.bits # {}
StartIsAsked ==
  phase # "done" /\ hub.state = "Sampling" => sampling \/ calls["HubStartSampling"] > 0

(* What is said of the awaited settings and the start.                     *)
Bits == NoChannelNoCalls /\ BitsAreAsked /\ ConfigAwaits /\ StartIsAsked

(* Steps that leave the hub's entry and the program's commands alone. *)
LEMMA LdsIdle ==
  ASSUME LdsEntry, Bits, UNCHANGED <<hub, gaveUp, calls, sampling>>, valid' \in BOOLEAN,
         valid => valid', phase = "done" => phase' = "done"
  PROVE  LdsEntry' /\ Bits'
<1>1. LdsEntry'
  BY DEF LdsEntry
<1> QED
  BY <1>1 DEF Bits, NoChannelNoCalls, BitsAreAsked, ConfigAwaits, StartIsAsked, LdsEntry

(* OnDeviceInfoChange: commands are added, and a hub that was off is on.   *)
LEMMA LdsInfoChange ==
  ASSUME LdsEntry, Bits, NEW w \in Works,
         NEW e \in {"HubConnectionChange", "StateChange"}, Lds!OnDeviceInfoChange(e, w),
         valid, UNCHANGED <<phase, valid, sampling>>
  PROVE  LdsEntry' /\ Bits'
<1> DEFINE fs == IF hub'.state = "On" /\ hub'.work = "Normal"
                 THEN {"HubQueryLidarInformation"} ELSE {}
<1>1. hub' = Lds!Noted(e, w) /\ gaveUp' = gaveUp
  BY DEF Lds!OnDeviceInfoChange
<1>2. calls' = Lds!Issue(calls, fs) \/ calls' = calls
  BY DEF Lds!OnDeviceInfoChange
<1> HIDE DEF fs
<1>3. calls' \in CallsType /\ \A f \in HubAsked : calls'[f] >= calls[f]
  BY <1>2, LdsIssue DEF LdsEntry, CallsType
<1>4. /\ hub' \in [state : {"Off", "On", "Config", "Sampling"}, work : Works, bits : SUBSET Awaitable]
      /\ hub'.bits = hub.bits /\ hub'.state \in {hub.state, "On"}
  BY <1>1 DEF Lds!Noted, LdsEntry
<1>5. LdsEntry'
  BY <1>3, <1>4 DEF LdsEntry
<1>6. \A f \in HubAsked : calls[f] > 0 => calls'[f] > 0
  BY <1>3 DEF LdsEntry, CallsType
<1>7. BitsAreAsked'
  BY <1>1, <1>4, <1>6, LdsNames DEF Bits, BitsAreAsked, LdsEntry
<1>8. NoChannelNoCalls' /\ ConfigAwaits' /\ StartIsAsked'
  BY <1>4, <1>6, LdsNames DEF Bits, NoChannelNoCalls, ConfigAwaits, StartIsAsked
<1> QED
  BY <1>5, <1>7, <1>8 DEF Bits

(* The hub goes: nothing is asked any more, and what was awaited is given  *)
(* up.  *)
LEMMA LdsDisconnect ==
  ASSUME LdsEntry, Bits, Lds!OnDisconnect
  PROVE  LdsEntry' /\ Bits'
<1>1. /\ calls' = Lds!NoCalls /\ sampling' = FALSE /\ valid' = FALSE
      /\ hub' = [hub EXCEPT !.state = "Off"] /\ gaveUp' = gaveUp \cup hub.bits
  BY DEF Lds!OnDisconnect, Lds!HubRemoved, Lds!Noted
<1>2. calls' \in CallsType /\ \A f \in HubAsked : calls'[f] = 0
  BY <1>1, LdsNoCalls
<1>3. /\ hub' \in [state : {"Off", "On", "Config", "Sampling"}, work : Works, bits : SUBSET Awaitable]
      /\ hub'.bits = hub.bits /\ hub'.state = "Off"
  BY <1>1 DEF LdsEntry
<1>4. LdsEntry'
  BY <1>1, <1>2, <1>3 DEF LdsEntry
<1>5. hub'.bits \ gaveUp' = {}
  BY <1>1, <1>3
<1> QED
  BY <1>2, <1>3, <1>4, <1>5 DEF Bits, NoChannelNoCalls, BitsAreAsked, ConfigAwaits, StartIsAsked

(***************************************************************************)
(* The five callbacks, for a command that is under way.                    *)
(***************************************************************************)

(* A success: the bit is cleared, and the last one starts the hub.         *)
LEMMA LdsDone ==
  ASSUME LdsEntry, Bits, valid, valid', phase' = phase, sampling' = sampling,
         NEW f \in Awaitable, calls[f] > 0, Lds!Done(f)
  PROVE  LdsEntry' /\ Bits'
<1> DEFINE start == hub.bits \ {f} = {}
           fs == IF start THEN {"HubStartSampling"} ELSE {}
           c == Lds!Settled(f)
<1>1. /\ hub' = [hub EXCEPT !.bits = hub.bits \ {f}, !.state = IF start THEN "Sampling" ELSE @]
      /\ calls' = Lds!Issue(c, fs) /\ gaveUp' = gaveUp
  BY DEF Lds!Done
<1>2. c \in CallsType /\ \A g \in HubAsked : g # f => c[g] = calls[g]
  BY LdsSettled, LdsNames DEF LdsEntry
<1>3. start => "HubStartSampling" \in fs
  OBVIOUS
<1>4. /\ hub' \in [state : {"Off", "On", "Config", "Sampling"}, work : Works, bits : SUBSET Awaitable]
      /\ hub'.bits = hub.bits \ {f} /\ hub'.state = (IF start THEN "Sampling" ELSE hub.state)
  BY <1>1 DEF LdsEntry
<1> HIDE DEF fs, c
<1>5. calls' \in CallsType /\ \A g \in HubAsked : calls'[g] >= c[g]
  BY <1>1, <1>2, LdsIssue
<1>6. start => calls'["HubStartSampling"] > 0
  BY <1>1, <1>2, <1>3, LdsIssue, LdsNames
<1>7. LdsEntry'
  BY <1>4, <1>5 DEF LdsEntry
<1>8. \A g \in HubAsked : g # f /\ calls[g] > 0 => calls'[g] > 0
  BY <1>2, <1>5 DEF CallsType
<1>9. BitsAreAsked'
  BY <1>1, <1>4, <1>8, LdsNames DEF Bits, BitsAreAsked, LdsEntry
<1>10. NoChannelNoCalls'
  BY DEF NoChannelNoCalls
<1>11. ConfigAwaits'
  BY <1>4 DEF ConfigAwaits
<1>12. StartIsAsked'
  BY <1>4, <1>6, <1>8, LdsNames DEF Bits, StartIsAsked
<1> QED
  BY <1>7, <1>9, <1>10, <1>11, <1>12 DEF Bits

(* No success: the bit is given up, or asked for again.                    *)
LEMMA LdsFailed ==
  ASSUME LdsEntry, Bits, valid, valid', phase' = phase, sampling' = sampling,
         NEW f \in Awaitable, calls[f] > 0, NEW again \in SUBSET {f},
         calls' = Lds!Issue(Lds!Settled(f), again),
         hub' = [hub EXCEPT !.bits = @ \cup again],
         gaveUp \ again \subseteq gaveUp', f \notin again => f \in gaveUp'
  PROVE  LdsEntry' /\ Bits'
<1> DEFINE c == Lds!Settled(f)
<1>1. c \in CallsType /\ \A g \in HubAsked : g # f => c[g] = calls[g]
  BY LdsSettled, LdsNames DEF LdsEntry
<1>2. calls' = Lds!Issue(c, again)
  OBVIOUS
<1>3. /\ hub' \in [state : {"Off", "On", "Config", "Sampling"}, work : Works, bits : SUBSET Awaitable]
      /\ hub'.bits = hub.bits \cup again /\ hub'.state = hub.state
  BY DEF LdsEntry
<1> HIDE DEF c
<1>4. calls' \in CallsType /\ \A g \in HubAsked : calls'[g] >= c[g]
  BY <1>1, <1>2, LdsIssue
<1>5. f \in again => calls'[f] > 0
  BY <1>1, <1>2, LdsIssue, LdsNames
<1>6. LdsEntry'
  BY <1>3, <1>4 DEF LdsEntry
<1>7. \A g \in HubAsked : g # f /\ calls[g] > 0 => calls'[g] > 0
  BY <1>1, <1>4 DEF CallsType
<1>8. BitsAreAsked'
  BY <1>3, <1>5, <1>7, LdsNames DEF Bits, BitsAreAsked, LdsEntry
<1>9. NoChannelNoCalls' /\ ConfigAwaits'
  BY <1>3 DEF Bits, NoChannelNoCalls, ConfigAwaits
<1>10. StartIsAsked'
  BY <1>3, <1>7, LdsNames DEF Bits, StartIsAsked
<1> QED
  BY <1>6, <1>8, <1>9, <1>10 DEF Bits

LEMMA LdsSetting ==
  ASSUME LdsEntry, Bits, valid, valid', phase' = phase, sampling' = sampling,
         NEW f \in Lds!UnitSettings, calls[f] > 0, NEW outcome \in Outcomes,
         Lds!UnitSettingCb(f, outcome)
  PROVE  LdsEntry' /\ Bits'
<1>1. f \in Awaitable
  BY DEF Awaitable
<1>2. CASE outcome = "ok"
  BY <1>1, <1>2, LdsDone DEF Lds!UnitSettingCb
<1>3. CASE outcome = "timeout"
  <2>1. calls' = Lds!Settled(f) /\ gaveUp' = gaveUp \cup {f} /\ hub' = hub
    BY <1>3 DEF Lds!UnitSettingCb
  <2>2. calls' \in CallsType /\ \A g \in HubAsked : g # f => calls'[g] = calls[g]
    BY <1>1, <2>1, LdsSettled, LdsNames DEF LdsEntry
  <2>3. LdsEntry'
    BY <2>1, <2>2 DEF LdsEntry
  <2>4. BitsAreAsked'
    BY <2>1, <2>2, LdsNames DEF Bits, BitsAreAsked, LdsEntry
  <2>5. NoChannelNoCalls' /\ ConfigAwaits' /\ StartIsAsked'
    BY <1>1, <2>1, <2>2, LdsNames DEF Bits, NoChannelNoCalls, ConfigAwaits, StartIsAsked
  <2> QED
    BY <2>3, <2>4, <2>5 DEF Bits
<1>4. CASE outcome = "refused"
  <2> DEFINE again == Lds!Config(lidars) \cap {f}
  <2>1. /\ calls' = Lds!Issue(Lds!Settled(f), again)
        /\ hub' = [hub EXCEPT !.bits = @ \cup again]
        /\ gaveUp' = (gaveUp \ again) \cup ({f} \ again)
    BY <1>4 DEF Lds!UnitSettingCb
  <2>2. again \in SUBSET {f}
    OBVIOUS
  <2> HIDE DEF again
  <2>3. gaveUp \ again \subseteq gaveUp' /\ (f \notin again => f \in gaveUp')
    BY <2>1
  <2> QED
    BY <1>1, <2>1, <2>2, <2>3, LdsFailed
<1> QED
  BY <1>2, <1>3, <1>4 DEF Outcomes

LEMMA LdsCoordinate ==
  ASSUME LdsEntry, Bits, valid, valid', phase' = phase, sampling' = sampling,
         calls["SetCartesianCoordinate"] > 0, NEW outcome \in Outcomes,
         Lds!SetCoordinateCb(outcome)
  PROVE  LdsEntry' /\ Bits'
<1> DEFINE f == "SetCartesianCoordinate"
<1>1. f \in Awaitable
  BY DEF Awaitable
<1>2. CASE outcome # "timeout"
  BY <1>1, <1>2, LdsDone DEF Lds!SetCoordinateCb
<1>3. CASE outcome = "timeout"
  <2>1. calls' = Lds!Issue(Lds!Settled(f), {f}) /\ hub' = hub /\ gaveUp' = gaveUp
    BY <1>3 DEF Lds!SetCoordinateCb
  <2>2. Lds!Settled(f) \in CallsType /\ \A g \in HubAsked : g # f => Lds!Settled(f)[g] = calls[g]
    BY <1>1, LdsSettled, LdsNames DEF LdsEntry
  <2>3. /\ calls' \in CallsType /\ calls'[f] > 0
        /\ \A g \in HubAsked : g # f => calls'[g] = Lds!Settled(f)[g]
    BY <1>1, <2>1, <2>2, LdsIssue, LdsNames
  <2>4. \A g \in HubAsked : calls[g] > 0 => calls'[g] > 0
    BY <2>2, <2>3
  <2>5. LdsEntry'
    BY <2>1, <2>3 DEF LdsEntry
  <2> QED
    BY <1>1, <2>1, <2>4, <2>5, LdsNames
    DEF Bits, NoChannelNoCalls, BitsAreAsked, ConfigAwaits, StartIsAsked, LdsEntry
<1> QED
  BY <1>2, <1>3

LEMMA LdsQuery ==
  ASSUME LdsEntry, Bits, valid, valid', phase' = phase, sampling' = sampling,
         calls["HubQueryLidarInformation"] > 0, NEW outcome \in Outcomes,
         Lds!HubQueryLidarInfoCb(outcome)
  PROVE  LdsEntry' /\ Bits'
<1> DEFINE f == "HubQueryLidarInformation"
           asks == Lds!Config(lidars \cup plugged) \cup {"SetCartesianCoordinate"}
           c == Lds!Settled(f)
<1>1. c \in CallsType /\ \A g \in HubAsked : g # f => c[g] = calls[g]
  BY LdsSettled, LdsNames DEF LdsEntry
<1>2. asks \subseteq Awaitable /\ asks # {}
  BY DEF Awaitable, Lds!Config
<1>3. CASE outcome = "ok" /\ plugged # {}
  <2>1. /\ calls' = Lds!Issue(c, asks) /\ gaveUp' = gaveUp \ asks
        /\ hub' = [hub EXCEPT !.state = "Config", !.bits = @ \cup asks]
    BY <1>3 DEF Lds!HubQueryLidarInfoCb
  <2> HIDE DEF asks, c
  <2>2. /\ hub' \in [state : {"Off", "On", "Config", "Sampling"}, work : Works, bits : SUBSET Awaitable]
        /\ hub'.bits = hub.bits \cup asks /\ hub'.state = "Config"
    BY <1>2, <2>1 DEF LdsEntry
  <2>3. calls' \in CallsType /\ \A g \in HubAsked : calls'[g] >= c[g]
    BY <1>1, <2>1, LdsIssue
  <2>4. \A g \in HubAsked : g \in asks => calls'[g] > 0
    BY <1>1, <1>2, <2>1, LdsIssue
  <2>5. \A g \in HubAsked : g # f /\ calls[g] > 0 => calls'[g] > 0
    BY <1>1, <2>3 DEF CallsType
  <2>6. LdsEntry'
    BY <2>2, <2>3 DEF LdsEntry
  <2>7. BitsAreAsked'
    BY <1>2, <2>1, <2>2, <2>4, <2>5, LdsNames DEF Bits, BitsAreAsked, LdsEntry
  <2>8. NoChannelNoCalls' /\ ConfigAwaits' /\ StartIsAsked'
    BY <1>2, <2>2 DEF NoChannelNoCalls, ConfigAwaits, StartIsAsked
  <2> QED
    BY <2>6, <2>7, <2>8 DEF Bits
<1>4. CASE ~(outcome = "ok" /\ plugged # {})
  <2>1. calls' = Lds!Issue(c, {f}) /\ hub' = hub /\ gaveUp' = gaveUp
    BY <1>4 DEF Lds!HubQueryLidarInfoCb
  <2> HIDE DEF c
  <2>2. calls' \in CallsType /\ \A g \in HubAsked : calls'[g] >= c[g]
    BY <1>1, <2>1, LdsIssue
  <2>3. \A g \in HubAsked : g # f /\ calls[g] > 0 => calls'[g] > 0
    BY <1>1, <2>2 DEF CallsType
  <2>4. LdsEntry'
    BY <2>1, <2>2 DEF LdsEntry
  <2>5. BitsAreAsked'
    BY <2>1, <2>3, LdsNames DEF Bits, BitsAreAsked, LdsEntry
  <2>6. NoChannelNoCalls' /\ ConfigAwaits' /\ StartIsAsked'
    BY <2>1, <2>3, LdsNames DEF Bits, NoChannelNoCalls, ConfigAwaits, StartIsAsked
  <2> QED
    BY <2>4, <2>5, <2>6 DEF Bits
<1> QED
  BY <1>3, <1>4

(* The start: the hub samples, or its entry is set back.                   *)
LEMMA LdsStart ==
  ASSUME LdsEntry, Bits, valid, valid', phase' = phase, sampling' \in BOOLEAN,
         calls["HubStartSampling"] > 0, NEW outcome \in Outcomes,
         outcome = "ok" => sampling', Lds!StartSampleCb(outcome)
  PROVE  LdsEntry' /\ Bits'
<1>1. /\ calls' = Lds!Settled("HubStartSampling") /\ gaveUp' = gaveUp
      /\ IF outcome = "ok" THEN hub' = hub ELSE hub' = [hub EXCEPT !.state = "On"]
  BY DEF Lds!StartSampleCb
<1>2. calls' \in CallsType /\ \A g \in HubAsked : g # "HubStartSampling" => calls'[g] = calls[g]
  BY <1>1, LdsSettled, LdsNames DEF LdsEntry
<1>3. /\ hub' \in [state : {"Off", "On", "Config", "Sampling"}, work : Works, bits : SUBSET Awaitable]
      /\ hub'.bits = hub.bits /\ hub'.state = (IF outcome = "ok" THEN hub.state ELSE "On")
  BY <1>1 DEF LdsEntry
<1>4. LdsEntry'
  BY <1>2, <1>3 DEF LdsEntry
<1>5. BitsAreAsked'
  BY <1>1, <1>2, <1>3, LdsNames DEF Bits, BitsAreAsked, LdsEntry
<1>6. NoChannelNoCalls' /\ ConfigAwaits' /\ StartIsAsked'
  BY <1>3 DEF Bits, NoChannelNoCalls, ConfigAwaits, StartIsAsked
<1> QED
  BY <1>4, <1>5, <1>6 DEF Bits

(* Whose answer it is, and what was executed. *)
LEMMA LdsAnswer ==
  ASSUME LdsEntry, Bits, Lds!OnAnswer
  PROVE  LdsEntry' /\ Bits'
<1> DEFINE asked == Lds!UnitSettings \cup {"HubQueryLidarInformation", "SetCartesianCoordinate",
                                            "HubStartSampling"}
<1>1. PICK f \in asked, outcome \in Outcomes :
        /\ Lds!Answers(f, outcome)
        /\ CASE f \in Lds!UnitSettings -> Lds!UnitSettingCb(f, outcome)
             [] f = "HubQueryLidarInformation" -> Lds!HubQueryLidarInfoCb(outcome)
             [] f = "SetCartesianCoordinate" -> Lds!SetCoordinateCb(outcome)
             [] f = "HubStartSampling" -> Lds!StartSampleCb(outcome)
  BY DEF Lds!OnAnswer, Lds!Outcomes, Outcomes
<1>2. /\ calls[f] > 0 /\ phase' = phase /\ valid' = valid
      /\ sampling' \in {sampling, Lds!Executed(f)}
      /\ outcome = "ok" => sampling' = Lds!Executed(f)
  BY <1>1 DEF Lds!Answers, Lds!tableVars
<1>3. f \in HubAsked
  BY LdsNames DEF Awaitable
<1>4. valid /\ valid'
  BY <1>2, <1>3 DEF Bits, NoChannelNoCalls, LdsEntry
<1>5. CASE f \in Lds!UnitSettings
  <2>1. Lds!UnitSettingCb(f, outcome)
    BY <1>1, <1>5 DEF Lds!UnitSettings
  <2>2. sampling' = sampling
    BY <1>2, <1>5 DEF Lds!UnitSettings, Lds!Executed
  <2> QED
    BY <1>2, <1>4, <1>5, <2>1, <2>2, LdsSetting
<1>6. CASE f = "HubQueryLidarInformation"
  <2>1. Lds!HubQueryLidarInfoCb(outcome)
    BY <1>1, <1>6 DEF Lds!UnitSettings
  <2>2. sampling' = sampling
    BY <1>2, <1>6 DEF Lds!Executed
  <2> QED
    BY <1>2, <1>4, <1>6, <2>1, <2>2, LdsQuery
<1>7. CASE f = "SetCartesianCoordinate"
  <2>1. Lds!SetCoordinateCb(outcome)
    BY <1>1, <1>7 DEF Lds!UnitSettings
  <2>2. sampling' = sampling
    BY <1>2, <1>7 DEF Lds!Executed
  <2> QED
    BY <1>2, <1>4, <1>7, <2>1, <2>2, LdsCoordinate
<1>8. CASE f = "HubStartSampling"
  <2>1. Lds!StartSampleCb(outcome)
    BY <1>1, <1>8 DEF Lds!UnitSettings
  <2>2. sampling' \in BOOLEAN /\ (outcome = "ok" => sampling')
    BY <1>2, <1>8 DEF Lds!Executed, LdsEntry
  <2> QED
    BY <1>2, <1>4, <1>8, <2>1, <2>2, LdsStart
<1> QED
  BY <1>5, <1>6, <1>7, <1>8

(***************************************************************************)
(* The steps together.                                                     *)
(***************************************************************************)
LEMMA LdsProgram ==
  ASSUME LdsEntry, Bits, Lds!InitFails \/ Lds!Started \/ Lds!InitLdsHub \/ Lds!DeInitLdsHub
  PROVE  LdsEntry' /\ Bits'
<1>1. CASE Lds!InitFails \/ Lds!Started \/ Lds!InitLdsHub
  <2>1. UNCHANGED <<hub, gaveUp, calls, sampling, valid>>
    BY <1>1 DEF Lds!InitFails, Lds!Started, Lds!InitLdsHub, Lds!SdkIdle, Lds!tableVars, Lds!ldsVars
  <2>2. phase # "done"
    BY <1>1 DEF Lds!InitFails, Lds!Started, Lds!InitLdsHub
  <2> QED
    BY <2>1, <2>2, LdsIdle DEF LdsEntry
<1>2. CASE Lds!DeInitLdsHub
  <2>1. phase' = "done" /\ calls' = Lds!NoCalls /\ hub' = hub /\ valid' = valid
    BY <1>2 DEF Lds!DeInitLdsHub, Lds!Uninits, Lds!tableVars, Lds!ldsVars
  <2>2. sampling' \in BOOLEAN
    <3>1. \A f : Lds!Executed(f) \in BOOLEAN
      BY DEF Lds!Executed, LdsEntry
    <3> QED
      BY <1>2, <3>1 DEF Lds!DeInitLdsHub, Lds!Uninits, LdsEntry
  <2>3. LdsEntry'
    BY <2>1, <2>2, LdsNoCalls DEF LdsEntry
  <2> QED
    BY <2>1, <2>3, LdsNoCalls DEF Bits, NoChannelNoCalls, BitsAreAsked, ConfigAwaits, StartIsAsked
<1> QED
  BY <1>1, <1>2

LEMMA LdsQuiet ==
  ASSUME LdsEntry, Bits, Lds!Quiet, UNCHANGED Lds!ldsVars
  PROVE  LdsEntry' /\ Bits'
<1>1. UNCHANGED <<hub, gaveUp, calls, sampling, phase>> /\ valid' \in {valid, TRUE}
  BY DEF Lds!Quiet, Lds!HandshakeAck, Lds!DeviceFound, Lds!HandshakeExpires, Lds!HubExecutes,
         Lds!QueryTimesOut, Lds!UnitsChange, Lds!tableVars, Lds!ldsVars
<1> QED
  BY <1>1, LdsIdle DEF LdsEntry

(* A state that a heartbeat brings is noted if the flag of the hub is set. *)
LEMMA LdsState ==
  ASSUME LdsEntry, Bits, Lds!OnStateChange
  PROVE  LdsEntry' /\ Bits'
<1>1. PICK w \in Works :
        /\ Lds!ChangesState(w)
        /\ IF Hub \in connected
           THEN Lds!OnDeviceInfoChange("StateChange", w)
           ELSE UNCHANGED <<calls, Lds!ldsVars>>
  BY DEF Lds!OnStateChange, Lds!Works, Works
<1>2. valid /\ UNCHANGED <<phase, valid, sampling>>
  BY <1>1 DEF Lds!ChangesState
<1>3. CASE Hub \in connected
  <2>1. Lds!OnDeviceInfoChange("StateChange", w)
    BY <1>1, <1>3
  <2> QED
    BY <1>2, <2>1, LdsInfoChange
<1>4. CASE Hub \notin connected
  BY <1>1, <1>2, <1>4, LdsIdle DEF LdsEntry, Lds!ldsVars
<1> QED
  BY <1>3, <1>4

LEMMA LdsBroadcast ==
  ASSUME LdsEntry, Bits, Lds!OnDeviceBroadcast
  PROVE  LdsEntry' /\ Bits'
<1>1. UNCHANGED <<hub, gaveUp, calls, sampling, valid>>
  BY DEF Lds!OnDeviceBroadcast, Lds!Broadcasts, Lds!ldsVars
<1>2. phase # "done"
  BY DEF Lds!OnDeviceBroadcast, Lds!Broadcasts, Lds!Up
<1> QED
  BY <1>1, <1>2, LdsIdle DEF LdsEntry

(* The answer to a query is only heard while there is a channel.           *)
LEMMA LdsConnection ==
  ASSUME LdsEntry, Bits, Table, Unbound, Lds!OnHubConnectionChange
  PROVE  LdsEntry' /\ Bits'
<1>1. queries # <<>> /\ UNCHANGED <<phase, valid, sampling>>
  BY DEF Lds!OnHubConnectionChange, Lds!QueryAnswered
<1>2. valid
  BY <1>1 DEF Unbound
<1>3. Lds!OnDeviceInfoChange("HubConnectionChange", work) /\ work \in Works
  BY DEF Lds!OnHubConnectionChange, Table
<1> QED
  BY <1>1, <1>2, <1>3, LdsInfoChange

LEMMA LdsNext ==
  ASSUME LdsEntry, Bits, Table, Unbound, Lds!Next
  PROVE  LdsEntry' /\ Bits'
<1>1. CASE Lds!InitFails \/ Lds!Started \/ Lds!InitLdsHub \/ Lds!DeInitLdsHub
  BY <1>1, LdsProgram
<1>2. CASE Lds!Event
  BY <1>2, LdsBroadcast, LdsConnection, LdsState, LdsDisconnect, LdsAnswer DEF Lds!Event
<1>3. CASE Lds!Quiet /\ UNCHANGED Lds!ldsVars
  BY <1>3, LdsQuiet
<1> QED
  BY <1>1, <1>2, <1>3 DEF Lds!Next

(***************************************************************************)
(* Any of the programs: the session's part of the state.                   *)
(***************************************************************************)
SessionStep ==
  \/ \E adds \in BOOLEAN : Broadcasts(adds)
  \/ \E w \in Works : ChangesState(w)
  \/ HubRemoved \/ QueryAnswered \/ Quiet
  \/ UNCHANGED <<tableVars, queryVars>>

LEMMA SessionFresh ==
  ASSUME Table, Queries, Fresh, SessionStep
  PROVE  Table' /\ Queries' /\ Fresh'
<1>1. CASE \E adds \in BOOLEAN : Broadcasts(adds)
  BY <1>1, BroadcastFresh
<1>2. CASE \E w \in Works : ChangesState(w)
  BY <1>2, StateFresh
<1>3. CASE Quiet
  BY <1>3, ShakeFresh, ExpireFresh, ExecuteFresh, TimesOutFresh, ChangeFresh DEF Quiet
<1> QED
  BY <1>1, <1>2, <1>3, RemovedFresh, AnsweredFresh, IdleFresh DEF SessionStep

LEMMA SampleSession == ASSUME Next PROVE SessionStep
<1>1. CASE Program
  BY <1>1 DEF Program, StartFails, Start, StopHub, Uninit, SdkIdle, Uninits, SessionStep
<1>2. CASE OnDeviceBroadcast \/ OnHubConnectionChange \/ OnStateChange \/ OnDisconnect
  BY <1>2 DEF OnDeviceBroadcast, OnHubConnectionChange, OnStateChange, OnDisconnect, SessionStep
<1>3. CASE OnSampleCallback \/ OnStopSampleCallback
  BY <1>3 DEF OnSampleCallback, OnStopSampleCallback, Answers, SessionStep
<1>4. CASE Quiet
  BY <1>4 DEF SessionStep
<1> QED
  BY <1>1, <1>2, <1>3, <1>4 DEF Next, Event

LEMMA RecorderSession == ASSUME Recorder!Next, coded \in BOOLEAN PROVE SessionStep
<1> USE DEF Recorder!Up, Up, Recorder!queryVars, queryVars, Recorder!tableVars, tableVars,
            Recorder!Spent, Spent
<1>1. CASE Recorder!Program
  BY <1>1 DEF Recorder!Program, Recorder!StartFails, Recorder!Start, Recorder!StopHub,
    Recorder!Uninit, Recorder!SdkIdle, Recorder!Uninits, Recorder!Wait, Recorder!InitLvxFileFails,
    Recorder!InitLvxFileHeader, Recorder!SaveFrame, Recorder!hubVars, SessionStep
<1>2. CASE Recorder!OnDeviceBroadcast
  <2>1. Broadcasts(coded)
    BY <1>2 DEF Recorder!OnDeviceBroadcast, Recorder!Broadcasts, Broadcasts
  <2> QED
    BY <2>1 DEF SessionStep
<1>3. CASE Recorder!OnHubConnectionChange
  BY <1>3 DEF Recorder!OnHubConnectionChange, Recorder!QueryAnswered, QueryAnswered,
    Recorder!IsLast, IsLast, Recorder!RemoveAt, RemoveAt, SessionStep
<1>4. CASE Recorder!OnStateChange
  <2>1. PICK w \in Works : Recorder!ChangesState(w)
    BY <1>4 DEF Recorder!OnStateChange, Recorder!Works, Works
  <2>2. ChangesState(w)
    BY <2>1 DEF Recorder!ChangesState, ChangesState
  <2> QED
    BY <2>2 DEF SessionStep
<1>5. CASE Recorder!OnDisconnect
  BY <1>5 DEF Recorder!OnDisconnect, Recorder!HubRemoved, HubRemoved, Recorder!NoCalls, NoCalls,
    Recorder!HubAsked, HubAsked, SessionStep
<1>6. CASE \/ Recorder!OnSampleCallback \/ Recorder!OnStopSampleCallback
           \/ Recorder!OnGetLidarUnitsExtrinsicParameter \/ Recorder!GetHubData
  BY <1>6 DEF Recorder!OnSampleCallback, Recorder!OnStopSampleCallback, Recorder!GetHubData,
    Recorder!OnGetLidarUnitsExtrinsicParameter, Recorder!Answers, Recorder!hubVars, SessionStep
<1>7. CASE Recorder!Quietly
  BY <1>7, RecorderQuiet DEF Recorder!Quietly, SessionStep
<1> QED
  BY <1>1, <1>2, <1>3, <1>4, <1>5, <1>6, <1>7 DEF Recorder!Next, Recorder!Event

LEMMA LdsSession == ASSUME Lds!Next PROVE SessionStep
<1> USE DEF Lds!Up, Up, Lds!queryVars, queryVars, Lds!tableVars, tableVars, Lds!Spent, Spent,
            Lds!Query, Query
<1>1. CASE Lds!InitFails \/ Lds!Started \/ Lds!InitLdsHub \/ Lds!DeInitLdsHub
  BY <1>1 DEF Lds!InitFails, Lds!Started, Lds!InitLdsHub, Lds!DeInitLdsHub, Lds!SdkIdle,
    Lds!Uninits, SessionStep
<1>2. CASE Lds!OnDeviceBroadcast
  <2>1. PICK adds : adds = (phase = "running" /\ wanted /\ hub.state = "Off") /\ Lds!Broadcasts(adds)
    BY <1>2 DEF Lds!OnDeviceBroadcast
  <2>2. Broadcasts(adds) /\ adds \in BOOLEAN
    BY <2>1 DEF Lds!Broadcasts, Broadcasts
  <2> QED
    BY <2>2 DEF SessionStep
<1>3. CASE Lds!OnHubConnectionChange
  BY <1>3 DEF Lds!OnHubConnectionChange, Lds!QueryAnswered, QueryAnswered, Lds!IsLast, IsLast,
    Lds!RemoveAt, RemoveAt, Lds!Spent, Spent, SessionStep
<1>4. CASE Lds!OnStateChange
  <2>1. PICK w \in Works : Lds!ChangesState(w)
    BY <1>4 DEF Lds!OnStateChange, Lds!Works, Works
  <2>2. ChangesState(w)
    BY <2>1 DEF Lds!ChangesState, ChangesState
  <2> QED
    BY <2>2 DEF SessionStep
<1>5. CASE Lds!OnDisconnect
  BY <1>5 DEF Lds!OnDisconnect, Lds!HubRemoved, HubRemoved, Lds!NoCalls, NoCalls, Lds!HubAsked,
    HubAsked, SessionStep
<1>6. CASE Lds!OnAnswer
  BY <1>6 DEF Lds!OnAnswer, Lds!Answers, SessionStep
<1>7. CASE Lds!Quiet
  BY <1>7 DEF Lds!Quiet, Quiet, Lds!HandshakeAck, HandshakeAck, Lds!DeviceFound, DeviceFound,
    Lds!HandshakeExpires, HandshakeExpires, Lds!HubExecutes, HubExecutes, Lds!QueryTimesOut,
    QueryTimesOut, Lds!TimesOut, TimesOut, Lds!IsLast, IsLast, Lds!RemoveAt, RemoveAt, Lds!Query,
    Query, Lds!UnitsChange,     UnitsChange, SessionStep
<1> QED
  BY <1>1, <1>2, <1>3, <1>4, <1>5, <1>6, <1>7 DEF Lds!Next, Lds!Event

(***************************************************************************)
(* The data source's main thread and its bounds.                           *)
(***************************************************************************)
Bounds == left \in [events : 0..MaxEvents, faults : 0..MaxFaults]
Phases == phase \in {"off", "starting", "running", "stopping", "done", "crashed"}

LEMMA LdsBounds ==
  ASSUME Bounds, Phases, Lds!Next
  PROVE  Bounds' /\ Phases'
<1> USE DEF Bounds, Phases
<1>1. /\ left.faults > 0 /\ left' = Lds!Spent("faults") => Bounds'
      /\ left.events > 0 /\ left' = Lds!Spent("events") => Bounds'
  BY SpentType DEF Lds!Spent, Spent
<1>2. CASE Lds!InitFails \/ Lds!Started \/ Lds!InitLdsHub \/ Lds!DeInitLdsHub
  BY <1>2 DEF Lds!InitFails, Lds!Started, Lds!InitLdsHub, Lds!DeInitLdsHub, Lds!SdkIdle, Lds!Uninits
<1>3. CASE Lds!OnDeviceBroadcast
  <2>1. Bounds'
    BY <1>1, <1>3 DEF Lds!OnDeviceBroadcast, Lds!Broadcasts
  <2> QED
    BY <1>3, <2>1 DEF Lds!OnDeviceBroadcast
<1>4. CASE Lds!OnHubConnectionChange
  BY <1>1, <1>4 DEF Lds!OnHubConnectionChange, Lds!QueryAnswered
<1>5. CASE Lds!OnStateChange
  BY <1>1, <1>5 DEF Lds!OnStateChange, Lds!ChangesState
<1>6. CASE Lds!OnDisconnect
  BY <1>1, <1>6 DEF Lds!OnDisconnect, Lds!HubRemoved
<1>7. CASE Lds!OnAnswer
  BY <1>1, <1>7 DEF Lds!OnAnswer, Lds!Answers
<1>8. CASE Lds!HandshakeAck \/ Lds!HandshakeExpires \/ Lds!HubExecutes
  BY <1>8 DEF Lds!HandshakeAck, Lds!HandshakeExpires, Lds!HubExecutes
<1>9. CASE Lds!QueryTimesOut
  BY <1>1, <1>9 DEF Lds!QueryTimesOut
<1>10. CASE Lds!UnitsChange
  <2>1. phase' = phase /\ left.events > 0
    BY <1>10 DEF Lds!UnitsChange
  <2>2. \/ left' = Lds!Spent("events")
        \/ left.faults > 0 /\ left' = [events |-> left.events - 1, faults |-> left.faults - 1]
    BY <1>10 DEF Lds!UnitsChange
  <2>3. CASE left.faults > 0 /\ left' = [events |-> left.events - 1, faults |-> left.faults - 1]
    BY <2>1, <2>3, HubBoundsAssumption
  <2> QED
    BY <1>1, <2>1, <2>2, <2>3
<1> QED
  BY <1>2, <1>3, <1>4, <1>5, <1>6, <1>7, <1>8, <1>9, <1>10 DEF Lds!Next, Lds!Event, Lds!Quiet

(***************************************************************************)
(* The invariant of the programs.                                          *)
(***************************************************************************)
SessionInv == Table /\ Queries /\ Fresh
SampleInv == program # "lds_hub" => SampleParts
LdsInv ==
  program = "lds_hub" =>
    LdsEntry /\ Bits /\ Bounds /\ Phases /\ Entry /\ devices.state # "Sampling"
ProgramsInv == SessionInv /\ SampleInv /\ LdsInv /\ coded \in BOOLEAN

LEMMA ProgramsInitHolds == ProgramsInit => ProgramsInv
<1> SUFFICES ASSUME ProgramsInit PROVE ProgramsInv
  OBVIOUS
<1> USE HubBoundsAssumption
<1>1. HubInit /\ devices = [state |-> "Disconnect", work |-> "Init"] /\ coded \in BOOLEAN
  BY DEF ProgramsInit, Init, NoRecorder, Recorder!Init, Recorder!HubInit, HubInit,
         Recorder!NoCalls, NoCalls, Recorder!HubAsked, HubAsked
<1>2. Table
  <2>1. 0 \in 0..MaxShakes
    OBVIOUS
  <2> QED
    BY <1>1, <2>1 DEF HubInit, Table, Works
<1>3. Queries
  BY <1>1, EmptyType DEF HubInit, Queries, Tells
<1>4. Fresh
  BY <1>1 DEF HubInit, Fresh, Unbound, LastIsFresh, TableIsFresh
<1>5. Bounds
  BY <1>1 DEF HubInit, Bounds
<1>6. calls \in CallsType /\ \A f \in HubAsked : calls[f] = 0
  BY <1>1, NoCallsType DEF HubInit
<1>7. Entry /\ devices.state = "Disconnect"
  BY <1>1 DEF Entry, Works
<1>8. SampleParts
  BY <1>1, <1>5, <1>6, <1>7, NamesAsked
  DEF SampleParts, HubInit, Bounds, Rest, Told, ClearedIsBack, StopIsLast, StateIsTrue
<1>9. ASSUME program = "lds_hub"
      PROVE  LdsEntry /\ Bits /\ Phases
  <2>1. hub = [state |-> "Off", work |-> "Init", bits |-> {}]
    BY <1>9 DEF ProgramsInit, Lds!Init
  <2>2. sampling = FALSE /\ valid = FALSE /\ phase = "off"
    BY <1>1 DEF HubInit
  <2>3. LdsEntry
    BY <1>6, <2>1, <2>2 DEF LdsEntry, Works
  <2> QED
    BY <1>6, <2>1, <2>2, <2>3
    DEF Bits, NoChannelNoCalls, BitsAreAsked, ConfigAwaits, StartIsAsked, Phases
<1> QED
  BY <1>1, <1>2, <1>3, <1>4, <1>5, <1>7, <1>8, <1>9 DEF ProgramsInv, SessionInv, SampleInv, LdsInv

LEMMA ProgramsNextHolds == ProgramsInv /\ [ProgramsNext]_vars => ProgramsInv'
<1> SUFFICES ASSUME ProgramsInv, [ProgramsNext]_vars PROVE ProgramsInv'
  OBVIOUS
<1>1. Table /\ Queries /\ Fresh /\ Unbound /\ coded \in BOOLEAN
  BY DEF ProgramsInv, SessionInv, Fresh
<1>2. CASE Runs("lds_hub") /\ Lds!Next /\ NotLds
  <2>1. program = "lds_hub" /\ program' = program /\ devices' = devices /\ coded' = coded
    BY <1>2 DEF Runs, NotLds, recorderOnly
  <2>2. SessionInv'
    BY <1>1, <1>2, LdsSession, SessionFresh DEF SessionInv
  <2>3. LdsEntry /\ Bits /\ Bounds /\ Phases /\ Entry /\ devices.state # "Sampling"
    BY <2>1 DEF ProgramsInv, LdsInv
  <2>4. LdsEntry' /\ Bits'
    BY <1>1, <1>2, <2>3, LdsNext
  <2>5. Bounds' /\ Phases'
    BY <1>2, <2>3, LdsBounds
  <2>6. Entry' /\ devices'.state # "Sampling"
    BY <2>1, <2>3 DEF Entry
  <2> QED
    BY <1>1, <2>1, <2>2, <2>4, <2>5, <2>6 DEF ProgramsInv, SampleInv, LdsInv
<1>3. CASE Runs("sample") /\ Next /\ NotSample
  <2>1. program = "sample" /\ program' = program /\ coded' = coded
    BY <1>3 DEF Runs, NotSample, recorderOnly
  <2>2. SessionInv'
    BY <1>1, <1>3, SampleSession, SessionFresh DEF SessionInv
  <2>3. SampleParts
    BY <2>1 DEF ProgramsInv, SampleInv
  <2>4. SampleParts'
    BY <1>1, <1>3, <2>3, SampleNext
  <2> QED
    BY <1>1, <2>1, <2>2, <2>4 DEF ProgramsInv, SampleInv, LdsInv
<1>4. CASE Runs("recorder") /\ Recorder!Next /\ NotRecorder
  <2>1. program = "recorder" /\ program' = program
    BY <1>4 DEF Runs
  <2>2. SessionInv'
    BY <1>1, <1>4, RecorderSession, SessionFresh DEF SessionInv
  <2>3. SampleParts
    BY <2>1 DEF ProgramsInv, SampleInv
  <2>4. SampleParts' /\ coded' \in BOOLEAN
    BY <1>1, <1>4, <2>3, RecorderNext
  <2> QED
    BY <2>1, <2>2, <2>4 DEF ProgramsInv, SampleInv, LdsInv
<1>5. CASE UNCHANGED vars
  <2>1. UNCHANGED <<program, coded, hub, gaveUp, devices>> /\ UNCHANGED <<tableVars, queryVars>>
        /\ UNCHANGED <<phase, valid, connected, queries, sampling, calls, left>>
    BY <1>5 DEF vars, ldsVars, recorderOnly, hubVars, tableVars, queryVars
  <2>2. SessionInv'
    BY <1>1, <2>1, IdleFresh DEF SessionInv
  <2>3. SampleInv'
    BY <2>1, PartsIdle DEF ProgramsInv, SampleInv
  <2>4. ASSUME program = "lds_hub"
        PROVE  LdsEntry' /\ Bits' /\ Bounds' /\ Phases' /\ Entry' /\ devices'.state # "Sampling"
    <3>1. LdsEntry /\ Bits /\ Bounds /\ Phases /\ Entry /\ devices.state # "Sampling"
      BY <2>4 DEF ProgramsInv, LdsInv
    <3>2. LdsEntry' /\ Bits'
      BY <2>1, <3>1, LdsIdle DEF LdsEntry
    <3> QED
      BY <2>1, <3>1, <3>2 DEF Bounds, Phases, Entry
  <2> QED
    BY <1>1, <2>1, <2>2, <2>3, <2>4 DEF ProgramsInv, LdsInv
<1> QED
  BY <1>2, <1>3, <1>4, <1>5 DEF ProgramsNext

LEMMA ProgramsInvAlways == ProgramsSpec => []ProgramsInv
BY ProgramsInitHolds, ProgramsNextHolds, PTL DEF ProgramsSpec

(***************************************************************************)
(* The theorems.                                                           *)
(***************************************************************************)

(* Whichever program runs, the variables of the session and the hub's      *)
(* entry keep their types.                                                 *)
THEOREM TypeCorrect == ProgramsSpec => []TypeOK
<1>1. ProgramsInv => TypeOK
  <2> SUFFICES ASSUME ProgramsInv PROVE TypeOK
    OBVIOUS
  <2>1. Table /\ Queries
    BY DEF ProgramsInv, SessionInv
  <2>2. Rest /\ Entry
    BY DEF ProgramsInv, SampleInv, LdsInv, SampleParts, LdsEntry, Bounds, Phases, Rest
  <2> QED
    BY <2>1, <2>2, HubTypeParts DEF TypeOK, Entry
<1> QED
  BY <1>1, ProgramsInvAlways, PTL

(* Whichever program runs, the table of a connected hub names exactly the  *)
(* units in it when DeviceManager has no query under way, or its last was  *)
(* the last to be answered: however often the hub goes, late broadcasts    *)
(* clear its flag, queries time out, are refused or overtake each other    *)
(* and units change, unless a lost push, a refusal or an answer overtaken  *)
(* by a newer one was followed by no query.                                *)
THEOREM UnitsToldAlways == ProgramsSpec => []UnitsTold
<1>1. ProgramsInv => UnitsTold
  BY DEF ProgramsInv, SessionInv, Queries, Tells, Fresh, LastIsFresh, TableIsFresh, UnitsTold
<1> QED
  BY <1>1, ProgramsInvAlways, PTL

(* The state that the sample and the recorder keep of the hub is true once *)
(* DeviceManager's queries are answered: a hub taken for sampling samples  *)
(* or was told to.                                                         *)
THEOREM SamplingIsTrueAlways == ProgramsSpec => []SamplingIsTrue
<1>1. ProgramsInv => SamplingIsTrue
  BY DEF ProgramsInv, SampleInv, LdsInv, SampleParts, Told, StateIsTrue, SamplingIsTrue
<1> QED
  BY <1>1, ProgramsInvAlways, PTL

(* A setting that the data source awaits has a command on its way, unless  *)
(* it was given up, and a hub that it takes for sampling samples or was    *)
(* told to.                                                                *)
THEOREM HubBitIsAskedAlways == ProgramsSpec => []HubBitIsAsked
<1>1. ProgramsInv => HubBitIsAsked
  BY DEF ProgramsInv, LdsInv, Bits, BitsAreAsked, ConfigAwaits, StartIsAsked, HubBitIsAsked,
         Lds!HubBitIsAsked
<1> QED
  BY <1>1, ProgramsInvAlways, PTL
===============================================================================
