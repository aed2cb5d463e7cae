------------------------------ MODULE Connection ------------------------------
(***************************************************************************)
(* How a LiDAR that is plugged in directly becomes a connected device and  *)
(* ceases to be one: DeviceDiscovery (broadcasts, handshakes and their     *)
(* expiry), DeviceManager (the table of handles, the connected flag, the   *)
(* events told to the program), LidarCommandHandlerImpl (the list of       *)
(* command channels) and LidarDataHandlerImpl (the list of data threads).  *)
(*                                                                         *)
(* Every action but the program's and the devices' is one handler on the   *)
(* IO thread.  A command channel appears only through its heartbeat and    *)
(* its query for device information; CommandChannel has the rest.          *)
(* Both handler lists are searched by handle for the first match, so they  *)
(* are kept as one list per handle.                                        *)
(***************************************************************************)
EXTENDS Naturals, Sequences, FiniteSets

CONSTANTS
    Device,        \* the devices on the network, known by broadcast code
    NoDevice,      \* the empty broadcast code
    MaxHandle,     \* kMaxConnectedDeviceNum
    ExpireTicks,   \* the 500 ms a handshake may take
    HbLimit,       \* the 3 s of silence a channel tolerates
    BroadcastGap,  \* ticks between two broadcasts of each device, as processed
    BindFails,     \* whether the channel of a new device may get no socket
    MaxAttempts    \* bound of the model on port_count

ASSUME ConnectionAssumption ==
    /\ NoDevice \notin Device
    /\ MaxHandle \in Nat /\ ExpireTicks \in Nat /\ HbLimit \in Nat
    /\ BroadcastGap \in [Device -> Nat] /\ MaxAttempts \in Nat
    /\ BindFails \in BOOLEAN

Handle == 0..MaxHandle - 1
Port == 1..MaxAttempts

VARIABLES
    code,        \* devices_[h].info.broadcast_code
    connected,   \* devices_[h].connected
    told,        \* the last connection event the program heard of for h
    portCount,   \* DeviceDiscovery::port_count
    connecting,  \* connecting_devices_
    channels,    \* the channels of LidarCommandHandlerImpl::devices_ for h
    threads,     \* the data ports of LidarDataHandlerImpl::devices_ for h
    sinceSeen,   \* ticks since a broadcast of the device was processed
    alive        \* the device is running

vars == <<code, connected, told, portCount, connecting, channels, threads,
          sinceSeen, alive>>

\* A socket of connecting_devices_: its handshake has been sent or not.
Entry == [handle : Handle, port : Port, age : 0..ExpireTicks + 1, sent : BOOLEAN]
\* asks: the queries for device information that wait on this channel.
\* bound: Bind got a socket, so that the IO loop serves the channel.
Channel == [port : Port, silence : 0..HbLimit + 1, asks : Nat, bound : BOOLEAN]
NewChannel(port, bound) == [port |-> port, silence |-> 0, asks |-> 0, bound |-> bound]

TypeOK ==
    /\ code \in [Handle -> Device \cup {NoDevice}]
    /\ connected \in [Handle -> BOOLEAN]
    /\ told \in [Handle -> {"none", "connect", "disconnect"}]
    /\ portCount \in 0..MaxAttempts
    /\ connecting \in SUBSET Entry
    /\ channels \in [Handle -> Seq(Channel)]
    /\ threads \in [Handle -> Seq(Port)]
    /\ sinceSeen \in [Device -> Nat] /\ \A d \in Device : sinceSeen[d] <= BroadcastGap[d]
    /\ alive \in [Device -> BOOLEAN]

Init ==
    /\ code = [h \in Handle |-> NoDevice]
    /\ connected = [h \in Handle |-> FALSE]
    /\ told = [h \in Handle |-> "none"]
    /\ portCount = 0
    /\ connecting = {}
    /\ channels = [h \in Handle |-> <<>>]
    /\ threads = [h \in Handle |-> <<>>]
    /\ sinceSeen = BroadcastGap
    /\ alive = [d \in Device |-> TRUE]

-----------------------------------------------------------------------------
(* AddLidarToConnect on a program thread: AddListeningDevice scans the     *)
(* table for the first slot that is free or already has this code.         *)
IsFirst(h, S) == h \in S /\ \A g \in S : h <= g

AddLidarToConnect(d) ==
    \E h \in Handle :
        /\ IsFirst(h, {g \in Handle : code[g] \in {NoDevice, d}})
        /\ code[h] = NoDevice
        /\ code' = [code EXCEPT ![h] = d]
        /\ connected' = [connected EXCEPT ![h] = FALSE]
        /\ UNCHANGED <<told, portCount, connecting, channels, threads,
                       sinceSeen, alive>>

-----------------------------------------------------------------------------
(* Discovery.                                                              *)

\* Mutant: OnTimer compares the wrong way round and keeps the old entries.
Unexpired_Inverted(entries) == {e \in entries : ~(e.age < ExpireTicks)}

\* What DeviceDiscovery::OnTimer leaves: the sockets of handshakes that have
\* taken too long are removed from the loop, closed and forgotten.
Unexpired(entries) == {e \in entries : ~(e.age > ExpireTicks)}

\* sendto failed: the entry keeps the epoch as its time and is already late.
NewEntry(h, sent) ==
    [handle |-> h, port |-> portCount + 1, sent |-> sent,
     age |-> IF sent THEN 0 ELSE ExpireTicks + 1]

(* The handshake part of OnBroadcast.  The port number is used up first;   *)
(* if no socket can be made nothing else happens.  Otherwise the discovery *)
(* timer runs, and the new socket is entered - unless no local address is  *)
(* in the device's subnet - whether sendto succeeds or not.                *)
StartHandshake(h) ==
    /\ portCount' = portCount + 1
    /\ \/ UNCHANGED connecting
       \/ connecting' = Unexpired(connecting)
       \/ \E sent \in BOOLEAN :
             connecting' = Unexpired(connecting) \cup {NewEntry(h, sent)}

\* Mutant: a device that is connected is offered a new handshake.
Wanted_EvenConnected(h, d) == code[h] = d

Wanted(h, d) == code[h] = d /\ ~connected[h]

(* A broadcast is processed; the device may have been switched off since.  *)
OnBroadcast(d) ==
    /\ sinceSeen[d] >= BroadcastGap[d]
    /\ portCount < MaxAttempts
    /\ sinceSeen' = [sinceSeen EXCEPT ![d] = 0]
    /\ LET found == {g \in Handle : code[g] = d}
       IN \/ /\ ~ \E h \in found : IsFirst(h, found) /\ Wanted(h, d)
             /\ UNCHANGED <<portCount, connecting>>
          \/ \E h \in found : IsFirst(h, found) /\ Wanted(h, d) /\ StartHandshake(h)
    /\ UNCHANGED <<code, connected, told, channels, threads, alive>>

DiscoveryOnTimer ==
    /\ connecting # Unexpired(connecting)
    /\ connecting' = Unexpired(connecting)
    /\ UNCHANGED <<code, connected, told, portCount, channels, threads,
                   sinceSeen, alive>>

\* SendCommand hands the query to the first channel of the handle.
AskFirst(list) ==
    IF list = <<>> THEN list ELSE [list EXCEPT ![1].asks = @ + 1]

(* DeviceFound: the manager marks the handle connected, a command channel  *)
(* and a data thread are appended, and the device is asked for its         *)
(* information; the program is told when the answer is there.  All this    *)
(* happens even if Bind fails and the channel has no socket.               *)
DeviceFound(h, port, bound) ==
    /\ connected' = [connected EXCEPT ![h] = TRUE]
    /\ channels' = [channels EXCEPT ![h] = AskFirst(Append(@, NewChannel(port, bound)))]
    /\ threads' = [threads EXCEPT ![h] = Append(@, port)]

(* OnData with a handshake acknowledgement for the socket of e.  It may    *)
(* come at any time the socket is open, or never; later the socket is      *)
(* closed and it is lost.  ok: the device's ret_code is 0.                 *)
OnHandshakeAck(e, ok, bound) ==
    /\ e.sent
    /\ bound \/ BindFails
    /\ connecting' = connecting \ {e}
    /\ IF ok
       THEN DeviceFound(e.handle, e.port, bound)
       ELSE UNCHANGED <<connected, channels, threads>>
    /\ UNCHANGED <<code, told, portCount, sinceSeen, alive>>

-----------------------------------------------------------------------------
(* A connected device.                                                     *)

Answers(h) == code[h] \in Device /\ alive[code[h]]

OnHeartbeatAck(h, i) ==
    /\ Answers(h) /\ channels[h][i].bound
    /\ channels' = [channels EXCEPT ![h][i].silence = 0]
    /\ UNCHANGED <<code, connected, told, portCount, connecting, threads,
                   sinceSeen, alive>>

\* The i-th channel's query is over: its entry leaves commands_.
Settled(list, i) == [list EXCEPT ![i].asks = @ - 1]

(* QueryDeviceInformationCallback with an answer: the program hears that   *)
(* the device is connected.                                                *)
QueryAnswered(h, i) ==
    /\ channels[h][i].asks > 0
    /\ Answers(h) /\ channels[h][i].bound
    /\ channels' = [channels EXCEPT ![h] = Settled(@, i)]
    /\ told' = [told EXCEPT ![h] = "connect"]
    /\ UNCHANGED <<code, connected, portCount, connecting, threads, sinceSeen,
                   alive>>

\* Mutant: a query that timed out is not sent again.
Retry_Never(h, list) == list

\* The query is sent again only to a device that is still connected.
Retry(h, list) == IF connected[h] THEN AskFirst(list) ELSE list

(* The same callback when the query has timed out - it does so even if     *)
(* sendto failed, for Send enters it in commands_ all the same.            *)
QueryTimedOut(h, i) ==
    /\ channels[h][i].asks > 0
    /\ channels[h][i].bound
    /\ channels' = [channels EXCEPT ![h] = Retry(h, Settled(@, i))]
    /\ UNCHANGED <<code, connected, told, portCount, connecting, threads,
                   sinceSeen, alive>>

\* Mutant: the data thread of a removed device is left running.
StopThread_Forgotten(list) == list

StopThread(list) == IF list = <<>> THEN list ELSE Tail(list)

\* Mutant: a channel that still waits for an answer is not given up.
TooSilent_UnlessAsking(channel) == channel.silence > HbLimit /\ channel.asks = 0

TooSilent(channel) == channel.silence > HbLimit

(* CommandChannel::OnTimer of the i-th channel finds the silence too long. *)
(* DeviceRemove goes by the handle: the first channel and the first data   *)
(* thread of the handle are destroyed, and the program is told.            *)
ChannelOnTimer(h, i) ==
    /\ channels[h][i].bound
    /\ TooSilent(channels[h][i])
    /\ connected' = [connected EXCEPT ![h] = FALSE]
    /\ channels' = [channels EXCEPT ![h] = Tail(@)]
    /\ threads' = [threads EXCEPT ![h] = StopThread(@)]
    /\ told' = [told EXCEPT ![h] = "disconnect"]
    /\ UNCHANGED <<code, portCount, connecting, sinceSeen, alive>>

-----------------------------------------------------------------------------
(* Devices are switched off and on; time passes.                           *)
SwitchDevice(d) ==
    /\ alive' = [alive EXCEPT ![d] = ~@]
    /\ UNCHANGED <<code, connected, told, portCount, connecting, channels,
                   threads, sinceSeen>>

Capped(n, bound) == IF n < bound THEN n + 1 ELSE n

Tick ==
    /\ connecting' = {[e EXCEPT !.age = Capped(@, ExpireTicks + 1)] : e \in connecting}
    /\ channels' = [h \in Handle |-> [i \in DOMAIN channels[h] |->
                      [channels[h][i] EXCEPT !.silence = Capped(@, HbLimit + 1)]]]
    /\ sinceSeen' = [d \in Device |-> Capped(sinceSeen[d], BroadcastGap[d])]
    /\ UNCHANGED <<code, connected, told, portCount, threads, alive>>

Next ==
    \/ \E d \in Device : AddLidarToConnect(d) \/ OnBroadcast(d) \/ SwitchDevice(d)
    \/ DiscoveryOnTimer
    \/ \E e \in connecting, ok, bound \in BOOLEAN : OnHandshakeAck(e, ok, bound)
    \/ \E h \in Handle : \E i \in DOMAIN channels[h] :
          \/ OnHeartbeatAck(h, i)
          \/ QueryAnswered(h, i) \/ QueryTimedOut(h, i)
          \/ ChannelOnTimer(h, i)
    \/ Tick

Spec == Init /\ [][Next]_vars

(* The IO thread serves its timers and time passes.  Of the network: a     *)
(* query that is put again and again is answered one day by a device that  *)
(* is running again and again.                                             *)
Fairness ==
    /\ WF_vars(Tick)
    /\ \A h \in Handle :
         /\ WF_vars(\E i \in DOMAIN channels[h] : ChannelOnTimer(h, i))
         /\ SF_vars(\E i \in DOMAIN channels[h] : QueryAnswered(h, i))

FairSpec == Spec /\ Fairness

-----------------------------------------------------------------------------
(* What holds however broadcasts and acknowledgements interleave.          *)

\* The command channels and the data threads of a handle are removed by two
\* independent first-match searches; they always take the pair that one
\* handshake created, so a channel and the data thread beside it belong to
\* the same session, and a handle marked connected has one.
SessionsPaired ==
    \A h \in Handle :
        /\ Len(threads[h]) = Len(channels[h])
        /\ \A i \in DOMAIN channels[h] : threads[h][i] = channels[h][i].port
        /\ connected[h] => channels[h] # <<>>

(* What holds of a handle as long as the broadcasts of its device are      *)
(* processed further apart than a handshake lives.                         *)
Spaced(h) == code[h] \in Device => BroadcastGap[code[h]] > ExpireTicks

\* One handle, one session: a device is connected by one handshake, has one
\* channel and one data thread while it is connected and none otherwise, and
\* no second handshake is under way meanwhile.
OneSession ==
    \A h \in Handle : Spaced(h) =>
        /\ Len(channels[h]) = (IF connected[h] THEN 1 ELSE 0)
        /\ \A e, f \in connecting : e.handle = h /\ f.handle = h => e = f /\ ~connected[h]

\* The step removes h only if it did not answer the heartbeat: none of its
\* channels has heard of it within the limit.
RemovedSilent(h) ==
    connected[h] /\ ~connected'[h] =>
        \A i \in DOMAIN channels[h] : channels[h][i].silence > HbLimit

\* A device is removed only when it did not answer the heartbeat.
RemovedWasSilent == [][\A h \in Handle : Spaced(h) => RemovedSilent(h)]_vars

\* The same, whatever the spacing, as device_manager.h says of it.
HeartbeatTimeout == [][\A h \in Handle : RemovedSilent(h)]_vars

\* The program is told of a connection only while the device is connected,
\* and a device ceases to be connected exactly when its last channel goes.
ToldTheTruth ==
    [][\A h \in Handle : Spaced(h) =>
          /\ told'[h] = "connect" /\ told[h] # "connect" => connected[h]
          /\ connected[h] /\ ~connected'[h] <=> channels[h] # <<>> /\ channels'[h] = <<>>]_vars

\* Every channel of the handle got a socket in Bind.  One that did not is
\* listed all the same, but has neither timer nor heartbeat, and its device
\* stays connected for ever.
Served(h) == \A i \in DOMAIN channels[h] : channels[h][i].bound

\* A device that has gone silent is removed, wherever its queries stand.
SilentDeviceRemoved ==
    \A h \in Handle :
        connected[h] /\ Served(h) ~> (~connected[h] \/ Answers(h))

\* A connected device is announced to the program or lost again: the query
\* that precedes the announcement is repeated until then.
ConnectionAnnounced ==
    \A h \in Handle :
        connected[h] /\ Served(h) ~> (told[h] = "connect" \/ ~connected[h])
=============================================================================
