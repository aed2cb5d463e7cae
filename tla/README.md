# Livox SDK in TLA+

A verification project for the Livox SDK (C++ core in `sdk_core/`, C and C++
samples in `sample/` and `sample_cc/`, Cython binding in `build/pylivox.pyx`).
The modules are translated from the source; TLC checks them on small
instances, and TLAPS proves the theorems in the `*_proof` modules for every
value of the constants. The model follows the Linux build: epoll, a pipe as
wake-up, one task queue per loop.

    tlc -config Connection_spaced.cfg MCConnection    # one of the runs
    tlapm Connection_proof.tla                        # the proofs of a module

## 1. The system

A program calls `Init`, registers callbacks, calls `Start`, names the devices it
wants (`AddLidarToConnect`, `AddHubToConnect`) and issues commands. Everything
else is done by the SDK's threads.

| component | state | operations | hard |
|---|---|---|---|
| IO thread, IO loop (`base/io_thread`, `base/io_loop`, `base/multiple_io`, `base/wake_up`) | task queue, wake-up pipe, table of descriptors and delegates, epoll set | `PostTask`, `AddDelegate`, `RemoveDelegate`, `Loop`: poll, data callbacks, timers, tasks | posts from other threads, descriptors reused within a turn, delegates destroyed by their own callbacks |
| Device discovery (`device_discovery.cpp`) | listening socket, sockets with a handshake under way, port counter | broadcast, handshake acknowledgement, expiry of handshakes | a second broadcast before the acknowledgement; an acknowledgement racing the expiry |
| Device manager (`device_manager.cpp`) | table of 32 handles, connected flags, mode | add, found, removed, information query, state change, events to the program | handles shared by program threads and the IO thread |
| LiDAR and hub command handlers (`command_handler/`) | list of channels (LiDAR) or one (hub) | add, remove, send, push messages | list without a lock |
| Command channel (`command_channel.cpp`) | commands waiting under a sequence number, heartbeat clocks, socket | send, acknowledgement, timer, close | loss, duplicates, wrap-around of the number, late closures |
| LiDAR and hub data handlers (`data_handler/`) | one socket and thread per LiDAR, or one socket for a hub; listeners | add, remove, datagram to listener | a join from the IO thread; a socket closed under a reader |
| Stream parser (`comm/`) | 8 KiB cache, parse position | write, parse, resynchronise, move | boundaries of the cache |
| Life cycle (`livox_sdk.cpp`) | globals of every component | `Init`, `Start`, `Uninit` | order, repetition, partial failure |
| Command API (`command_impl.cpp`) | none | about fifty functions that send a command, refused by mode, type and firmware | a caller's idea of a type that differs from the SDK's |
| Python binding (`build/pylivox.pyx`) | global callbacks | wrappers that take and release the interpreter lock | callbacks replaced while outstanding; the lock during `Uninit` |
| Data sources (`sample_cc/lidar`, `sample_cc/hub`) | state and awaited settings of every device | callbacks that configure a device setting by setting and start it | answers, refusals and timeouts in any order; late broadcasts |
| C samples (`sample/lidar`, `sample/hub`) | connection state of every device | connect, start, stop all | as above; `main` against the IO thread |
| Recorders (`sample/*_lvx_file`) | lists of devices and packets, the file's offsets | wait for devices, write the header, write frames | waits without a predicate, lists shared by threads |
| Time synchronisation (`sample_cc/lidar_utc_sync`) | buffer of the serial decoder, copies of the devices' states | sentences from a serial line to every device that can use them | recovery from noise; three threads and the order of the ending |

How they interact:

    program --SendCommand--> command handler --PostTask--> IO loop --> channel.Send
    socket  --epoll--> IO loop --OnData/OnTimer--> discovery | channel
    discovery --DeviceFound--> manager --> command handler, data handler   (IO thread)
    channel.OnTimer --DeviceRemove--> manager --> command handler, data handler
    manager --callbacks--> program (on the IO thread);  data thread --callbacks--> program

Correctness, component by component:

* the loop never sleeps on queued work, never calls a destroyed delegate, and
  watches what its clients have open, whatever numbers descriptors get;
* discovery and manager give a handle one session at a time, take it down only
  when the device is silent, and take down what belongs together;
* the channel settles every command, once, with the truth, without relying on
  any datagram; it keeps a device that answers and drops one that does not;
* the life cycle can be repeated, and leaves neither threads nor callbacks behind;
* the parser yields every whole packet of a stream and nothing else;
* a hub's LiDARs are in the table when, and only when, they are in the hub;
* the programs ask for what they wait for, get every connected device to sample,
  and know which do;
* a recorder's file describes the devices it records, and its offsets lead from
  frame to frame;
* the serial decoder recovers from noise within a known number of sentences, and a
  sentence reaches every device that can use it.

The hazards behind these, each at its line, are listed in `PROJECT.json`.

## 2. The modules

    CommandPromise <- CommandChannel            Connection    IOLoop    CommPort
                  (refines)
    SdkLifecycle <- PyBinding                   LvxFile       Synchro

    CommandApi <- SdkEvents  <- LdsLidar, LidarSample, LvxRecorder, UtcSync
               <- HubSession <- LdsHub, HubSample, HubRecorder

The modules above the gap are parts of the SDK, or parts of a
program that work without it. Those below it are whole programs:
`SdkEvents` and `HubSession` are the SDK as a program sees it, the first taking
for granted what `Connection`, `CommandChannel` and `SdkLifecycle` show of the
order of events, the second with the hub's own state in full.

### CommandPromise, CommandChannel

`CommandPromise` is what a program may rely on: a command is refused, or
accepted and then settled once, or lost with the link. It knows neither sequence
numbers nor datagrams nor clocks.

`CommandChannel` is one channel with the API call that feeds it and the
datagram network. State and actions against the code:

| model | code |
|---|---|
| `seq`, `GenerateSeq` | the static atomic counter of `GenerateSeq`, shared by all channels, so it starts anywhere |
| `queue`, `due`, `NextClosure` | the closures of `SendAsync` in the loop's task list, and how many this turn still runs before it polls |
| `commands`, `age` | `commands_` and the deadlines in it |
| `open`, `ProtectorAlive` | the weak pointer to `protector_` the closures test |
| `silence`, `beat`, `stall` | `last_heartbeat_`, `heartbeat_time_`, and how late `OnTimer` is |
| `SendCommand` | `CommandHandler::SendCommand`: number first, then the look-up |
| `Send`, `DropSend` | the closure: `sendto`, and the entry in `commands_` in either case |
| `OnData` | one acknowledgement: the number decides |
| `OnTimer` | overdue commands, then `DeviceRemove` or a heartbeat |
| `requests`, `replies`, `DeviceReply`, `Tick` | external: device, wire, clock |

Clocks are counters capped just above the bound the code compares them with.
The pending entry is kept as a function from numbers to commands; entering a
number that is in use overwrites it, as the `std::map` does.

### Connection

`Connection` is the life of a directly connected LiDAR across four components.
Each action is one whole handler on the IO thread; `AddLidarToConnect` is the
program's. A channel is reduced to its port, its silence, its outstanding
information queries and whether `Bind` got a socket; `Served` says that all
channels of a handle did, the premise of the two liveness properties.

| model | code |
|---|---|
| `code`, `connected` | `DeviceManager::devices_` |
| `connecting`, `portCount` | `connecting_devices_`, `port_count` |
| `channels`, `threads` | the two handlers' `devices_`, by handle because both are searched for the first match |
| `told` | the last `DeviceStateUpdateCallback` event of connection |
| `OnBroadcast` = `Wanted`, `StartHandshake`, `Unexpired` | `OnBroadcast`, its early returns and its call of `OnTimer` |
| `OnHandshakeAck` = `DeviceFound` | `DeviceDiscovery::OnData`, then `DeviceManager::AddDevice`, the handlers and the query |
| `QueryAnswered`, `QueryTimedOut` | the two branches of `QueryDeviceInformationCallback` |
| `ChannelOnTimer` | `DeviceRemove` and what it calls, by handle |

### IOLoop

`IOLoop` is the main loop's turn, the wake-up pipe and the registration of
descriptors, with its clients reduced to what they do with sockets: discovery
(never destroyed) and channels, which a timer destroys: a channel that gives up has
the first channel of its handle erased (`GiveUp`, `Erased`, `Destroy`), its own or, where
the handle has been given a second session (`twice`), another. A callback is
split at each point where another thread could take the task mutex, and the IO
thread's post is one step. `owner` is the kernel's descriptor table,
`epoll` the kernel's interest set, `watched` is `descriptors_`; that they
can differ, because sockets close at once and registrations change by tasks, is
the point of the module. `PostTask` and `Wakeup` are two steps, as in the code.
A `Bind` that fails belongs to `Connection`; here every channel has a socket.

### CommPort

`CommPort` is the cache of one `CommPort` object and the loop of `OnData` that
calls `ParseCommStream` until it fails. `rd`, `wr` and `step` are `cache_` and
`parse_step_`; `valid` is what stands between the indices, each byte known by the
packet it was sent in, the length that packet claims and its offset, which is
all that the checksums tell apart. A datagram is a whole packet, its head, any
piece of it, the rest of the packet whose head came last, or a preamble that claims a
length no packet has: 0, which `ParseCommStream` waits for without end (`Jammed`); below
the checksum's, where `CheckPacket` reads before the packet and sums up almost 2^32 bytes,
with a wrong sum or the end of the memory (`Overrun`); or up to its own size. `Write` is
`FetchCacheFreeSpace`, `recvfrom` and `UpdateCacheWrIdx` together; one action for each branch
of the parser's loop follows. `whole`, `lost` and `wiped` only record what has
come, what did not fit and what was thrown away.

### SdkLifecycle

`SdkLifecycle` is `Init`, `Start` and `Uninit` against the IO thread and the data
threads, for a program that calls them from one thread in any order. `Uninit` is
split where it waits or takes a component apart; a thread is at the test of
`quit_`, in a turn, in a callback, or ended. `joining` is the data thread that
`RemoveDevice` (on the IO thread) or `Uninit` waits for. What happens in a turn
is left to `IOLoop` and `Connection`, except that it finds and removes devices.
`stateCb` and `dataCb` say of which session the registered callbacks are: `Uninit`
forgets the manager's and keeps those of the data handler.

### PyBinding

`PyBinding` extends `SdkLifecycle`: the same steps of the SDK, with the
interpreter lock around what runs Python. The wrappers are plain calls and hold
the lock throughout, `Uninit` included; every callback takes it first
(`Enter`) and gives it back (`Leave`). The interpreter itself is external: between two
lines of the program it may hand the lock on. `Issue` is the wrapper of a command, which stores its
callback in a global of its kind (`Slot`), `IOAnswers` the C function that looks
it up there, `IOTimesOut` the one that dereferences a response there is none of.
Its steps are steps of `SdkLifecycle`, so the safety theorems hold of
Python programs.

### CommandApi

`CommandApi` is every function of `livox_sdk.h` that sends a command, as a record
of what it asks for (mode, type of device, firmware) and what it sends (set,
identifier), in groups as `command_impl.cpp` has them. `Accepts` is the code that
refuses with `kStatusNotSupported`, `Destination` where the command goes. Its
assumption `EveryCommandIsTimed`, which TLC evaluates, says that
`GetCommandTimeout` finds an entry for each command that can be sent: the code's
own assertion compares with the size of its tables in bytes and would not.

### SdkEvents and the programs for LiDARs

`SdkEvents` is the SDK in LiDAR mode as its callbacks show it. A device is
listed, found, announced, changes its state and is given up (`link`, `work`); a
command is called back once, with an answer, a refusal or a timeout, or dropped
with its device (`calls`); the device is one flag, whether it samples. A program extends
it: each of its actions is an event of the SDK together with the whole callback,
or a step of the main thread.

| module | code | state |
|---|---|---|
| `LdsLidar` | `sample_cc/lidar/lds_lidar.cpp` | `lidars` = `lidars_`: connect state, working state, and `set_bits` as the set of functions awaited |
| `LidarSample` | `sample/lidar/main.c` | `devices` |
| `LvxRecorder` | `sample/lidar_lvx_file/main.cpp` | the lists shared by the main thread (`main`, `next`) and the callbacks; each span between two accesses to them is a step |
| `UtcSync` | `sample_cc/lidar_utc_sync/main.cpp`, `lds_lidar.cpp` | as `LdsLidar`, and Synchro's thread `listener`, which passes a sentence to the devices it finds ready |

The callbacks use a global that is set after `Start`; a broadcast that comes
before ends in `phase = "crashed"`. So do the walk of the recorder's list while
it grows, and the ways out of `main` that leave the SDK's threads running; in these
two the crash is one of the outcomes.

### LvxFile

`LvxFile` is the writer of LVX files: the sizes of headers and packets by type of
data, the write buffer that is flushed when it would be full, and the offsets a
frame's header gives. The loop over the packets of a frame is a recursive function of
how many it has saved (`Buffered`, `NextOffset`). `written` is what really is in the file.

### Synchro

`Synchro` is the decoder of GPRMC sentences and the thread that reads them.
Bytes come in groups - the head, body and check of a sentence, and noise of a few
lengths - which is all that the search for a head, the full buffer and the
checksum tell apart. `missed` counts intact sentences that were not delivered.

### HubSession and the programs for a hub

`HubSession` is the SDK in hub mode: the hub's handshakes, channel and data socket,
`DeviceManager`'s flags of the hub and the LiDARs behind it, and the query of these
LiDARs, which is sent when the hub is found and when it pushes a change, is
answered from what was plugged in when the hub read it, and is repeated when
it times out. Several may be under way; they are read and answered in any order, and a
refusal, whose code the callback does not look at, gives whatever list it holds.

| model | code |
|---|---|
| `listed`, `connected`, `work` | `devices_` of `DeviceManager` |
| `shaking` | `connecting_devices_` of the discovery |
| `valid` | `is_valid_` of the hub's command and data handlers |
| `queries` | `HubQueryLidarInformation` under way, in the order sent; each is unread or holds the units the hub read |
| `told` | history: the last query is under way, was the last to be answered, or the table was left behind |
| `Broadcasts`, `HandshakeAck`, `ChangesState`, `HubRemoved`, `QueryAnswered`, `QueryTimesOut` | the handlers; where they call the program, its callback is left to the module that extends this one |
| `plugged`, `sampling` | external: the hub |

`LdsHub` (`sample_cc/hub/lds_hub.cpp`), `HubSample` (`sample/hub/main.c`) and
`HubRecorder` (`sample/hub_lvx_file/main.cpp`) add the programs' callbacks and
main threads, as above. `gaveUp` in `LdsHub` remembers the settings whose command
failed and was not repeated: it timed out, it was refused with no LiDAR left to
configure, or it went with the hub.

### The compositions and the MC modules

`CommandWires` is `CommandChannel` over one of two wires, `LidarPrograms` and
`HubPrograms` are one of the programs (or of `LvxFile` and `Synchro`). In these a variable
(`wire`, `program`) is chosen in the initial state and never changes; the next-state relation
is that of the chosen instance, with the variables of the others at rest; a
property is that of the instance, for the behaviours that choose it. The model
modules themselves are used unchanged.

`MCCommandChannel`, `MCConnection`, `MCIOLoop`, `MCCommPort`, `MCSdkLifecycle`,
`MCPyBinding`, `MCLidarPrograms` and `MCHubPrograms` only give values to constants and
say which values are not told apart (`CmdSymmetry`, and in `LoopInit` the names of the
handles), so that what the proofs speak of is what the runs check.

## 3. The runs

| run | module, cfg | shows |
|---|---|---|
| channel_faults | `MCCommandChannel`, `CommandChannel_faults` | `ReportedOnce`: callbacks at most once (twice only after a failed `sendto`); `SuccessMeansExecuted`; `SilentAfterClose`; `KeepsPromise`: the channel implements `CommandPromise` under `phase <- Fate, link <- open`. Two commands, loss, duplicates, reordering, a dying device |
| channel_wires | `CommandWires`, `CommandWires` | over a wire that loses what it likes `EveryCommandSettles` and `DeadDeviceDropped`; over a reliable one `AnsweredDeviceKept`, with the tightest limit |
| connection_spaced | `MCConnection`, `Connection_spaced` | of any device, second sessions included: `SessionsPaired`, `SilentDeviceRemoved`, `ConnectionAnnounced`; of one whose broadcasts are spaced, whatever the other does: `OneSession`, `RemovedWasSilent`, `ToldTheTruth` |
| connection_twice | `MCConnection`, `Connection_twice` | `HeartbeatTimeout`, removal only for silence, of a device that is not spaced: two sessions of one handle, the answered one removed (finding) |
| ioloop_loop | `MCIOLoop`, `IOLoop_loop` | `RegisteredAsOwned`, `CalledAlive` (until a handle has a second session), `NoLostWakeup`; `TaskRuns`, `PollsAgain`, `ChannelServed` |
| port_stream | `MCCommPort`, `CommPort_stream` | `NothingLost`: the next datagram fits, unless the parser waits for the length 0; `NoneLost`: as long as nothing was dropped, every complete packet is delivered, once and in order; `ParsingEnds` |
| lifecycle_sessions | `MCSdkLifecycle`, `SdkLifecycle_sessions` | `NoThreadLeft`; `TornDownUnused`: nothing goes under the IO thread, nor the data handler under a data thread; `UninitReturns` |
| python_threads | `MCPyBinding`, `PyBinding_threads` | `PythonAlone`: Python in one thread at a time; `CallbackReturns` |
| python_uninit | `MCPyBinding`, `PyBinding_uninit` | `PyUninit` and a callback wait for each other (finding) |
| python_timeout | `MCPyBinding`, `PyBinding_timeout` | a timeout without a response (finding) |
| lidar_programs | `MCLidarPrograms`, `LidarPrograms` | the data source: `AskedForEveryBit`, `SamplingIsTrue`; the C sample: `SampleStateIsTrue`; both: `EveryDeviceSamples`; the recorder: `HeaderComplete`, `RecordingStarts`; the writer: `FramesChain`; the time synchronisation: `TimeReachesAll`, and its decoder: `LossBounded` |
| hub_programs | `MCHubPrograms`, `HubPrograms` | all three programs: `UnitsTold`, the table names the units in the hub unless it was left behind; the data source: `HubBitIsAsked`; C sample and recorder: `SamplingIsTrue`; the recorder: `RecordingStarts` |

**Bounds.** `SeqMax = 4` with commands and heartbeats
makes the number wrap and meet old datagrams; the window in which a number must
not be reused is `PacketLife` on each leg plus `CmdTimeout`, and the mutant that
sticks at one number breaks `SuccessMeansExecuted` at once. On the reliable wire
of `channel_wires`, `HbPeriod + MaxStall + 2 * PacketLife` is the tight limit of silence: one less
fails. In the code that sum is 800 ms plus one turn plus the round trip, against
3 s. `BroadcastGap[d] > ExpireTicks` (`Spaced`) stands for devices that broadcast about once a
second against a handshake that lives 500 ms. In `connection_spaced` one device is so
and the other broadcasts at any distance, as when a backlog in the listening socket is
worked off: it gets a second session, whose channels are removed one at a time, in the
state space the spaced one is checked in. `HbLimit = 1` is the shortest limit at which an
answer and the timer can come in either order. `MaxAttempts` bounds `port_count`: every run has room for a
connection, a removal and a second handshake of the same handle. In `IOLoop` two channels of
one handle or of two are a second session or none, and
three descriptors are the listening socket, one that is closed and one that takes
its number; `MaxPending` bounds what the callbacks of a turn post (the code's
limit is the 64 KiB of the pipe).
`MaxPollSize = NFd + 1` is tight; the code's 49 is above the 34 descriptors
that 32 sessions, the listening socket and the pipe need, handshakes under way
taking the rest. In `CommPort` the cache of 11 is the longest packet that fits (5)
and the move limit (6), which is above the longest datagram (5), as 8192, 1536
and an Ethernet datagram are to each other; the lengths claimed are 0, one below the
checksum's size (`CrcSize`), it and the preamble's, two that fit and one that does not; three
packets, each of which may come in two datagrams, move the cache with and without a
packet waiting, and fill it behind a claim of 0. In
`SdkLifecycle` two LiDARs are two data threads, one joined by each side, and the
sessions are unbounded. In `PyBinding` two commands of two kinds are under way
together, on the IO thread, one data thread and the program.

In the programs' runs two devices of different types are what a callback for one
can do to the other's entry, and what the SDK accepts from one and refuses to the other.
`MaxEvents = 1` and `MaxFaults = 1` allow one loss of a device or of its normal
state (or one change of the hub's units) together with one loss, refusal, timeout or late broadcast
in a run of a program: a fault of each kind meets each event in each state of the configuration.
`HubPrograms` with `MaxEvents = 2` has 1.33 million states and no error either.
In `LvxFile` the buffer of 3000 bytes holds two packets of the largest kind, so that
the third crosses it as packets cross the code's 1 MiB. In `Synchro` the buffer has
the code's 128 bytes and sentences have 49, shorter than most: behind a head with which
nothing came together two more sentences are kept before the buffer is full, so that the
bound of `LossBounded` is three, and is reached or not as noise of 0, 2 or 30 bytes comes between.

**Fairness.** `ThreadFunc` loops until `Quit`, its callbacks return (a premise on
the program): hence weak fairness of the timers, the closures and of the loop's
steps, of the parser's, and of `Wakeup` for a thread inside `PostTask`. Time passes (`Tick`).
Where a callback can fall into every turn (`SdkLifecycle`), the end of the turn is strongly fair:
a turn serves what is ready and comes to an end. The interpreter is strongly fair
to a thread that waits for its lock.
Nothing is assumed of wire or device, with two exceptions. `ConnectionAnnounced`
needs that a query repeated for ever to a device that is up again and again is
answered one day (strong fairness of `QueryAnswered`); a query is repeated after
each timeout, and loss is not permanent. And `EveryDeviceSamples` and
`RecordingStarts` are about devices that keep answering: weak fairness of `Served`,
the events that use up no bound. Failures stay possible at any moment; where one
happened these properties claim nothing (`Troubled`, `Undisturbed`). They are claims of what the
program does with its answers, and what it does with a failure is in section 5.

Runs with `CHECK_DEADLOCK FALSE` may stop: a channel that has been given up
does nothing more, a parser waits for datagrams, a program that starts twice is gone,
a Python program may hang in `PyUninit`, a sample program ends.

## 4. The proofs

| module | theorem | argument |
|---|---|---|
| `CommandChannel_proof` | `TypeCorrect` | inductive as it stands |
| | `ReportedOnceAlways` | needs that a command is in one place only: idle, once in the queue, once in `commands_`, or done; the invariant (`IInv`) counts it there and ties its reports to the place |
| | `SilentAfterCloseAlways` | action property from the same invariant |
| | `KeepsPromiseAlways` | assumes `Wide`. One lemma per action: under `IInv` it is a step of `CommandPromise` or leaves the fates of all commands alone, provided that no command is entered under a number at which another one waits |
| | `SuccessMeansExecutedAlways` | assumes `Wide`. A datagram under the number of a waiting command is that command's (`Matched`), and what is acknowledged has been executed, provided that a number has no other use when it is used again |
| | `AnsweredDeviceKeptAlways` | assumes `Wide` and `Patient`: the wire is reliable, and a period, a late timer and a round trip fit into the limit of silence. Either a heartbeat or its answer is under way and comes in time, or none is and the next is sent in time (`HeartbeatInv`) |
| | `KeepsPromiseWhileFree`, `SuccessMeansExecutedWhileOver`, `AnsweredDeviceKeptWhileOver` | the same for any space of numbers, on the provisos themselves (`NumberFree`, `NumberOver`) |
| `CommandWires_proof` | `AnsweredDeviceKeptAlways` | the same for the reliable one of the two wires of the run: a behaviour of `CommandWires` over it is one of `CommandChannel` |
| `Connection_proof` | `TypeCorrect` | inductive as it stands |
| | `SessionsPairedAlways` | inductive with types: both lists grow and shrink together |
| | `OneSessionSpaced`, `RemovedWasSilentSpaced` | of the handles of spaced devices (`Spaced`), without an assumption on the others. `OneSession` is not inductive: the invariant adds that a handshake under way is younger than the last broadcast of its device (so that the next broadcast finds it expired), that its handle is held by a device, and that an unknown handle has no session |
| | `ToldTheTruthSpaced` | from the same invariant, before and after the step: a handle has a channel exactly while it is connected, and what makes the program hear of a connection is an answer over one |
| `IOLoop_proof` | `TypeCorrect` | inductive as it stands |
| | `NoLostWakeupAlways` | from the tasks phase on, a queued task has a byte in the pipe or a thread about to write it; the pipe is drained before the tasks are taken, which is what makes it inductive |
| | `RegisteredAsOwnedAlways` | assumes that the table of delegates has an entry for each (`Room`; the code's has 49). For each descriptor the tasks queued on it, in order, are additions by its owners, each but the first behind the removal of the owner before, and the last one leaves it as its present owner has it (`Consistent`); closing and reopening a descriptor appends to the tasks what keeps that true, running a task takes it from the front |
| | `CalledAliveAlways` | action property, until a handle has had two sessions at once: till then the first channel of a handle is its only one, so that a timer erases the channel it belongs to. A descriptor that is registered for a destroyed channel has its removal queued behind (`ChannelOk`), in the turn's own tasks by the time the turn has reached them (`AliveInv`), so that the next turn's callbacks find none |
| `CommPort_proof` | `TypeCorrect`, `NothingLostAlways`, `HoldsLessThanAPacketAlways` | assume that a datagram is shorter than the move limit and that a claimed length either leaves the move limit beside it or is more than the whole cache; no claim from below is excluded. None is inductive alone: the invariant says what a parser that waits holds, which is why the cache, moved or not, has room; and that the head of a cut packet belongs to a packet that has been begun |
| | `JammedForEver` | action property: no step leads out of the wait for a packet of length 0, which is the exception of `NothingLost` |
| | `NoneLostAlways` | adds where the bytes are: in the order of the stream, each within its packet (`Ordered`, `Known`); the head of a packet whose rest may come is there at the end, or was thrown away whole (`HeadHeld`); what is out is before all that is in (`DeliveredBefore`); and the parser takes a preamble only where a packet starts (`PreambleFound`). Then what it skips is no whole packet, and a packet it takes is the first that stands |
| `PyBinding_proof` | `TypeCorrect`, `NoThreadLeftAlways`, `TornDownUnusedAlways`, `JoinedOnceAlways`, `OwnSessionAlways` | of `SdkLifecycle`; one invariant ties the stage of `Uninit` to the IO thread being there, a data thread being there to its item or its joiner, and `dquit` to the joiner. What is torn down is the session of the IO thread and the data handler; the command handler, which a data callback may be using, is not spoken of, and of the callbacks those for broadcasts and changes of state |
| | `PythonAloneAlways` | the threads in Python are the lock's holder or none |
| | `OwnCallbackPaced` | assumes `Paced`; the global of a kind under way holds the command under way |
| | `NoThreadLeftPython` | every step is a step of `SdkLifecycle` or a stutter |
| `HubPrograms_proof` | `TypeCorrect` | of `ProgramsSpec`, as all the theorems of this module and of the next but its first: whichever program runs |
| | `UnitsToldAlways` | the invariant follows the last query (`LastIsFresh`): once the hub has read it, it holds the units that are plugged in, because each change of them sends another one or leaves the table behind; when it is answered the table has them, whatever was answered before it, and has them until an older answer comes. And without a channel the table is empty and nothing is asked |
| | `SamplingIsTrueAlways` | adds that a hub whose flag was cleared has its state set back, and that only the main thread stops it; a hub in sampling state that was lost has a query under way, whose answer starts it again |
| | `HubBitIsAskedAlways` | every awaited setting that was not given up has a command under way in *every* state of the hub (`BitsAreAsked`), since bits outlive a start that failed and a hub that went; and no command is under way without a channel |
| `LidarPrograms_proof` | `TypeCorrect` | of `LdsLidar`; inductive as it stands |
| | `AskedForEveryBitAlways` | inductive per device (`Kept`) once it is said that the awaited settings are settings of its type, while the SDK may call the program (`Live`). Rests on a lemma that the SDK accepts what the data source asks of each type: the data source tests the type by itself |
| | `SamplingIsTrueAlways` | the same invariant |
| | `SampleStateIsTrueAlways` | adds that no stop is under way before the main thread sends its own (`Minds`) |
| | `HeaderCompleteAlways` | with nothing lost, each device the SDK knows is registered or just being so, and once connected has its parameters asked for or described, once (`AskedOnce`); the main thread counts only what has come (`AddsKnown`) and opens the file when as many are described as are registered, which then are the same (`Complete`) |
| | `TimeReachesAllAlways` | without a late broadcast the program's copies say of every device what the SDK's table says (`Mirrors`) |
| | `LossBoundedAlways` | the sentences missed lie in the buffer behind a head that was never completed (`Behind`), so they are no more than fit (`Fit`), and one more when it is cleared; for any sizes at which a sentence fits the buffer |
| | `FramesChainAlways` | a frame's header is computed from the sizes of its packets beforehand, the file grows by what the loop writes, flushes included: by induction over the packets, each flush moves bytes from the buffer to the file and loses none. Holds for packets of the types of data that the writer knows |

`Wide` says that the commands of the program, twice the longest stall of the loop, a
timeout and a round trip together draw fewer numbers than there are:
`Cardinality(Cmd) + 2 * MaxStall + CmdTimeout + 1 + MaxStall + 2 * PacketLife < SeqMax`.
Its invariant (`NumbersInv`) says of each use of a number - a closure in the queue, an
entry of `commands_`, a datagram on either leg - that the numbers drawn since, those that
may yet be drawn at once (the commands not issued, a heartbeat that is due) and the ticks this
use may still last, in each of which one heartbeat may be sent, are fewer than `SeqMax`. So
when the counter comes round to the number, the use is over. The code has 65535 numbers
and uses each for less than a second beyond the life of a datagram; a model's
behaviour issues each of its commands once, so `Cmd` is all a program
sends while one number is in use. The numbers that other channels draw from the same
counter meanwhile are not in the model; there they would stand on the left of `Wide`
beside this channel's. The runs take a narrower space of numbers (four), where
TLC finds the same properties true for want of simultaneous uses.

They hold for any number of devices, handles, commands, descriptors, threads and units, for
any types of device, and for any of the limits and bounds, but for the assumptions named.

Two inductions go over data. That the loop over a frame's packets computes what its
header promised is proved with the least-number theorem of `WellFoundedInduction`
(`UpTo`: of the numbers at which a set fails, take the first), since the library's
induction theorems take an operator. That recursive functions exist and have the values their
definitions give is proved in the same way (`RecursionExists`).

What is only model-checked is liveness, which is beyond the prover: `EveryCommandSettles`,
`DeadDeviceDropped`, `SilentDeviceRemoved`, `ConnectionAnnounced`, `TaskRuns`,
`PollsAgain`, `ChannelServed`, `ParsingEnds`, `UninitReturns`, `CallbackReturns`,
`EveryDeviceSamples`, `RecordingStarts`. Every invariant and every action property
of a passing run is a theorem.

## 5. Where the code falls short of its documentation

1. *A device that answers on one session is removed for the silence of the
   other.* A second broadcast processed before the acknowledgement of the first
   handshake leads to two sessions, and the removal goes by the handle
   (`connection_twice`); `sdk_core/src/device_manager.h:70` says: "When device is
   disconnected (not response to the heartbeat command), RemoveDevice is called."
2. *`PyUninit` may not return.* It joins, with the interpreter lock held, threads
   whose callbacks wait for the lock (`python_uninit`).
3. *A timeout ends a Python program.* The response of a command that timed out is
   NULL and is dereferenced before the callback is called (`python_timeout`);
   `build/pylivox.pyx:483` documents `kStatusTimeout` as a status of that callback.

Seen while modelling, as guards, outcomes and premises of the models, without a run
of its own. In the SDK:

* `OnTimer` judges silence by what `OnData` has processed, one datagram a turn. A
  callback that blocks the IO thread for 3 s makes the next timer remove a device
  whose answers are waiting: `AnsweredDeviceKept` needs its bound on `MaxStall`.
* `AddDevice` ignores the result of `Bind`; a channel without a socket is listed
  but has no timer, and its device is never removed: hence the premise `Served`
  of the two liveness properties of `Connection`.
* `Start` on a thread that runs destroys a joinable `std::thread`, which ends the
  process: `SdkStartAgain`.
* A data callback may be inside `SendCommand` when `Uninit` destroys the command
  handler: it goes before the data threads are joined, and is tested without a
  lock (`DataSend`, `DataSent` around `UninitCommands`). `TornDownUnused` does not cover it.
* A packet that claims more than 6656 bytes but no more than 8192 would be waited
  for in a cache that cannot take it: `RoomAssumption` excludes it. No command has
  such a length.
* A preamble that claims the length 0 is waited for without end (`comm_port.cpp:120` keeps
  it from being a packet, and nothing gives it up): the cache fills behind it, and from then
  on every datagram of that port is dropped (`Jammed`, `JammedForEver`). One that claims 1 to 3
  makes `CheckPacket` subtract beyond 0 (`sdk_protocol.cpp:118-122`): it reads before the packet
  and sums up almost 2^32 bytes (`Overrun`).
* The callbacks and client data given to `SetDataCallback` survive `Uninit`
  (`data_handler.cpp:69-73`), and are called in the next session unless it sets its own
  (`Kept`).
* With two sessions of a handle the timer of one channel erases the other, which
  is still in the map that `CheckTimer` goes through (`multiple_io_base.cpp:33-37`): its
  timer is called in the same pass, after its end. `CalledAlive` needs its premise `~twice`.
* The table of a hub's units is left behind, until the next query, by a push that is lost; by an
  answer that comes after that of a newer query, since several may be under way; and by a
  refusal, whose list is taken for the units (`device_manager.cpp:135-162`): `told`.

In the Python binding: one global callback per kind of command, so that two
commands of one kind under way are both answered to the later function
(`OwnCallback` needs `Paced`). The data callbacks of all devices share one global in
the same way.

In the samples:

* The pointers that the callbacks of `lds_lidar` and `lds_hub` use are set after
  `Start`; a broadcast in between dereferences NULL (`phase = "crashed"`).
* The recorder walks its list of broadcasts while the IO thread may append to it.
* A late broadcast sets a device that is connected back to disconnected; it is
  then neither stopped nor, in the data source, configured again until it is announced again.
* A setting of the LiDARs behind a hub is repeated when it is refused but not when
  it times out, since the repetition stands behind a test of the response
  (`sample_cc/hub/lds_hub.cpp:337`): `gaveUp`. The hub then never samples. Nor is
  it repeated when a start that failed has meanwhile set all LiDARs back
  (`sample_cc/hub/lds_hub.cpp:421`), for then there is none to configure. The bits
  of such settings, and those of a hub that was lost while it was configured, stay set
  until the next configuration asks for them again.
* Both recorders wait on a condition variable without testing their flag: a
  notification that comes before the wait is lost, and the program waits for ever.
  Hence `Waits` in `RecordingStarts` begins with devices that have yet to connect.
* A second announcement asks for the extrinsic parameters again and adds a
  second description of the same LiDAR: `HeaderComplete` is claimed of undisturbed runs.

## 6. Plan

All modules planned are written, and all their safety properties are proved. What is
left, in order of weight:

1. The refinement between the two views of the SDK: that `Connection` implements the part of
   `SdkEvents` that lists, announces and gives up devices, which today is argued in
   section 2 and not checked.
2. The premises of liveness as safety: a rank that falls with every turn for `ParsingEnds`
   (the bytes left to look at) and for `EveryCommandSettles` (the ticks left to a command,
   which `NumbersInv` already counts).
3. `TypeCorrect` for the programs of `LidarPrograms` other than `LdsLidar`.

Not modelled:

* logging, which is output only, and the pollers and wake-up of other systems, which
  have the same interface (the Linux build is modelled);
* the troubleshooting sample, which prints what it receives and keeps nothing
  that decides what it does next, and vendored code under `third_party`;
* networks that mix a hub and LiDARs, where the first device decides the mode:
  `Connection` and `HubSession` have one mode each;
* the arithmetic of ports, which are counted up and never down; `MaxAttempts` and
  `MaxShakes` stand for runs in which they do not overlap;
* messages pushed by a device, but for the hub's push of a change: the program's
  own registrations change no other state;
* the hub's data thread as a process of its own, whose socket is closed under it;
  `HubSession` has the socket and thread within the hub's session;
* a second thread of the program in `SendCommand`, against which the list of
  channels has no lock;
* the report of a failed `sendto`, and the second one that may follow it, outside of
  `CommandChannel`: in `SdkEvents` and `HubSession` a command of the program or of the manager is
  called back once, with an answer, a refusal or a timeout;
* a `read` of the serial line that fails: `Synchro` has reads that succeed. The code keeps the
  -1 as a `size_t` and would decode beyond its buffer
  (`sample_cc/lidar_utc_sync/synchro.cpp:90-94`, `342-347`);
* the table of poll entries being full: 49 are enough for what `IOLoop` opens;
* data races proper: `UpdateDeviceState` without the manager's mutex, a registration in
  `DataHandler` while a callback is looked up, the interrupted middle of a callback of `UtcSync`;
* payloads, points, file contents and checksums, beyond what the properties tell apart.
