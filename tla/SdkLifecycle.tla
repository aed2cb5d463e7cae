----------------------------- MODULE SdkLifecycle -----------------------------
(***************************************************************************)
(* Init, Start and Uninit of livox_sdk.cpp against the threads they start  *)
(* and stop: the IO thread, which finds and removes devices, and the data  *)
(* thread of each LiDAR, which the IO thread starts and joins.  The        *)
(* program calls the three from one thread, in any order and as often as   *)
(* it likes; its callbacks run on the IO thread and on the data threads.   *)
(*                                                                         *)
(* A thread of the SDK is in one of four places: at the test of quit_ in   *)
(* IOThread::ThreadFunc ("check"), inside IOLoop::Loop ("turn"), in a      *)
(* callback of the program ("call"), or past the loop ("ended").  What a   *)
(* turn does is IOLoop's and Connection's subject.                         *)
(***************************************************************************)
EXTENDS Naturals, FiniteSets

CONSTANTS
    Lidar,        \* the handles of LiDARs
    NoLidar,      \* no handle
    StartsAgain,  \* whether the program calls Start on a thread that runs
    DataSends     \* whether a data callback sends commands

ASSUME LifecycleAssumption ==
    /\ NoLidar \notin Lidar
    /\ StartsAgain \in BOOLEAN /\ DataSends \in BOOLEAN

VARIABLES
    initialized,  \* is_initialized
    thread,       \* g_thread: none, made, or with a valid std::thread
    quit,         \* quit_ of g_thread
    listening,    \* the listening socket is open
    main,         \* the program's thread: outside, where Uninit is, or gone
    io,           \* where the IO thread is
    joining,      \* the data thread the IO thread, or Uninit, joins
    handler,      \* CommandHandler::impl_ exists
    channels,     \* the LiDARs with a command channel
    items,        \* the LiDARs in LidarDataHandlerImpl::devices_
    dthread,      \* where the data thread of a LiDAR is
    dquit,        \* its quit_
    stateCb,      \* the manager's callbacks: none, of this session, or older
    dataCb        \* the same of DataHandler::callbacks_, for each LiDAR

vars == <<initialized, thread, quit, listening, main, io, joining, handler,
          channels, items, dthread, dquit, stateCb, dataCb>>

Place == {"none", "check", "turn", "call", "send", "ended"}

TypeOK ==
    /\ initialized \in BOOLEAN
    /\ thread \in {"none", "made", "valid"}
    /\ quit \in BOOLEAN
    /\ listening \in BOOLEAN
    /\ main \in {"out", "join", "discovery", "commands", "data", "manager",
                "gone"}
    /\ io \in {"none", "check", "turn", "call", "join", "ended"}
    /\ joining \in Lidar \cup (IF io = "join" THEN {} ELSE {NoLidar})
    /\ handler \in BOOLEAN
    /\ channels \in SUBSET Lidar
    /\ items \in SUBSET Lidar
    /\ dthread \in [Lidar -> Place]
    /\ dquit \in [Lidar -> BOOLEAN]
    /\ stateCb \in {"none", "current", "older"}
    /\ dataCb \in [Lidar -> {"none", "current", "older"}]

callbacks == <<stateCb, dataCb>>
program == <<initialized, thread, quit, listening, main, callbacks>>
devices == <<handler, channels, items, dthread, dquit>>

Init ==
    /\ initialized = FALSE
    /\ thread = "none"
    /\ quit = FALSE
    /\ listening = FALSE
    /\ main = "out"
    /\ io = "none"
    /\ joining = NoLidar
    /\ handler = FALSE
    /\ channels = {}
    /\ items = {}
    /\ dthread = [h \in Lidar |-> "none"]
    /\ dquit = [h \in Lidar |-> FALSE]
    /\ stateCb = "none"
    /\ dataCb = [h \in Lidar |-> "none"]

-----------------------------------------------------------------------------
(* The program's thread.                                                   *)

\* A second Init without an Uninit between returns false.
SdkInit ==
    /\ main = "out" /\ ~initialized
    /\ initialized' = TRUE
    /\ thread' = "made"
    /\ quit' = FALSE
    /\ UNCHANGED <<listening, main, io, joining, devices, callbacks>>

\* SetBroadcastCallback, SetDeviceStateUpdateCallback.
SetCallbacks ==
    /\ main = "out"
    /\ stateCb' = "current"
    /\ UNCHANGED <<initialized, thread, quit, listening, main, io, joining,
                   devices, dataCb>>

\* SetDataCallback, of any handle, by the program or in one of its callbacks.
SetDataCallback(h) ==
    /\ main = "out" \/ io = "call" \/ \E d \in Lidar : dthread[d] = "call"
    /\ dataCb' = [dataCb EXCEPT ![h] = "current"]
    /\ UNCHANGED <<initialized, thread, quit, listening, main, io, joining,
                   devices, stateCb>>

\* The listening socket cannot be opened: Start returns false.
StartFails ==
    /\ main = "out" /\ thread = "made" /\ ~listening
    /\ UNCHANGED vars

SdkStart ==
    /\ main = "out" /\ thread = "made"
    /\ thread' = "valid" /\ io' = "check"
    /\ quit' = FALSE
    /\ listening' = TRUE
    /\ UNCHANGED <<initialized, main, joining, devices, callbacks>>

\* The process ends, and all threads with it.
Dies ==
    /\ main' = "gone"
    /\ io' = "none" /\ joining' = NoLidar
    /\ channels' = {} /\ items' = {}
    /\ dthread' = [h \in Lidar |-> "none"]
    /\ UNCHANGED <<initialized, thread, quit, listening, handler, dquit, callbacks>>

\* ThreadBase::Start replaces thread_; destroying the std::thread that was
\* there and still runs is std::terminate.
SdkStartAgain ==
    /\ StartsAgain
    /\ main = "out" /\ thread = "valid"
    /\ Dies

\* Uninit: Quit ...
UninitQuit ==
    /\ main = "out" /\ initialized
    /\ quit' = TRUE
    /\ main' = "join"
    /\ UNCHANGED <<initialized, thread, listening, io, joining, devices, callbacks>>

\* Mutant: Join tests the wrong flag and does not wait.
Joined_NotWaiting == TRUE

\* Join returns at once if no std::thread was ever started.
Joined == thread = "valid" => io = "ended"

\* ... Join, then the IO thread and its loop are destroyed ...
UninitJoin ==
    /\ main = "join"
    /\ Joined
    /\ main' = "discovery"
    /\ thread' = "none"
    /\ io' = IF io = "ended" THEN "none" ELSE io
    /\ UNCHANGED <<initialized, quit, listening, joining, devices, callbacks>>

\* ... the listening socket ...
UninitDiscovery ==
    /\ main = "discovery"
    /\ listening' = FALSE
    /\ main' = "commands"
    /\ UNCHANGED <<initialized, thread, quit, io, joining, devices, callbacks>>

\* ... the command channels ...
UninitCommands ==
    /\ main = "commands"
    /\ handler' = FALSE
    /\ channels' = {}
    /\ main' = "data"
    /\ UNCHANGED <<initialized, thread, quit, listening, io, joining, items,
                   dthread, dquit, callbacks>>

\* Mutant: the thread is joined without being told to quit.
QuitData_Forgotten(h) == dquit

QuitData(h) == [dquit EXCEPT ![h] = TRUE]

\* ... the data threads, one after the other ...
UninitQuitData(h) ==
    /\ main = "data" /\ joining = NoLidar
    /\ h \in items
    /\ dquit' = QuitData(h)
    /\ joining' = h
    /\ UNCHANGED <<program, io, handler, channels, items, dthread>>

UninitJoinData ==
    /\ main = "data" /\ joining # NoLidar
    /\ dthread[joining] = "ended"
    /\ dthread' = [dthread EXCEPT ![joining] = "none"]
    /\ items' = items \ {joining}
    /\ joining' = NoLidar
    /\ UNCHANGED <<program, io, handler, channels, dquit>>

\* Mutant: the data threads are left to themselves.
AllJoined_NotAwaited == TRUE

\* LidarDataHandlerImpl::Uninit has gone through devices_.
AllJoined == joining = NoLidar /\ items = {}

UninitData ==
    /\ main = "data"
    /\ AllJoined
    /\ main' = "manager"
    /\ UNCHANGED <<initialized, thread, quit, listening, io, joining, devices,
                   callbacks>>

\* What becomes of the callbacks of the session that ends: the manager's go,
\* those that DataHandler::Uninit does not touch are there in the next.
Forgotten(cb) == "none"
Kept(cb) == IF cb = "none" THEN "none" ELSE "older"

\* ... and the table of devices with the manager's callbacks.
UninitManager ==
    /\ main = "manager"
    /\ stateCb' = Forgotten(stateCb)
    /\ dataCb' = [h \in Lidar |-> Kept(dataCb[h])]
    /\ initialized' = FALSE
    /\ main' = "out"
    /\ UNCHANGED <<thread, quit, listening, io, joining, devices>>

-----------------------------------------------------------------------------
(* The IO thread.                                                          *)

IOCheck ==
    /\ io = "check"
    /\ io' = IF quit THEN "ended" ELSE "turn"
    /\ UNCHANGED <<program, joining, devices>>

IOEndTurn ==
    /\ io = "turn"
    /\ io' = "check"
    /\ UNCHANGED <<program, joining, devices>>

\* A broadcast, an answer or a change of state reaches the program.
IOCall ==
    /\ io = "turn"
    /\ stateCb # "none"
    /\ io' = "call"
    /\ UNCHANGED <<program, joining, devices>>

IOReturn ==
    /\ io = "call"
    /\ io' = "turn"
    /\ UNCHANGED <<program, joining, devices>>

\* DeviceFound: the handlers' impl_ are made by the first device; a channel,
\* and a data thread that starts at once.
IODeviceFound(h) ==
    /\ io = "turn"
    /\ h \notin channels
    /\ handler' = TRUE
    /\ channels' = channels \cup {h}
    /\ items' = items \cup {h}
    /\ dthread' = [dthread EXCEPT ![h] = "check"]
    /\ dquit' = [dquit EXCEPT ![h] = FALSE]
    /\ UNCHANGED <<program, io, joining>>

\* The item of devices_ that RemoveDevice finds.
Item(h) == IF h \in items THEN h ELSE NoLidar

\* DeviceRemove: the channel goes, the data thread is joined here and now ...
IODeviceRemove(h) ==
    /\ io = "turn"
    /\ h \in channels
    /\ channels' = channels \ {h}
    /\ items' = items \ {h}
    /\ dquit' = QuitData(h)
    /\ joining' = Item(h)
    /\ io' = "join"
    /\ UNCHANGED <<program, handler, dthread>>

\* ... and the program is told.
IOJoinData ==
    /\ io = "join"
    /\ dthread[joining] = "ended"
    /\ dthread' = [dthread EXCEPT ![joining] = "none"]
    /\ joining' = NoLidar
    /\ io' = IF stateCb # "none" THEN "call" ELSE "turn"
    /\ UNCHANGED <<program, handler, channels, items, dquit>>

-----------------------------------------------------------------------------
(* The data thread of a LiDAR.                                             *)

Move(h, from, to) ==
    /\ dthread[h] = from
    /\ dthread' = [dthread EXCEPT ![h] = to]
    /\ UNCHANGED <<program, io, joining, handler, channels, items, dquit>>

DataCheck(h) == Move(h, "check", IF dquit[h] THEN "ended" ELSE "turn")
DataEndTurn(h) == Move(h, "turn", "check")
\* OnDataCallback: the callback is called if there is one.
DataCall(h) == dataCb[h] # "none" /\ Move(h, "turn", "call")
DataReturn(h) == Move(h, "call", "turn")

\* The callback calls SendCommand, which finds impl_ ...
DataSend(h) == DataSends /\ handler /\ Move(h, "call", "send")
\* ... and uses it.
DataSent(h) == Move(h, "send", "call")

Uninitializing ==
    \/ UninitJoin \/ UninitDiscovery \/ UninitCommands
    \/ \E h \in Lidar : UninitQuitData(h)
    \/ UninitJoinData \/ UninitData \/ UninitManager

Main == SdkInit \/ SetCallbacks \/ StartFails \/ SdkStart \/ SdkStartAgain
    \/ UninitQuit \/ Uninitializing

IO ==
    \/ IOCheck \/ IOEndTurn \/ IOCall \/ IOReturn \/ IOJoinData
    \/ \E h \in Lidar : IODeviceFound(h) \/ IODeviceRemove(h)

Data(h) ==
    \/ DataCheck(h) \/ DataEndTurn(h) \/ DataCall(h) \/ DataReturn(h)
    \/ DataSend(h) \/ DataSent(h)

Next == Main \/ IO \/ \E h \in Lidar : Data(h) \/ SetDataCallback(h)

Spec == Init /\ [][Next]_vars

(* Threads run; a turn of a loop serves what is ready and comes to an end  *)
(* (SF: callbacks fall into it); the program's callbacks return.           *)
ThreadFairness ==
    /\ WF_vars(Uninitializing)
    /\ WF_vars((IOCheck \/ IOJoinData))
    /\ SF_vars(IOEndTurn)
    /\ \A h \in Lidar :
         /\ WF_vars((DataCheck(h) \/ DataSent(h)))
         /\ SF_vars(DataEndTurn(h))

CallbacksReturn ==
    /\ WF_vars(IOReturn)
    /\ \A h \in Lidar : SF_vars(DataReturn(h))

FairSpec == Spec /\ ThreadFairness /\ CallbacksReturn

-----------------------------------------------------------------------------
\* When Uninit has returned no thread of the SDK is left, though devices may
\* have been found and removed while it was called: no callback can run.
NoThreadLeft ==
    main = "out" /\ ~initialized =>
        /\ io = "none"
        /\ \A h \in Lidar : dthread[h] = "none"
        /\ channels = {} /\ items = {} /\ ~listening

\* Uninit takes nothing apart before the IO thread, which uses all of it, has
\* been joined, and it does not leave the data handler before each data thread
\* has been: until then the thread's item is in devices_ or with the one who
\* joins it.  What a data callback uses besides is not said to be there: the
\* command handler goes before the data threads do, and a callback may be about
\* to send a command through it.
TornDownUnused ==
    /\ main \notin {"out", "join"} => io = "none"
    /\ \A h \in Lidar : dthread[h] # "none" => main # "manager" /\ (h \in items \/ joining = h)

\* Each thread is joined by one other thread: the IO thread and Uninit never
\* wait for the same data thread, and whoever waits has told it to quit.
JoinedOnce ==
    /\ io = "join" => main \in {"out", "join"} /\ joining # NoLidar
    /\ joining # NoLidar => dquit[joining] /\ dthread[joining] # "none"
    /\ \A h \in items : dquit[h] => h = joining

\* Of the callbacks for broadcasts and changes of state none that was registered
\* before the last Uninit is ever called.  (One for data is, unless the program
\* has registered another for that handle since.)
OwnSession == io = "call" => stateCb = "current"

\* Uninit comes to an end, whatever devices and data threads are doing.
UninitReturns == main \notin {"out", "gone"} ~> main = "out"
=============================================================================
