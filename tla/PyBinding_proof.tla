---------------------------- MODULE PyBinding_proof ----------------------------
(***************************************************************************)
(* First the life cycle: what SdkLifecycle's runs check for two LiDARs,    *)
(* proved for any set of them: the order in which Uninit takes the SDK     *)
(* apart leaves no thread, takes nothing apart under the IO thread and     *)
(* leaves the data handler to the data threads.  Then the interpreter lock and the callbacks of           *)
(* PyBinding, and what the life cycle theorems mean for a Python program:  *)
(* the binding only restricts what the SDK's threads may do, or ends the   *)
(* process, so they carry over.                                            *)
(*                                                                         *)
(* None of the properties of the life cycle is inductive.  The argument is *)
(* that where Uninit is (main) tells what is left (Stopped), and that a    *)
(* data thread exists exactly as long as somebody is going to join it      *)
(* (Paired).                                                               *)
(***************************************************************************)
EXTENDS PyBinding, FiniteSetTheorems, TLAPS

\* Past its join there is no IO thread, past the discovery no socket, and
\* between two sessions neither.
Stopped ==
    /\ thread # "valid" => io = "none"
    /\ main \notin {"out", "join"} => io = "none"
    /\ main \in {"discovery", "commands", "data", "manager"} => thread = "none"
    /\ main \in {"commands", "data", "manager"} => ~listening
    /\ main = "out" /\ ~initialized => thread = "none" /\ ~listening

\* A data thread is in the list, or taken off it by the one who joins it.
Paired ==
    /\ \A h \in Lidar : dthread[h] # "none" <=> h \in items \/ joining = h
    /\ joining # NoLidar => io = "join" \/ main = "data"
    /\ io = "join" => joining \in Lidar /\ joining \notin items
    /\ main = "data" /\ joining # NoLidar => joining \in items

\* Until the channels go, each of them has a data thread in the list.
Listed ==
    /\ main \in {"out", "join", "discovery", "commands"} => channels = items
    /\ main \in {"data", "manager"} => channels = {}
    /\ main = "manager" => items = {}
    /\ main = "out" /\ ~initialized => items = {}

\* Only a thread that is being joined has been told to quit.
Told ==
    /\ joining # NoLidar => dquit[joining]
    /\ \A h \in items : dquit[h] => h = joining

\* The manager has the callbacks of this session, or none.
Callbacks ==
    /\ stateCb \in {"none", "current"}
    /\ io = "call" => stateCb = "current"

Inv == TypeOK /\ Stopped /\ Paired /\ Listed /\ Told /\ Callbacks

-----------------------------------------------------------------------------
LEMMA InitInv == Init => Inv
  BY LifecycleAssumption
  DEF Init, Inv, TypeOK, Stopped, Paired, Listed, Told, Callbacks, Place

\* The program's thread outside Uninit.
LEMMA OutsideInv ==
  ASSUME Inv, SdkInit \/ SetCallbacks \/ StartFails \/ SdkStart \/ SdkStartAgain
  PROVE  Inv'
<1> USE LifecycleAssumption
         DEF Inv, TypeOK, Stopped, Paired, Listed, Told, Callbacks, Place,
             vars, devices, callbacks
<1>1. CASE SdkInit  BY <1>1 DEF SdkInit
<1>2. CASE SetCallbacks  BY <1>2 DEF SetCallbacks
<1>3. CASE StartFails  BY <1>3 DEF StartFails
<1>4. CASE SdkStart  BY <1>4 DEF SdkStart
<1>5. CASE SdkStartAgain  BY <1>5 DEF SdkStartAgain, Dies
<1>6. QED  BY <1>1, <1>2, <1>3, <1>4, <1>5

\* Uninit, as far as the list of data threads.
LEMMA UninitInv ==
  ASSUME Inv,
         UninitQuit \/ UninitJoin \/ UninitDiscovery \/ UninitCommands
           \/ UninitData \/ UninitManager
  PROVE  Inv'
<1> USE LifecycleAssumption
         DEF Inv, TypeOK, Stopped, Paired, Listed, Told, Callbacks, Place,
             devices, callbacks
<1>1. CASE UninitQuit  BY <1>1 DEF UninitQuit
<1>2. CASE UninitJoin  BY <1>2 DEF UninitJoin, Joined
<1>3. CASE UninitDiscovery  BY <1>3 DEF UninitDiscovery
<1>4. CASE UninitCommands  BY <1>4 DEF UninitCommands
<1>5. CASE UninitData  BY <1>5 DEF UninitData, AllJoined
<1>6. CASE UninitManager  BY <1>6 DEF UninitManager, Forgotten, Kept
<1>7. QED  BY <1>1, <1>2, <1>3, <1>4, <1>5, <1>6

\* Uninit joins the data threads.
LEMMA UninitDataInv ==
  ASSUME Inv, (\E h \in Lidar : UninitQuitData(h)) \/ UninitJoinData
  PROVE  Inv'
<1> USE LifecycleAssumption
         DEF Inv, TypeOK, Stopped, Paired, Listed, Told, Callbacks, Place,
             program, callbacks
<1>1. CASE \E h \in Lidar : UninitQuitData(h)
  BY <1>1 DEF UninitQuitData, QuitData
<1>2. CASE UninitJoinData  BY <1>2 DEF UninitJoinData
<1>3. QED  BY <1>1, <1>2

\* The IO thread.
LEMMA IOInv ==
  ASSUME Inv, IO
  PROVE  Inv'
<1> USE LifecycleAssumption
         DEF Inv, TypeOK, Stopped, Paired, Listed, Told, Callbacks, Place,
             program, callbacks, devices
<1>1. CASE IOCheck \/ IOEndTurn \/ IOCall \/ IOReturn
  BY <1>1 DEF IOCheck, IOEndTurn, IOCall, IOReturn
<1>2. CASE IOJoinData  BY <1>2 DEF IOJoinData
<1>3. ASSUME NEW h \in Lidar, IODeviceFound(h)
      PROVE  Inv'
  BY <1>3 DEF IODeviceFound
<1>4. ASSUME NEW h \in Lidar, IODeviceRemove(h)
      PROVE  Inv'
  BY <1>4 DEF IODeviceRemove, QuitData, Item
<1>5. QED  BY <1>1, <1>2, <1>3, <1>4 DEF IO

\* A data thread.
LEMMA DataInv ==
  ASSUME Inv, NEW h \in Lidar, Data(h)
  PROVE  Inv'
<1>1. PICK from \in Place \ {"none"}, to \in Place \ {"none"} : Move(h, from, to)
  BY DEF Data, DataCheck, DataEndTurn, DataCall, DataReturn, DataSend,
         DataSent, Place
<1>2. QED
  BY <1>1, LifecycleAssumption
  DEF Move, Inv, TypeOK, Stopped, Paired, Listed, Told, Callbacks, program, callbacks

\* A callback for data is registered.
LEMMA SetDataInv ==
  ASSUME Inv, NEW h \in Lidar, SetDataCallback(h)
  PROVE  Inv'
  BY DEF SetDataCallback, Inv, TypeOK, Stopped, Paired, Listed, Told, Callbacks,
         devices

LEMMA StepInv == Inv /\ [Next]_vars => Inv'
<1> SUFFICES ASSUME Inv, [Next]_vars
             PROVE  Inv'
  OBVIOUS
<1>1. CASE Main
  BY <1>1, OutsideInv, UninitInv, UninitDataInv DEF Main, Uninitializing
<1>2. CASE IO  BY <1>2, IOInv
<1>3. CASE \E h \in Lidar : Data(h) \/ SetDataCallback(h)
  BY <1>3, DataInv, SetDataInv
<1>4. CASE UNCHANGED vars
  BY <1>4
  DEF vars, Inv, TypeOK, Stopped, Paired, Listed, Told, Callbacks
<1>5. QED  BY <1>1, <1>2, <1>3, <1>4 DEF Next

LEMMA Invariance == Spec => []Inv
  BY InitInv, StepInv, PTL DEF Spec

-----------------------------------------------------------------------------
\* Every variable of the life cycle keeps its type.
THEOREM TypeCorrect == Spec => []TypeOK
<1>1. Inv => TypeOK  BY DEF Inv
<1>2. QED  BY <1>1, Invariance, PTL

\* When Uninit has returned no thread of the SDK is left, nor a channel nor
\* the listening socket, for any number of devices found and removed while
\* Uninit was called.
THEOREM NoThreadLeftAlways == Spec => []NoThreadLeft
<1>1. Inv => NoThreadLeft
  BY LifecycleAssumption
  DEF Inv, TypeOK, Stopped, Paired, Listed, NoThreadLeft
<1>2. QED  BY <1>1, Invariance, PTL

\* Nothing is torn down before the IO thread has been joined, and the data
\* handler not before the data threads have.
THEOREM TornDownUnusedAlways == Spec => []TornDownUnused
<1>1. Inv => TornDownUnused
  BY LifecycleAssumption
  DEF Inv, TypeOK, Stopped, Paired, Listed, TornDownUnused
<1>2. QED  BY <1>1, Invariance, PTL

\* A data thread is joined by one thread at a time, which has told it to quit.
THEOREM JoinedOnceAlways == Spec => []JoinedOnce
<1>1. Inv => JoinedOnce
  BY LifecycleAssumption
  DEF Inv, TypeOK, Stopped, Paired, Told, JoinedOnce
<1>2. QED  BY <1>1, Invariance, PTL

\* No callback for broadcasts or changes of state that was registered in an
\* earlier session is called.
THEOREM OwnSessionAlways == Spec => []OwnSession
<1>1. Inv => OwnSession  BY DEF Inv, Callbacks, OwnSession
<1>2. QED  BY <1>1, Invariance, PTL

-----------------------------------------------------------------------------
(* The life cycle of a Python program.                                     *)

\* Every step of the binding is a step of the life cycle, touches none of
\* its variables, or is the end of the process.
LEMMA BindingRestricts == PyNext => [Next]_vars \/ Dies
<1> SUFFICES ASSUME PyNext, ~UNCHANGED vars, ~Dies
             PROVE  Next
  OBVIOUS
<1>1. PyCalls => Main  BY DEF PyCalls, Main
<1>2. PyUninit \/ PyUninitializing => Main
  BY DEF PyUninit, PyUninitializing, Main
<1>3. IOLeaves \/ (\E c \in Cmd : IOAnswers(c)) => IO
  BY DEF IOLeaves, IOAnswers, IO
<1>4. (\E h \in Lidar : DataLeaves(h)) => \E h \in Lidar : Data(h)
  BY DEF DataLeaves, Data
<1>5. Native => IO \/ \E h \in Lidar : Data(h)  BY DEF Native, IO, Data
<1>6. ~(MainYields \/ MainResumes \/ IOEnters \/ \E h \in Lidar : DataEnters(h))
  BY DEF MainYields, MainResumes, IOEnters, DataEnters
<1>7. ~ \E c \in Cmd : IOTimesOut(c) \/ \E k \in Kind : Issue(c, k)
  BY DEF IOTimesOut, Issue
<1>8. (\E h \in Lidar : PySetDataCallback(h)) => Next
  BY DEF PySetDataCallback, Next
<1>9. QED
  BY <1>1, <1>2, <1>3, <1>4, <1>5, <1>6, <1>7, <1>8 DEF PyNext, Next

LEMMA DiesInv ==
  ASSUME Inv, Dies
  PROVE  Inv'
  BY LifecycleAssumption
  DEF Dies, Inv, TypeOK, Stopped, Paired, Listed, Told, Callbacks, Place, callbacks

LEMMA LifecycleInvariance == PySpec => []Inv
<1>1. PyInit => Inv  BY InitInv DEF PyInit
<1>2. Inv /\ [PyNext]_pvars => Inv'
  <2>1. UNCHANGED pvars => UNCHANGED vars  BY DEF pvars
  <2>2. QED  BY <2>1, BindingRestricts, DiesInv, StepInv
<1>3. QED  BY <1>1, <1>2, PTL DEF PySpec

\* PyUninit, if it returns, leaves no thread that could still call Python.
THEOREM NoThreadLeftPython == PySpec => []NoThreadLeft
<1>1. Inv => NoThreadLeft
  BY LifecycleAssumption
  DEF Inv, TypeOK, Stopped, Paired, Listed, NoThreadLeft
<1>2. QED  BY <1>1, LifecycleInvariance, PTL

-----------------------------------------------------------------------------
(* The lock.                                                               *)

\* Whoever runs Python has the lock, and inside Uninit the program keeps the
\* lock though it runs no Python.
Locked ==
    /\ python \subseteq {lock}
    /\ lock = "free" => python = {}
    /\ main \notin {"out", "gone"} => lock = "main" /\ python = {}

LEMMA LockedStep == Locked /\ [PyNext]_pvars => Locked'
<1> SUFFICES ASSUME Locked, [PyNext]_pvars
             PROVE  Locked'
  OBVIOUS
<1> USE DEF Locked
<1>1. ASSUME NEW t, t # "free", Enter(t), UNCHANGED vars
      PROVE  Locked'
  BY <1>1 DEF Enter, Ensure, vars
<1>2. ASSUME NEW t, Leave(t), main' = main
      PROVE  Locked'
  BY <1>2 DEF Leave, Release
<1>3. CASE MainYields \/ MainResumes
  BY <1>3, <1>1, <1>2 DEF MainYields, MainResumes, vars
<1>4. CASE IOEnters \/ IOLeaves \/ \E c \in Cmd : IOAnswers(c)
  BY <1>4, <1>1, <1>2 DEF IOEnters, IOLeaves, IOAnswers, IOReturn, program
<1>5. CASE \E h \in Lidar : DataEnters(h) \/ DataLeaves(h)
  BY <1>5, <1>1, <1>2, PyAssumption
  DEF DataEnters, DataLeaves, DataReturn, Move, program
<1>6. CASE PyCalls
  BY <1>6 DEF PyCalls, SdkInit, SetCallbacks, StartFails, SdkStart, vars
<1>7. CASE PyUninit  BY <1>7 DEF PyUninit, UninitQuit
<1>8. CASE PyUninitializing
  <2>1. main \notin {"out", "gone"} /\ main' # "gone"
    BY <1>8
    DEF PyUninitializing, Uninitializing, UninitJoin, UninitDiscovery,
        UninitCommands, UninitQuitData, UninitJoinData, UninitData,
        UninitManager, program
  <2>2. QED  BY <1>8, <2>1 DEF PyUninitializing
<1>9. CASE Native
  <2>1. main' = main
    BY <1>9
    DEF Native, IOCheck, IOEndTurn, IOCall, IOJoinData, IODeviceFound,
        IODeviceRemove, DataCheck, DataEndTurn, DataCall, Move, program
  <2>2. QED  BY <1>9, <2>1 DEF Native
<1>10. CASE \E c \in Cmd : IOTimesOut(c)  BY <1>10 DEF IOTimesOut, Dies
<1>11. CASE \E c \in Cmd, k \in Kind : Issue(c, k)  BY <1>11 DEF Issue, vars
<1>12. CASE \E h \in Lidar : PySetDataCallback(h)
  BY <1>12 DEF PySetDataCallback, SetDataCallback
<1>13. CASE UNCHANGED pvars  BY <1>13 DEF pvars, vars
<1>14. QED
  BY <1>3, <1>4, <1>5, <1>6, <1>7, <1>8, <1>9, <1>10, <1>11, <1>12, <1>13
  DEF PyNext

\* Python code runs in one thread at a time, the one that has the lock, for
\* any number of data threads with callbacks.
THEOREM PythonAloneAlways == PySpec => []PythonAlone
<1>1. PyInit => Locked  BY DEF PyInit, Init, Locked
<1>2. Locked => PythonAlone
  <2> SUFFICES ASSUME Locked, NEW t \in python
               PROVE  t = lock /\ Cardinality(python) = 1
    BY DEF PythonAlone
  <2>1. python = {t} /\ t = lock  BY DEF Locked
  <2>2. QED  BY <2>1, FS_Singleton
<1>3. QED  BY <1>1, LockedStep, <1>2, PTL DEF PySpec

-----------------------------------------------------------------------------
(* The callbacks of commands.                                              *)

CommandsTyped ==
    /\ global \in [Kind -> Cmd \cup {NoCmd}]
    /\ state \in [Cmd -> {"idle", "over"} \cup Kind]
    /\ called \in [Cmd -> Cmd \cup {NoCmd}]

\* The global of a kind holds the command of that kind that is under way.
GlobalIsOwn == \A c \in Cmd : state[c] \in Kind => global[state[c]] = c

CommandsInv == CommandsTyped /\ GlobalIsOwn /\ OwnCallback

LEMMA CommandsStep ==
  ASSUME Paced
  PROVE  CommandsInv /\ [PyNext]_pvars => CommandsInv'
<1> SUFFICES ASSUME CommandsInv, [PyNext]_pvars
             PROVE  CommandsInv'
  OBVIOUS
<1> USE PyAssumption DEF CommandsInv, CommandsTyped, GlobalIsOwn, OwnCallback
<1>1. ASSUME NEW c \in Cmd, NEW k \in Kind, Issue(c, k)
      PROVE  CommandsInv'
  <2>1. \A d \in Cmd : state[d] # k  BY <1>1 DEF Issue
  <2>2. QED  BY <1>1, <2>1 DEF Issue, Slot
<1>2. ASSUME NEW c \in Cmd, IOAnswers(c)
      PROVE  CommandsInv'
  BY <1>2 DEF IOAnswers, Slot
<1>3. CASE UNCHANGED commands  BY <1>3 DEF commands
<1>4. QED
  BY <1>1, <1>2, <1>3
  DEF PyNext, pvars, MainYields, MainResumes, PyCalls, PyUninit,
      PyUninitializing, IOEnters, IOLeaves, IOTimesOut, DataEnters,
      DataLeaves, PySetDataCallback, Native

\* For a program that awaits a command before the next of its kind, the
\* function called for a command is the one it was issued with.
THEOREM OwnCallbackPaced ==
  ASSUME Paced
  PROVE  PySpec => []OwnCallback
<1>1. PyInit => CommandsInv
  BY PyAssumption
  DEF PyInit, CommandsInv, CommandsTyped, GlobalIsOwn, OwnCallback
<1>2. CommandsInv => OwnCallback  BY DEF CommandsInv
<1>3. QED  BY <1>1, <1>2, CommandsStep, PTL DEF PySpec
=============================================================================
