------------------------------- MODULE PyBinding -------------------------------
(***************************************************************************)
(* The Python binding (build/pylivox.pyx) on top of the SDK's threads: the *)
(* same program, but its thread holds the interpreter lock while it calls  *)
(* the SDK, and every callback must take the lock before it runs a line of *)
(* Python.  SdkLifecycle gives the threads, this module the lock and the   *)
(* callbacks of commands.                                                  *)
(*                                                                         *)
(* The wrappers are plain calls: none of them gives the lock up, Uninit    *)
(* included.  The interpreter gives it up between two lines of the         *)
(* program, when another thread asks for it.                               *)
(*                                                                         *)
(* A wrapper of a command, PyLidarStartSampling(handle, cb, client_data)   *)
(* say, stores cb in a global of its own, py<Kind>, and passes the SDK a C *)
(* function of its own, c<Kind>, which calls whatever the global holds     *)
(* when the SDK calls back.                                                *)
(***************************************************************************)
EXTENDS SdkLifecycle

CONSTANTS
    Kind,     \* the wrappers of commands
    Pointer,  \* those whose response is passed by pointer
    Cmd,      \* the commands, each issued at most once, with its own function
    NoCmd,    \* no command
    Paced     \* whether a command is awaited before the next of its kind

\* A LiDAR's data thread goes by its handle, beside "main" and "io"; a
\* command under way by the kind of its wrapper.
ASSUME PyAssumption ==
    /\ {"free", "main", "io"} \cap Lidar = {}
    /\ {"idle", "over"} \cap Kind = {}
    /\ Pointer \subseteq Kind
    /\ NoCmd \notin Cmd
    /\ Paced \in BOOLEAN

VARIABLES
    lock,    \* the thread that holds the interpreter lock, or "free"
    python,  \* the threads that are executing Python code
    global,  \* py<Kind>: the command whose function it holds
    state,   \* of a command: idle, under way (its kind), or over
    called   \* the command whose function was called for a command

commands == <<global, state, called>>
pvars == <<vars, lock, python, commands>>

PyInit ==
    /\ Init
    /\ lock = "main"
    /\ python = {"main"}
    /\ global = [k \in Kind |-> NoCmd]
    /\ state = [c \in Cmd |-> "idle"]
    /\ called = [c \in Cmd |-> NoCmd]

-----------------------------------------------------------------------------
\* Mutant: a callback that runs Python without asking for the lock.
Ensure_Unlocked(t) == lock' = lock

\* PyGILState_Ensure waits for the lock.
Ensure(t) == lock = "free" /\ lock' = t

\* Mutant: a callback that returns without giving the lock back.
Release_Forgotten(t) == lock' = lock

Release(t) == lock' = "free"

Enter(t) ==
    /\ t \notin python
    /\ Ensure(t)
    /\ python' = python \cup {t}

Leave(t) ==
    /\ t \in python
    /\ Release(t)
    /\ python' = python \ {t}

(* The interpreter takes turns at the program's thread.                    *)
MainYields == main = "out" /\ Leave("main") /\ UNCHANGED <<vars, commands>>
MainResumes == main = "out" /\ Enter("main") /\ UNCHANGED <<vars, commands>>

(* The wrappers: the lock is held throughout.                              *)
PyCalls ==
    /\ "main" \in python
    /\ SdkInit \/ SetCallbacks \/ StartFails \/ SdkStart
    /\ UNCHANGED <<lock, python, commands>>

\* PySetDataCallback, by any thread that runs Python.
PySetDataCallback(h) ==
    /\ python # {}
    /\ SetDataCallback(h)
    /\ UNCHANGED <<lock, python, commands>>

PyUninit ==
    /\ "main" \in python
    /\ UninitQuit
    /\ python' = python \ {"main"}
    /\ UNCHANGED <<lock, commands>>

PyUninitializing ==
    /\ Uninitializing
    /\ python' = IF main' = "out" THEN python \cup {"main"} ELSE python
    /\ UNCHANGED <<lock, commands>>

\* The global of a wrapper.
Slot(k) == k

\* The wrapper of kind k, called by any thread that runs Python.
Issue(c, k) ==
    /\ python # {}
    /\ state[c] = "idle"
    /\ Paced => \A d \in Cmd : state[d] # k
    /\ global' = [global EXCEPT ![Slot(k)] = c]
    /\ state' = [state EXCEPT ![c] = k]
    /\ UNCHANGED <<vars, lock, python, called>>

(* The callbacks: from C into Python and back.                             *)
IOEnters == io = "call" /\ Enter("io") /\ UNCHANGED <<vars, commands>>
DataEnters(h) == dthread[h] = "call" /\ Enter(h) /\ UNCHANGED <<vars, commands>>
DataLeaves(h) == Leave(h) /\ DataReturn(h) /\ UNCHANGED commands

\* The callback was one of an event ...
IOLeaves == Leave("io") /\ IOReturn /\ UNCHANGED commands

\* ... or of a command, answered or, with no response, timed out ...
IOAnswers(c) ==
    /\ Leave("io") /\ IOReturn
    /\ state[c] \in Kind
    /\ called' = [called EXCEPT ![c] = global[Slot(state[c])]]
    /\ state' = [state EXCEPT ![c] = "over"]
    /\ UNCHANGED global

\* ... but a response by pointer is dereferenced first, and is then NULL.
IOTimesOut(c) ==
    /\ "io" \in python
    /\ state[c] \in Pointer
    /\ Dies
    /\ lock' = "free" /\ python' = {}
    /\ UNCHANGED commands

(* What the SDK's threads do outside Python.                               *)
Native ==
    /\ \/ IOCheck \/ IOEndTurn \/ IOCall \/ IOJoinData
       \/ \E h \in Lidar :
             \/ IODeviceFound(h) \/ IODeviceRemove(h)
             \/ DataCheck(h) \/ DataEndTurn(h) \/ DataCall(h)
    /\ UNCHANGED <<lock, python, commands>>

PyNext ==
    \/ MainYields \/ MainResumes \/ PyCalls \/ PyUninit \/ PyUninitializing
    \/ \E c \in Cmd : IOAnswers(c) \/ IOTimesOut(c) \/ \E k \in Kind : Issue(c, k)
    \/ IOEnters \/ IOLeaves
    \/ \E h \in Lidar : DataEnters(h) \/ DataLeaves(h) \/ PySetDataCallback(h)
    \/ Native

PySpec == PyInit /\ [][PyNext]_pvars

(* The fairness of SdkLifecycle; the interpreter is fair to those who wait *)
(* for its lock.                                                           *)
PyFairness ==
    /\ WF_pvars(PyUninitializing)
    /\ WF_pvars(MainYields)
    /\ WF_pvars((IOCheck \/ IOJoinData) /\ UNCHANGED <<lock, python, commands>>)
    /\ SF_pvars(IOEndTurn /\ UNCHANGED <<lock, python, commands>>)
    /\ SF_pvars(IOEnters) /\ WF_pvars(IOLeaves)
    /\ \A h \in Lidar :
         /\ WF_pvars(DataCheck(h) /\ UNCHANGED <<lock, python, commands>>)
         /\ SF_pvars(DataEndTurn(h) /\ UNCHANGED <<lock, python, commands>>)
         /\ SF_pvars(DataEnters(h)) /\ WF_pvars(DataLeaves(h))

PyFairSpec == PySpec /\ PyFairness

-----------------------------------------------------------------------------
\* Python code runs in one thread at a time, and only in the one that holds
\* the lock; a thread inside the SDK or on its way into a callback runs none.
PythonAlone == \A t \in python : t = lock /\ Cardinality(python) = 1

\* As long as the program is not in Uninit, a callback of the IO thread gets
\* the lock and returns, so that the SDK goes on serving its devices.
CallbackReturns == io = "call" ~> (io # "call" \/ main # "out")

\* If the program awaits a command before the next of its kind, the function
\* called for a command is the one it was issued with, whatever commands of
\* other kinds are under way and in whatever order they are answered.
OwnCallback == \A c \in Cmd : called[c] \in {NoCmd, c}

\* PyUninit comes to an end.
PyUninitReturns == main \notin {"out", "gone"} ~> main = "out"

\* A command that times out is reported as such and does no harm.
TimeoutHarmless == main # "gone"
=============================================================================
