-------------------------------- MODULE IOLoop --------------------------------
(***************************************************************************)
(* The event loop under everything else: IOLoop with MultipleIOEpoll and   *)
(* WakeUpPipe, as the main IO thread runs it.  Its clients are the         *)
(* discovery delegate, which owns the listening socket and one socket per  *)
(* handshake and is never destroyed, and the command channels, which own   *)
(* one socket each and are destroyed in the timer callback of a channel of *)
(* their handle: its own, as long as the handle has one session only.  Any *)
(* other thread of the process posts tasks, and opens and closes           *)
(* descriptors of its own that come from the same pool.                    *)
(*                                                                         *)
(* A turn: epoll_wait, OnData for every ready descriptor, at most every    *)
(* 50 ms OnTimer for every registered descriptor, then the tasks posted    *)
(* until then.  Registrations change only by tasks, sockets at once; what  *)
(* one step shows of a callback is its part between two points where       *)
(* another thread may take the task mutex.                                 *)
(***************************************************************************)
EXTENDS Naturals, Sequences, FiniteSets

CONSTANTS
    NFd,         \* the descriptors in play are 1..NFd; 1 is the listening socket
    Discovery,   \* the discovery delegate
    Channel,     \* the command channels, numbered in the order of their creation
    Handle,      \* the handles of the devices they are created for
    Foreign,     \* any other user of descriptors
    Nobody,      \* a closed descriptor, an empty entry
    User,        \* the threads that post tasks
    MaxPollSize, \* max_poll_size_
    DrainSize,   \* the bytes one Drain reads (512)
    MaxPending   \* bound of the model on the tasks the callbacks of a turn post

Pipe == 0
Listen == 1
Fd == 1..NFd
Delegate == {Discovery} \cup Channel

ASSUME LoopAssumption ==
    /\ NFd \in Nat \ {0}
    /\ Channel \in SUBSET Nat /\ Discovery \notin Channel
    /\ {Foreign, Nobody} \cap Delegate = {} /\ Foreign # Nobody /\ Nobody \notin Fd
    /\ MaxPollSize \in Nat /\ DrainSize \in Nat \ {0} /\ MaxPending \in Nat

VARIABLES
    owner,    \* the kernel's table: who has opened the descriptor
    epoll,    \* the descriptors registered with the kernel
    watched,  \* descriptors_: the delegate a descriptor is registered for
    live,     \* the channels that exist
    made,     \* the channels that were ever created
    handle,   \* the handle each is created for, the same all along
    twice,    \* a device was found while its handle still had a channel
    pending,  \* pending_tasks_
    tasks,    \* the tasks this turn has taken and not yet run
    phase,    \* where the turn is
    todo,     \* the descriptors this phase has still to serve
    current,  \* the descriptor whose callback is running, Nobody if none
    bytes,    \* the bytes in the wake-up pipe
    posting,  \* the threads that have queued a task and not yet written
    waiting   \* the threads whose task has not run yet

turn == <<tasks, phase, todo, current>>
sockets == <<owner, epoll, live, made, handle, twice>>
vars == <<sockets, watched, pending, turn, bytes, posting, waiting>>

Task == [op : {"add", "remove"}, fd : Fd, who : Delegate]
            \cup [op : {"call"}, who : User]

TypeOK ==
    /\ owner \in [Fd -> Delegate \cup {Foreign, Nobody}]
    /\ epoll \in SUBSET Fd
    /\ watched \in [Fd -> Delegate \cup {Nobody}]
    /\ live \in SUBSET made /\ made \in SUBSET Channel
    /\ handle \in [Channel -> Handle] /\ twice \in BOOLEAN
    /\ pending \in Seq(Task) /\ tasks \in Seq(Task)
    /\ phase \in {"wait", "data", "timers", "tasks"}
    /\ todo \in SUBSET (Fd \cup {Pipe})
    /\ current \in Fd \cup {Nobody}
    /\ bytes \in Nat
    /\ posting \in SUBSET User
    /\ waiting \in SUBSET User

Add(fd, who) == [op |-> "add", fd |-> fd, who |-> who]
Remove(fd, who) == [op |-> "remove", fd |-> fd, who |-> who]
Call(t) == [op |-> "call", who |-> t]

(* DeviceDiscovery::Start has opened the listening socket and posted its   *)
(* AddDelegate; then the thread starts.                                    *)
Init ==
    /\ owner = [f \in Fd |-> IF f = Listen THEN Discovery ELSE Nobody]
    /\ epoll = {}
    /\ watched = [f \in Fd |-> Nobody]
    /\ live = {} /\ made = {}
    /\ handle \in [Channel -> Handle] /\ twice = FALSE
    /\ pending = <<Add(Listen, Discovery)>>
    /\ tasks = <<>>
    /\ phase = "wait"
    /\ todo = {}
    /\ current = Nobody
    /\ bytes = 1
    /\ posting = {} /\ waiting = {}

-----------------------------------------------------------------------------
(* PostTask, on another thread and on the IO thread itself.                *)

\* The task is queued under the mutex ...
PostTask(t) ==
    /\ t \notin posting \cup waiting
    /\ pending' = Append(pending, Call(t))
    /\ posting' = posting \cup {t}
    /\ waiting' = waiting \cup {t}
    /\ UNCHANGED <<sockets, watched, turn, bytes>>

\* ... and the pipe is written after the mutex is released.
Wakeup(t) ==
    /\ t \in posting
    /\ bytes' = bytes + 1
    /\ posting' = posting \ {t}
    /\ UNCHANGED <<sockets, watched, pending, turn, waiting>>

\* No step of the IO thread falls between the two when it posts itself.
Post(list) ==
    /\ Len(pending) + Len(list) <= MaxPending
    /\ pending' = pending \o list
    /\ bytes' = bytes + Len(list)
    /\ UNCHANGED <<posting, waiting>>

-----------------------------------------------------------------------------
(* Descriptors: socket() yields the lowest free one, close() frees it and  *)
(* ends its registration with the kernel, though not in descriptors_.      *)

Lowest(S) == {f \in S : \A g \in S : f <= g}

Opened(own, who, fd) == [own EXCEPT ![fd] = who]
Closed(own, fd) == [own EXCEPT ![fd] = Nobody]
FreeIn(own) == {f \in Fd : own[f] = Nobody}

OpenForeign ==
    \E f \in Lowest(FreeIn(owner)) :
        /\ owner' = Opened(owner, Foreign, f)
        /\ UNCHANGED <<epoll, live, made, handle, twice, watched, pending, turn,
                   bytes, posting, waiting>>

CloseForeign(f) ==
    /\ owner[f] = Foreign
    /\ owner' = Closed(owner, f)
    /\ epoll' = epoll \ {f}
    /\ UNCHANGED <<live, made, handle, twice, watched, pending, turn, bytes,
                   posting, waiting>>

-----------------------------------------------------------------------------
(* The callbacks of the delegates.                                         *)

Running(d) == current # Nobody /\ watched[current] = d

(* OnBroadcast in OnData: a socket for a new handshake.                    *)
StartHandshake ==
    /\ phase = "data" /\ Running(Discovery)
    /\ \E f \in Lowest(FreeIn(owner)) :
          /\ owner' = Opened(owner, Discovery, f)
          /\ Post(<<Add(f, Discovery)>>)
    /\ UNCHANGED <<epoll, live, made, handle, twice, watched, turn>>

\* Mutant: the socket is closed and its registration forgotten.
Unregister_Forgotten(fd, who) == <<>>

\* Uninit of a channel, and a handshake given up: the tasks they post.
Unregister(fd, who) == <<Remove(fd, who)>>

\* Mutant: the new registration is posted before the old one is removed.
Reregister_Swapped(f, g, c) == <<Add(g, c), Remove(f, Discovery)>>

\* A handshake that became a device: the tasks OnData posts.
Reregister(f, g, c) == <<Remove(f, Discovery), Add(g, c)>>

(* A handshake is over without a device: expired (DeviceDiscovery::OnTimer,*)
(* also called by OnBroadcast), refused, or never sent.                    *)
DropHandshake(f) ==
    /\ Running(Discovery)
    /\ owner[f] = Discovery /\ f # Listen
    /\ owner' = Closed(owner, f)
    /\ epoll' = epoll \ {f}
    /\ Post(Unregister(f, Discovery))
    /\ UNCHANGED <<live, made, handle, twice, watched, turn>>

(* OnData with the acknowledgement: the handshake's socket is closed, and  *)
(* DeviceFound makes a channel, whose socket may get the same number.      *)
FindDevice(f, c) ==
    /\ phase = "data" /\ Running(Discovery) /\ current = f
    /\ owner[f] = Discovery /\ f # Listen
    /\ \A d \in made : d < c
    /\ \E g \in Lowest(FreeIn(Closed(owner, f))) :
          /\ owner' = Opened(Closed(owner, f), c, g)
          /\ Post(Reregister(f, g, c))
    /\ epoll' = epoll \ {f}
    /\ live' = live \cup {c} /\ made' = made \cup {c}
    /\ twice' = (twice \/ \E d \in live : handle[d] = handle[c])
    /\ UNCHANGED <<handle, watched, turn>>

(* A channel is erased from devices_: Uninit, from its destructor.         *)
Destroy(d, f) ==
    /\ owner[f] = d
    /\ owner' = Closed(owner, f)
    /\ epoll' = epoll \ {f}
    /\ live' = live \ {d}
    /\ Post(Unregister(f, d))
    /\ UNCHANGED <<made, handle, twice, watched, turn>>

\* LidarCommandHandlerImpl::RemoveDevice: the first of the handle.
Erased(h) == Lowest({d \in live : handle[d] = h})

(* CommandChannel::OnTimer gives the device up.  The timer of a channel    *)
(* that was destroyed before its turn in the pass does nothing here.       *)
GiveUp(c, f) ==
    /\ phase = "timers" /\ Running(c) /\ c \in live
    /\ \E d \in Erased(handle[c]) : Destroy(d, f)

-----------------------------------------------------------------------------
(* The turn of the loop.                                                   *)

Step(toPhase, toServe) == phase' = toPhase /\ todo' = toServe

(* epoll_wait returns with any of the registered descriptors, and with the *)
(* pipe if there is something in it; or with nothing, after 50 ms.         *)
Poll ==
    /\ phase = "wait"
    /\ \E ready \in SUBSET epoll :
          Step("data", ready \cup (IF bytes > 0 THEN {Pipe} ELSE {}))
    /\ UNCHANGED <<sockets, watched, pending, tasks, current, bytes, posting,
                   waiting>>

Drained(n) == IF n > DrainSize THEN n - DrainSize ELSE 0

Drain ==
    /\ phase = "data" /\ current = Nobody /\ Pipe \in todo
    /\ todo' = todo \ {Pipe}
    /\ bytes' = Drained(bytes)
    /\ UNCHANGED <<sockets, watched, pending, tasks, phase, current, posting,
                   waiting>>

(* The next event callback, in the order of the ready list; the next timer *)
(* callback, in the order of the descriptors.  A descriptor that is no     *)
(* longer registered is passed over.                                       *)
Serve(f) ==
    /\ phase \in {"data", "timers"}
    /\ current = Nobody
    /\ f \in todo \ {Pipe}
    /\ phase = "timers" => f \in Lowest(todo)
    /\ todo' = todo \ {f}
    /\ current' = IF watched[f] # Nobody THEN f ELSE Nobody
    /\ UNCHANGED <<sockets, watched, pending, tasks, phase, bytes, posting,
                   waiting>>

Return ==
    /\ current # Nobody
    /\ current' = Nobody
    /\ UNCHANGED <<sockets, watched, pending, tasks, phase, todo, bytes, posting,
                   waiting>>

(* CheckTimer: the timers are due or not.                                  *)
CheckTimer ==
    /\ phase = "data" /\ todo = {} /\ current = Nobody
    /\ \/ Step("timers", {f \in Fd : watched[f] # Nobody})
       \/ Step("timers", {})
    /\ UNCHANGED <<sockets, watched, pending, tasks, current, bytes, posting,
                   waiting>>

TakeTasks ==
    /\ phase = "timers" /\ todo = {} /\ current = Nobody
    /\ tasks' = pending
    /\ pending' = <<>>
    /\ Step("tasks", {})
    /\ UNCHANGED <<sockets, watched, current, bytes, posting,
                   waiting>>

\* The pipe has an entry of descriptors_ too.
Full == Cardinality({f \in Fd : watched[f] # Nobody}) + 1 >= MaxPollSize

(* PollSetAdd: nothing is registered if there is no room or the kernel     *)
(* refuses (the descriptor is closed, or registered already).              *)
PollSetAdd(fd, who) ==
    IF Full \/ owner[fd] = Nobody \/ fd \in epoll
    THEN UNCHANGED <<epoll, watched>>
    ELSE /\ epoll' = epoll \cup {fd}
         /\ watched' = [watched EXCEPT ![fd] = who]

PollSetRemove(fd) ==
    /\ epoll' = epoll \ {fd}
    /\ watched' = [watched EXCEPT ![fd] = Nobody]

\* Mutant: one task ends the turn.
Rest_Dropped ==
    /\ tasks' = <<>>
    /\ UNCHANGED pending

\* The tasks that were taken are run to the last, and no other.
Rest ==
    /\ tasks' = Tail(tasks)
    /\ UNCHANGED pending

RunTask ==
    /\ phase = "tasks" /\ tasks # <<>>
    /\ LET t == Head(tasks)
       IN \/ t.op = "add" /\ PollSetAdd(t.fd, t.who) /\ UNCHANGED waiting
          \/ t.op = "remove" /\ PollSetRemove(t.fd) /\ UNCHANGED waiting
          \/ t.op = "call" /\ waiting' = waiting \ {t.who} /\ UNCHANGED <<epoll, watched>>
    /\ Rest
    /\ UNCHANGED <<owner, live, made, handle, twice, phase, todo, current, bytes,
                   posting>>

\* Mutant: the pipe is emptied at the end of the turn, not in Poll.
NextTurn_Drains ==
    /\ phase = "tasks" /\ tasks = <<>>
    /\ Step("wait", {})
    /\ bytes' = 0
    /\ UNCHANGED <<sockets, watched, pending, tasks, current, posting, waiting>>

\* Mutant: the loop empties the pipe and goes on with the tasks posted while
\* it ran the others.
NextTurn_UntilEmpty ==
    /\ phase = "tasks" /\ tasks = <<>>
    /\ IF pending = <<>> THEN Step("wait", {}) ELSE Step("tasks", {})
    /\ tasks' = pending /\ pending' = <<>>
    /\ bytes' = 0
    /\ UNCHANGED <<sockets, watched, current, posting, waiting>>

NextTurn ==
    /\ phase = "tasks" /\ tasks = <<>>
    /\ Step("wait", {})
    /\ UNCHANGED <<sockets, watched, pending, tasks, current, bytes, posting,
                   waiting>>

Callback ==
    \/ StartHandshake
    \/ \E f \in Fd : DropHandshake(f) \/ \E c \in Channel : FindDevice(f, c) \/ GiveUp(c, f)

Loop ==
    \/ Poll \/ Drain \/ Return \/ CheckTimer \/ TakeTasks \/ RunTask \/ NextTurn
    \/ \E f \in Fd : Serve(f)

Others ==
    \/ \E t \in User : PostTask(t) \/ Wakeup(t)
    \/ OpenForeign
    \/ \E f \in Fd : CloseForeign(f)

Next == Callback \/ Loop \/ Others

Spec == Init /\ [][Next]_vars

(* IOThread::ThreadFunc loops until it is told to quit, and its callbacks  *)
(* return; a thread inside PostTask completes it.                          *)
LoopFairness == WF_vars(Loop) /\ \A t \in User : WF_vars(Wakeup(t))

FairSpec == Spec /\ LoopFairness

-----------------------------------------------------------------------------
\* Whenever the loop is about to wait, it watches exactly the descriptors
\* its delegates have open, each for its owner, and so does the kernel: tasks
\* posted in one turn are all applied before the next, in the order in which
\* the sockets were closed and opened, though numbers are reused meanwhile.
RegisteredAsOwned ==
    (phase = "wait" /\ \A i \in DOMAIN pending : pending[i].op = "call") =>
        \A f \in Fd :
            /\ watched[f] = IF owner[f] \in Delegate THEN owner[f] ELSE Nobody
            /\ f \in epoll <=> watched[f] # Nobody

\* As long as no handle has been given a second session, the loop calls no
\* delegate that has been destroyed: neither one whose descriptor was ready in
\* the same round, nor by the timer pass in which it was destroyed, nor one
\* whose number has been given to another socket.
CalledAlive ==
    [][current = Nobody /\ current' # Nobody /\ ~twice =>
          watched[current'] \in {Discovery} \cup live]_vars

\* The loop never goes to sleep on a queued task: if one is there when it is
\* about to wait, the pipe is readable, or will be as soon as the thread that
\* queued it is out of PostTask.
NoLostWakeup ==
    phase = "wait" /\ pending # <<>> => bytes > 0 \/ posting # {}

\* A task another thread posts is run, whatever the callbacks post.
TaskRuns == \A t \in User : t \in waiting ~> t \notin waiting

\* However fast other threads post, the loop gets back to its sockets.
PollsAgain == []<>(phase = "wait")

\* A new channel is registered with the loop, which alone gives it a timer
\* and so a heartbeat and timeouts, or is gone.
ChannelServed ==
    \A c \in Channel : c \in live ~> (c \notin live \/ \E f \in Fd : watched[f] = c)
=============================================================================
