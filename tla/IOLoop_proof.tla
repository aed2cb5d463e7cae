----------------------------- MODULE IOLoop_proof -----------------------------
(***************************************************************************)
(* Theorems about IOLoop for every number of descriptors, channels and     *)
(* posting threads.                                                        *)
(***************************************************************************)
EXTENDS IOLoop, NaturalsInduction, FiniteSetTheorems, TLAPS

LEMMA ConcatType ==
    ASSUME NEW S, NEW p \in Seq(S), NEW q \in Seq(S)
    PROVE  p \o q \in Seq(S) /\ Len(p \o q) = Len(p) + Len(q)
OBVIOUS

LEMMA AppendType ==
    ASSUME NEW S, NEW q \in Seq(S), NEW e \in S
    PROVE  Append(q, e) \in Seq(S)
OBVIOUS

LEMMA TailType ==
    ASSUME NEW S, NEW q \in Seq(S), q # <<>>
    PROVE  Tail(q) \in Seq(S) /\ Head(q) \in S
OBVIOUS

LEMMA EmptyType == ASSUME NEW S PROVE <<>> \in Seq(S)
OBVIOUS

LEMMA TaskType ==
    ASSUME NEW f \in Fd, NEW d \in Delegate
    PROVE  Add(f, d) \in Task /\ Remove(f, d) \in Task
BY DEF Add, Remove, Task

LEMMA CallType == ASSUME NEW t \in User PROVE Call(t) \in Task
BY DEF Call, Task

\* The lists of tasks a callback posts.
LEMMA ListType ==
    ASSUME NEW f \in Fd, NEW d \in Delegate
    PROVE  /\ <<Add(f, d)>> \in Seq(Task) /\ Len(<<Add(f, d)>>) = 1
           /\ Unregister(f, d) \in Seq(Task) /\ Len(Unregister(f, d)) = 1
BY TaskType DEF Unregister

LEMMA ReregisterType ==
    ASSUME NEW f \in Fd, NEW g \in Fd, NEW c \in Channel
    PROVE  Reregister(f, g, c) \in Seq(Task) /\ Len(Reregister(f, g, c)) = 2
<1>1. Remove(f, Discovery) \in Task /\ Add(g, c) \in Task
  BY TaskType DEF Delegate
<1> QED
  BY <1>1 DEF Reregister

LEMMA PostType ==
    ASSUME TypeOK, NEW list \in Seq(Task), Post(list)
    PROVE  pending' \in Seq(Task) /\ bytes' \in Nat
BY ConcatType DEF TypeOK, Post

LEMMA OwnerType ==
    ASSUME NEW own \in [Fd -> Delegate \cup {Foreign, Nobody}], NEW f \in Fd,
           NEW d \in Delegate \cup {Foreign}
    PROVE  /\ Opened(own, d, f) \in [Fd -> Delegate \cup {Foreign, Nobody}]
           /\ Closed(own, f) \in [Fd -> Delegate \cup {Foreign, Nobody}]
BY DEF Opened, Closed

LEMMA LowestType == ASSUME NEW S PROVE Lowest(S) \in SUBSET S
BY DEF Lowest

\* A timer that gives its device up destroys a channel of its handle: itself,
\* when that is the only one.
LEMMA GiveUpDestroys ==
    ASSUME TypeOK, NEW f \in Fd, NEW c \in Channel, GiveUp(c, f)
    PROVE  /\ phase = "timers" /\ Running(c) /\ c \in live
           /\ \E d \in Channel : d \in live /\ handle[d] = handle[c] /\ Destroy(d, f)
BY DEF GiveUp, Erased, Lowest, TypeOK

LEMMA CallbackCases ==
    ASSUME TypeOK, Callback
    PROVE  \/ StartHandshake
           \/ \E f \in Fd : DropHandshake(f)
           \/ \E f \in Fd : \E c \in Channel : FindDevice(f, c) \/ Destroy(c, f)
BY GiveUpDestroys DEF Callback

LEMMA CallbackType ==
    ASSUME TypeOK, Callback
    PROVE  TypeOK'
<1>1. Discovery \in Delegate /\ Channel \in SUBSET Delegate
  BY DEF Delegate
<1>2. CASE StartHandshake
  <2>1. PICK f \in Fd : owner' = Opened(owner, Discovery, f) /\ Post(<<Add(f, Discovery)>>)
    BY <1>2, LowestType DEF StartHandshake, FreeIn
  <2>2. <<Add(f, Discovery)>> \in Seq(Task)
    BY <1>1, TaskType
  <2>3. pending' \in Seq(Task) /\ bytes' \in Nat /\ UNCHANGED <<posting, waiting>>
    BY <2>1, <2>2, PostType DEF Post
  <2>4. owner' \in [Fd -> Delegate \cup {Foreign, Nobody}]
    BY <1>1, <2>1, OwnerType DEF TypeOK
  <2> QED
    BY <1>2, <2>3, <2>4 DEF StartHandshake, TypeOK, turn
<1>3. ASSUME NEW f \in Fd, DropHandshake(f)
      PROVE  TypeOK'
  <2>1. Unregister(f, Discovery) \in Seq(Task)
    BY <1>1, TaskType DEF Unregister
  <2>2. pending' \in Seq(Task) /\ bytes' \in Nat /\ UNCHANGED <<posting, waiting>>
    BY <1>3, <2>1, PostType DEF DropHandshake, Post
  <2>3. owner' \in [Fd -> Delegate \cup {Foreign, Nobody}]
    BY <1>3, OwnerType DEF DropHandshake, TypeOK
  <2> QED
    BY <1>3, <2>2, <2>3 DEF DropHandshake, TypeOK, turn
<1>4. ASSUME NEW f \in Fd, NEW c \in Channel, FindDevice(f, c)
      PROVE  TypeOK'
  <2>1. PICK g \in Fd : /\ owner' = Opened(Closed(owner, f), c, g)
                        /\ Post(Reregister(f, g, c))
    BY <1>4, LowestType DEF FindDevice, FreeIn
  <2>2. Reregister(f, g, c) \in Seq(Task)
    BY ReregisterType
  <2>3. pending' \in Seq(Task) /\ bytes' \in Nat /\ UNCHANGED <<posting, waiting>>
    BY <2>1, <2>2, PostType DEF Post
  <2>4. owner' \in [Fd -> Delegate \cup {Foreign, Nobody}]
    <3>1. Closed(owner, f) \in [Fd -> Delegate \cup {Foreign, Nobody}]
      BY OwnerType, <1>1 DEF TypeOK
    <3> QED
      BY <1>1, <2>1, <3>1, OwnerType
  <2> QED
    BY <1>4, <2>3, <2>4 DEF FindDevice, TypeOK, turn
<1>5. ASSUME NEW f \in Fd, NEW c \in Channel, Destroy(c, f)
      PROVE  TypeOK'
  <2>1. Unregister(f, c) \in Seq(Task)
    BY <1>1, TaskType DEF Unregister
  <2>2. pending' \in Seq(Task) /\ bytes' \in Nat /\ UNCHANGED <<posting, waiting>>
    BY <1>5, <2>1, PostType DEF Destroy, Post
  <2>3. owner' \in [Fd -> Delegate \cup {Foreign, Nobody}]
    BY <1>1, <1>5, OwnerType DEF Destroy, TypeOK
  <2> QED
    BY <1>5, <2>2, <2>3 DEF Destroy, TypeOK, turn
<1> QED
  BY <1>2, <1>3, <1>4, <1>5, CallbackCases

LEMMA RunTaskType ==
    ASSUME TypeOK, RunTask
    PROVE  TypeOK'
<1>1. tasks # <<>> /\ Head(tasks) \in Task /\ Tail(tasks) \in Seq(Task)
  BY TailType DEF RunTask, TypeOK
<1>2. tasks' \in Seq(Task) /\ pending' \in Seq(Task)
  BY <1>1 DEF RunTask, Rest, TypeOK
<1>3. CASE /\ Head(tasks).op = "add" /\ UNCHANGED waiting
           /\ PollSetAdd(Head(tasks).fd, Head(tasks).who)
  <2>1. Head(tasks).fd \in Fd /\ Head(tasks).who \in Delegate
    BY <1>1, <1>3 DEF Task
  <2>2. epoll' \in SUBSET Fd /\ watched' \in [Fd -> Delegate \cup {Nobody}]
    BY <1>3, <2>1 DEF PollSetAdd, TypeOK
  <2> QED
    BY <1>2, <1>3, <2>2 DEF RunTask, TypeOK
<1>4. CASE /\ Head(tasks).op = "remove" /\ UNCHANGED waiting
           /\ PollSetRemove(Head(tasks).fd)
  <2>1. Head(tasks).fd \in Fd
    BY <1>1, <1>4 DEF Task
  <2>2. epoll' \in SUBSET Fd /\ watched' \in [Fd -> Delegate \cup {Nobody}]
    BY <1>4, <2>1 DEF PollSetRemove, TypeOK
  <2> QED
    BY <1>2, <1>4, <2>2 DEF RunTask, TypeOK
<1>5. CASE waiting' \in SUBSET waiting /\ UNCHANGED <<epoll, watched>>
  BY <1>2, <1>5 DEF RunTask, TypeOK
<1> QED
  BY <1>3, <1>4, <1>5 DEF RunTask

LEMMA LoopType ==
    ASSUME TypeOK, Loop
    PROVE  TypeOK'
<1> USE DEF TypeOK, sockets, Step
<1>1. CASE Poll
  BY <1>1 DEF Poll
<1>2. CASE Drain
  <2>1. bytes' \in Nat
    BY <1>2, LoopAssumption DEF Drain, Drained
  <2> QED
    BY <1>2, <2>1 DEF Drain
<1>3. CASE Return
  BY <1>3 DEF Return
<1>4. CASE CheckTimer
  BY <1>4 DEF CheckTimer
<1>5. CASE TakeTasks
  BY <1>5, EmptyType DEF TakeTasks
<1>6. CASE RunTask
  BY <1>6, RunTaskType
<1>7. CASE NextTurn
  BY <1>7 DEF NextTurn
<1>8. CASE \E f \in Fd : Serve(f)
  BY <1>8 DEF Serve
<1> QED
  BY <1>1, <1>2, <1>3, <1>4, <1>5, <1>6, <1>7, <1>8 DEF Loop

LEMMA OthersType ==
    ASSUME TypeOK, Others
    PROVE  TypeOK'
<1>1. ASSUME NEW t \in User, PostTask(t)
      PROVE  TypeOK'
  <2>1. pending' \in Seq(Task)
    BY <1>1, CallType, AppendType DEF PostTask, TypeOK
  <2> QED
    BY <1>1, <2>1 DEF PostTask, TypeOK, sockets, turn
<1>2. ASSUME NEW t \in User, Wakeup(t)
      PROVE  TypeOK'
  BY <1>2 DEF Wakeup, TypeOK, sockets, turn
<1>3. CASE OpenForeign
  <2>1. PICK f \in Fd : owner' = Opened(owner, Foreign, f)
    BY <1>3, LowestType DEF OpenForeign, FreeIn
  <2>2. owner' \in [Fd -> Delegate \cup {Foreign, Nobody}]
    BY <2>1, OwnerType DEF TypeOK
  <2> QED
    BY <1>3, <2>2 DEF OpenForeign, TypeOK, turn
<1>4. ASSUME NEW f \in Fd, CloseForeign(f)
      PROVE  TypeOK'
  <2>1. owner' \in [Fd -> Delegate \cup {Foreign, Nobody}]
    BY <1>4, OwnerType DEF CloseForeign, TypeOK
  <2> QED
    BY <1>4, <2>1 DEF CloseForeign, TypeOK, turn
<1> QED
  BY <1>1, <1>2, <1>3, <1>4 DEF Others

\* Every variable keeps its type.
THEOREM TypeCorrect == Spec => []TypeOK
<1>1. Init => TypeOK
  <2>1. Listen \in Fd /\ Discovery \in Delegate
    BY LoopAssumption DEF Listen, Fd, Delegate
  <2>2. <<Add(Listen, Discovery)>> \in Seq(Task)
    BY <2>1, TaskType
  <2> QED
    <3> SUFFICES ASSUME Init PROVE TypeOK
      OBVIOUS
    <3>1. owner \in [Fd -> Delegate \cup {Foreign, Nobody}]
      BY <2>1 DEF Init
    <3>2. watched \in [Fd -> Delegate \cup {Nobody}]
      BY DEF Init
    <3>3. pending \in Seq(Task) /\ tasks \in Seq(Task)
      BY <2>2, EmptyType DEF Init
    <3>4. /\ epoll \in SUBSET Fd /\ live \in SUBSET made /\ made \in SUBSET Channel
          /\ handle \in [Channel -> Handle] /\ twice \in BOOLEAN
      BY DEF Init
    <3>5. /\ phase \in {"wait", "data", "timers", "tasks"} /\ todo \in SUBSET (Fd \cup {Pipe})
          /\ current \in Fd \cup {Nobody} /\ bytes \in Nat
          /\ posting \in SUBSET User /\ waiting \in SUBSET User
      BY DEF Init
    <3> QED
      BY <3>1, <3>2, <3>3, <3>4, <3>5 DEF TypeOK
<1>2. TypeOK /\ [Next]_vars => TypeOK'
  <2>1. TypeOK /\ UNCHANGED vars => TypeOK'
    BY DEF vars, sockets, turn, TypeOK
  <2> QED
    BY <2>1, CallbackType, LoopType, OthersType DEF Next
<1> QED
  BY <1>1, <1>2, PTL DEF Spec

-----------------------------------------------------------------------------
(* NoLostWakeup speaks of the loop when it is about to wait; what carries  *)
(* it there is that the tasks were taken after the pipe was drained, so it *)
(* holds from TakeTasks on.                                                *)

WakeInv == phase \in {"tasks", "wait"} /\ pending # <<>> => bytes > 0 \/ posting # {}

LEMMA WakeStep ==
    ASSUME TypeOK, WakeInv, [Next]_vars
    PROVE  WakeInv'
<1> USE DEF WakeInv
<1>1. ASSUME NEW list \in Seq(Task), Len(list) > 0, Post(list), UNCHANGED phase
      PROVE  WakeInv'
  BY <1>1 DEF Post, TypeOK
<1>2. Discovery \in Delegate /\ Channel \in SUBSET Delegate
  BY DEF Delegate
<1>3. CASE StartHandshake
  BY <1>1, <1>2, <1>3, ListType, LowestType DEF StartHandshake, FreeIn, turn
<1>4. ASSUME NEW f \in Fd, DropHandshake(f)
      PROVE  WakeInv'
  <2>1. Unregister(f, Discovery) \in Seq(Task) /\ Len(Unregister(f, Discovery)) > 0
    BY <1>2, ListType
  <2>2. Post(Unregister(f, Discovery)) /\ UNCHANGED phase
    BY <1>4 DEF DropHandshake, turn
  <2> QED
    BY <1>1, <2>1, <2>2
<1>5. ASSUME NEW f \in Fd, NEW c \in Channel, FindDevice(f, c)
      PROVE  WakeInv'
  BY <1>5, <1>1, ReregisterType, LowestType DEF FindDevice, FreeIn, turn
<1>6. ASSUME NEW f \in Fd, NEW c \in Channel, Destroy(c, f)
      PROVE  WakeInv'
  <2>1. Unregister(f, c) \in Seq(Task) /\ Len(Unregister(f, c)) > 0
    <3>1. c \in Delegate
      BY <1>2
    <3>2. Unregister(f, c) \in Seq(Task) /\ Len(Unregister(f, c)) = 1
      BY <3>1, ListType
    <3> QED
      BY <3>2
  <2>2. Post(Unregister(f, c)) /\ UNCHANGED phase
    BY <1>6 DEF Destroy, turn
  <2> QED
    BY <1>1, <2>1, <2>2
<1>7. CASE Loop
  BY <1>7 DEF Loop, Poll, Drain, Return, CheckTimer, TakeTasks, RunTask, Rest,
     NextTurn, Serve, Step
<1>8. CASE Others
  BY <1>8 DEF Others, PostTask, Wakeup, OpenForeign, CloseForeign, turn, TypeOK
<1>9. CASE UNCHANGED vars
  BY <1>9 DEF vars, turn
<1> QED
  BY <1>3, <1>4, <1>5, <1>6, <1>7, <1>8, <1>9, CallbackCases DEF Next

\* The loop never goes to sleep on a queued task.
THEOREM NoLostWakeupAlways == Spec => []NoLostWakeup
<1>1. Init => WakeInv
  BY DEF Init, WakeInv
<1>2. TypeOK /\ WakeInv /\ [Next]_vars => WakeInv'
  BY WakeStep
<1>3. WakeInv => NoLostWakeup
  BY DEF WakeInv, NoLostWakeup
<1> QED
  BY <1>1, <1>2, <1>3, TypeCorrect, PTL DEF Spec

-----------------------------------------------------------------------------
(* RegisteredAsOwned holds when nothing is queued.  In between, what is    *)
(* registered and what is owned agree but for the tasks queued, in the     *)
(* order in which they are: that is what Consistent says of one descriptor,*)
(* with the queue, its owner and its two registrations as parameters.      *)

Queued == tasks \o pending

On(q, f, i) == q[i].op # "call" /\ q[i].fd = f

\* A descriptor is added when it is not registered, or removed just before.
AddsFollow(q, f, wat) ==
    \A i \in 1..Len(q) : q[i].op = "add" /\ q[i].fd = f =>
        /\ (\A k \in 1..(i - 1) : ~On(q, f, k)) => wat = Nobody
        /\ \A j \in 1..(i - 1) :
              On(q, f, j) /\ (\A k \in (j + 1)..(i - 1) : ~On(q, f, k)) => q[j].op = "remove"

\* The last task on a descriptor leaves it as its owner has it.
LastSettles(q, f, own) ==
    \A i \in 1..Len(q) : On(q, f, i) /\ (\A k \in (i + 1)..Len(q) : ~On(q, f, k)) =>
        IF q[i].op = "add" THEN own = q[i].who ELSE own \notin Delegate

\* There is an entry of descriptors_ for every descriptor and for the pipe.
Room == MaxPollSize > NFd

Settled(q, f, own, wat, reg) ==
    (\A i \in 1..Len(q) : ~On(q, f, i)) =>
        /\ wat \in {Nobody, own}
        /\ own \notin Delegate => wat = Nobody
        /\ Room /\ own \in Delegate => wat = own
        /\ f \in reg <=> wat # Nobody

Consistent(q, f, own, wat, reg) ==
    /\ AddsFollow(q, f, wat)
    /\ LastSettles(q, f, own)
    /\ Settled(q, f, own, wat, reg)
    /\ f \in reg => wat # Nobody

\* A descriptor changes hands between users that are no delegates.
LEMMA ConsistentForeign ==
    ASSUME NEW q \in Seq(Task), NEW f \in Fd, NEW own, NEW own2, NEW wat,
           NEW r, NEW r2,
           Consistent(q, f, own, wat, r), own \notin Delegate, own2 \notin Delegate,
           (f \in r2 => f \in r)
    PROVE  Consistent(q, f, own2, wat, r2)
<1>1. LastSettles(q, f, own2)
  <2> SUFFICES ASSUME NEW i \in 1..Len(q), On(q, f, i),
                      \A k \in (i + 1)..Len(q) : ~On(q, f, k)
               PROVE  IF q[i].op = "add" THEN own2 = q[i].who ELSE own2 \notin Delegate
    BY DEF LastSettles
  <2>1. q[i].op # "add"
    <3> SUFFICES ASSUME q[i].op = "add" PROVE FALSE
      OBVIOUS
    <3>1. own = q[i].who
      BY DEF Consistent, LastSettles
    <3>2. q[i] \in Task
      OBVIOUS
    <3>3. q[i].who \in Delegate
      BY <3>2 DEF Task
    <3> QED
      BY <3>1, <3>3
  <2> QED
    BY <2>1
<1>2. Settled(q, f, own2, wat, r2)
  BY DEF Consistent, Settled
<1> QED
  BY <1>1, <1>2 DEF Consistent

\* What Append does to a queue.
LEMMA AppendAt ==
    ASSUME NEW q \in Seq(Task), NEW e \in Task
    PROVE  /\ Append(q, e) \in Seq(Task)
           /\ Len(q) \in Nat
           /\ Len(Append(q, e)) = Len(q) + 1
           /\ \A i \in 1..Len(q) : Append(q, e)[i] = q[i]
           /\ Append(q, e)[Len(q) + 1] = e
OBVIOUS

\* A task on another descriptor is queued.
LEMMA ConsistentOther ==
    ASSUME NEW q \in Seq(Task), NEW f \in Fd, NEW own, NEW wat, NEW r,
           NEW r2, f \in r2 <=> f \in r,
           NEW e \in Task, e.op # "call" => e.fd # f,
           Consistent(q, f, own, wat, r)
    PROVE  Consistent(Append(q, e), f, own, wat, r2)
<1> DEFINE p == Append(q, e)
<1>1. /\ Len(q) \in Nat /\ Len(p) = Len(q) + 1
      /\ \A i \in 1..Len(q) : p[i] = q[i]
      /\ p[Len(q) + 1] = e
  BY AppendAt
<1> HIDE DEF p
<1>2. /\ \A i \in 1..Len(q) : On(p, f, i) <=> On(q, f, i)
      /\ ~On(p, f, Len(q) + 1)
  BY <1>1 DEF On
<1>3. AddsFollow(p, f, wat)
  <2> SUFFICES ASSUME NEW i \in 1..Len(p), p[i].op = "add", p[i].fd = f
               PROVE  /\ (\A k \in 1..(i - 1) : ~On(p, f, k)) => wat = Nobody
                      /\ \A j \in 1..(i - 1) :
                            On(p, f, j) /\ (\A k \in (j + 1)..(i - 1) : ~On(p, f, k)) => p[j].op = "remove"
    BY DEF AddsFollow
  <2>1. i \in 1..Len(q) /\ q[i].op = "add" /\ q[i].fd = f
    BY <1>1, <1>2 DEF On
  <2>2. \A k \in 1..(i - 1) : k \in 1..Len(q)
    BY <1>1, <2>1
  <2>3. /\ (\A k \in 1..(i - 1) : ~On(q, f, k)) => wat = Nobody
        /\ \A j \in 1..(i - 1) :
              On(q, f, j) /\ (\A k \in (j + 1)..(i - 1) : ~On(q, f, k)) => q[j].op = "remove"
    BY <2>1 DEF Consistent, AddsFollow
  <2> QED
    BY <1>1, <1>2, <2>2, <2>3
<1>4. LastSettles(p, f, own)
  <2> SUFFICES ASSUME NEW i \in 1..Len(p), On(p, f, i),
                      \A k \in (i + 1)..Len(p) : ~On(p, f, k)
               PROVE  IF p[i].op = "add" THEN own = p[i].who ELSE own \notin Delegate
    BY DEF LastSettles
  <2>1. i \in 1..Len(q) /\ On(q, f, i) /\ p[i] = q[i]
    BY <1>1, <1>2
  <2>2. \A k \in (i + 1)..Len(q) : ~On(q, f, k)
    BY <1>1, <1>2, <2>1
  <2> QED
    BY <2>1, <2>2 DEF Consistent, LastSettles
<1>5. Settled(p, f, own, wat, r2)
  BY <1>1, <1>2 DEF Consistent, Settled
<1> QED
  BY <1>3, <1>4, <1>5 DEF Consistent, p

\* A descriptor a delegate has closed is queued for removal.
LEMMA ConsistentRemove ==
    ASSUME NEW q \in Seq(Task), NEW f \in Fd, NEW own, NEW own2, NEW wat,
           NEW r, NEW e \in Task, e.op = "remove", e.fd = f,
           Consistent(q, f, own, wat, r), own2 \notin Delegate, NEW r2, f \notin r2
    PROVE  Consistent(Append(q, e), f, own2, wat, r2)
<1> DEFINE p == Append(q, e)
<1>1. /\ Len(q) \in Nat /\ Len(p) = Len(q) + 1
      /\ \A i \in 1..Len(q) : p[i] = q[i]
      /\ p[Len(q) + 1] = e
  BY AppendAt
<1> HIDE DEF p
<1>2. /\ \A i \in 1..Len(q) : On(p, f, i) <=> On(q, f, i)
      /\ On(p, f, Len(q) + 1)
  BY <1>1 DEF On
<1>3. AddsFollow(p, f, wat)
  <2> SUFFICES ASSUME NEW i \in 1..Len(p), p[i].op = "add", p[i].fd = f
               PROVE  /\ (\A k \in 1..(i - 1) : ~On(p, f, k)) => wat = Nobody
                      /\ \A j \in 1..(i - 1) :
                            On(p, f, j) /\ (\A k \in (j + 1)..(i - 1) : ~On(p, f, k)) => p[j].op = "remove"
    BY DEF AddsFollow
  <2>1. i \in 1..Len(q) /\ q[i].op = "add" /\ q[i].fd = f
    BY <1>1
  <2>2. \A k \in 1..(i - 1) : k \in 1..Len(q)
    BY <1>1, <2>1
  <2>3. /\ (\A k \in 1..(i - 1) : ~On(q, f, k)) => wat = Nobody
        /\ \A j \in 1..(i - 1) :
              On(q, f, j) /\ (\A k \in (j + 1)..(i - 1) : ~On(q, f, k)) => q[j].op = "remove"
    BY <2>1 DEF Consistent, AddsFollow
  <2> QED
    BY <1>1, <1>2, <2>2, <2>3
<1>4. LastSettles(p, f, own2)
  BY <1>1, <1>2 DEF LastSettles
<1>5. Settled(p, f, own2, wat, r2)
  BY <1>1, <1>2 DEF Settled
<1> QED
  BY <1>3, <1>4, <1>5 DEF Consistent, p

\* A descriptor that was free is opened by a delegate and queued for adding.
LEMMA ConsistentAdd ==
    ASSUME NEW q \in Seq(Task), NEW f \in Fd, NEW own, NEW wat,
           NEW r, NEW e \in Task, e.op = "add", e.fd = f,
           Consistent(q, f, own, wat, r), own \notin Delegate
    PROVE  Consistent(Append(q, e), f, e.who, wat, r)
<1> DEFINE p == Append(q, e)
<1>1. /\ Len(q) \in Nat /\ Len(p) = Len(q) + 1
      /\ \A i \in 1..Len(q) : p[i] = q[i] /\ q[i] \in Task
      /\ p[Len(q) + 1] = e
  BY AppendAt
<1> HIDE DEF p
<1>2. /\ \A i \in 1..Len(q) : On(p, f, i) <=> On(q, f, i)
      /\ On(p, f, Len(q) + 1)
  BY <1>1 DEF On
<1>3. AddsFollow(p, f, wat)
  <2> SUFFICES ASSUME NEW i \in 1..Len(p), p[i].op = "add", p[i].fd = f
               PROVE  /\ (\A k \in 1..(i - 1) : ~On(p, f, k)) => wat = Nobody
                      /\ \A j \in 1..(i - 1) :
                            On(p, f, j) /\ (\A k \in (j + 1)..(i - 1) : ~On(p, f, k)) => p[j].op = "remove"
    BY DEF AddsFollow
  <2>1. CASE i \in 1..Len(q)
    <3>2. \A k \in 1..(i - 1) : k \in 1..Len(q)
      BY <1>1, <2>1
    <3>3. /\ (\A k \in 1..(i - 1) : ~On(q, f, k)) => wat = Nobody
        /\ \A j \in 1..(i - 1) :
              On(q, f, j) /\ (\A k \in (j + 1)..(i - 1) : ~On(q, f, k)) => q[j].op = "remove"
      BY <1>1, <2>1 DEF Consistent, AddsFollow
    <3> QED
      BY <1>1, <1>2, <3>2, <3>3
  <2>2. CASE i = Len(q) + 1
    <3>1. ASSUME \A k \in 1..(i - 1) : ~On(p, f, k)
          PROVE  wat = Nobody
      BY <1>1, <1>2, <2>2, <3>1 DEF Consistent, Settled
    <3>2. ASSUME NEW j \in 1..(i - 1), On(p, f, j), \A k \in (j + 1)..(i - 1) : ~On(p, f, k)
          PROVE  p[j].op = "remove"
      <4>1. On(q, f, j) /\ (\A k \in (j + 1)..Len(q) : ~On(q, f, k)) /\ p[j] = q[j]
        BY <1>1, <1>2, <2>2, <3>2
      <4>2. IF q[j].op = "add" THEN own = q[j].who ELSE own \notin Delegate
        BY <1>1, <2>2, <4>1 DEF Consistent, LastSettles
      <4>3. q[j].op # "add"
        BY <1>1, <2>2, <4>2 DEF Task
      <4> QED
        BY <1>1, <2>2, <4>1, <4>3 DEF Task, On
    <3> QED
      BY <3>1, <3>2
  <2> QED
    BY <1>1, <2>1, <2>2
<1>4. LastSettles(p, f, e.who)
  BY <1>1, <1>2 DEF LastSettles
<1>5. Settled(p, f, e.who, wat, r)
  BY <1>1, <1>2 DEF Settled
<1> QED
  BY <1>3, <1>4, <1>5 DEF Consistent, p

\* What Tail does to a queue.
LEMMA TailAt ==
    ASSUME NEW q \in Seq(Task), q # <<>>
    PROVE  /\ Tail(q) \in Seq(Task)
           /\ Len(q) \in Nat \ {0}
           /\ Len(Tail(q)) = Len(q) - 1
           /\ Head(q) = q[1]
           /\ \A i \in 1..Len(q) : q[i] \in Task
           /\ \A i \in 1..(Len(q) - 1) : Tail(q)[i] = q[i + 1]
OBVIOUS

\* A task on another descriptor is run.
LEMMA ConsistentSkip ==
    ASSUME NEW q \in Seq(Task), NEW f \in Fd, NEW own, NEW wat, NEW r,
           NEW r2, f \in r2 <=> f \in r,
           q # <<>>, Head(q).op # "call" => Head(q).fd # f,
           Consistent(q, f, own, wat, r)
    PROVE  Consistent(Tail(q), f, own, wat, r2)
<1> DEFINE p == Tail(q)
<1>1. /\ Len(q) \in Nat \ {0} /\ Len(p) = Len(q) - 1
      /\ \A i \in 1..Len(p) : p[i] = q[i + 1]
  BY TailAt
<1>2. ~On(q, f, 1) /\ \A i \in 1..Len(p) : On(p, f, i) <=> On(q, f, i + 1)
  BY <1>1, TailAt DEF On
<1> HIDE DEF p
<1>3. AddsFollow(p, f, wat)
  <2> SUFFICES ASSUME NEW i \in 1..Len(p), p[i].op = "add", p[i].fd = f
               PROVE  /\ (\A k \in 1..(i - 1) : ~On(p, f, k)) => wat = Nobody
                      /\ \A j \in 1..(i - 1) :
                            On(p, f, j) /\ (\A k \in (j + 1)..(i - 1) : ~On(p, f, k)) => p[j].op = "remove"
    BY DEF AddsFollow
  <2>1. i + 1 \in 1..Len(q) /\ q[i + 1].op = "add" /\ q[i + 1].fd = f
    BY <1>1
  <2>2. ASSUME \A k \in 1..(i - 1) : ~On(p, f, k) PROVE wat = Nobody
    <3>1. \A k \in 1..((i + 1) - 1) : ~On(q, f, k)
      <4> SUFFICES ASSUME NEW k \in 1..((i + 1) - 1) PROVE ~On(q, f, k)
        OBVIOUS
      <4>1. CASE k = 1
        BY <4>1, <1>2
      <4>2. CASE k > 1
        <5>1. k - 1 \in 1..(i - 1) /\ k - 1 \in 1..Len(p) /\ (k - 1) + 1 = k
          BY <4>2, <1>1
        <5> QED
          BY <5>1, <1>2, <2>2
      <4> QED
        BY <4>1, <4>2
    <3> QED
      BY <2>1, <3>1 DEF Consistent, AddsFollow
  <2>3. ASSUME NEW j \in 1..(i - 1), On(p, f, j), \A k \in (j + 1)..(i - 1) : ~On(p, f, k)
        PROVE  p[j].op = "remove"
    <3>1. j \in 1..Len(p) /\ j + 1 \in 1..((i + 1) - 1) /\ On(q, f, j + 1)
      BY <1>1, <1>2, <2>3
    <3>2. \A k \in ((j + 1) + 1)..((i + 1) - 1) : ~On(q, f, k)
      <4> SUFFICES ASSUME NEW k \in ((j + 1) + 1)..((i + 1) - 1) PROVE ~On(q, f, k)
        OBVIOUS
      <4>1. k - 1 \in (j + 1)..(i - 1) /\ k - 1 \in 1..Len(p) /\ (k - 1) + 1 = k
        BY <1>1
      <4> QED
        BY <4>1, <1>2, <2>3
    <3>3. q[j + 1].op = "remove"
      BY <2>1, <3>1, <3>2 DEF Consistent, AddsFollow
    <3> QED
      BY <1>1, <3>1, <3>3
  <2> QED
    BY <2>2, <2>3
<1>4. LastSettles(p, f, own)
  <2> SUFFICES ASSUME NEW i \in 1..Len(p), On(p, f, i),
                      \A k \in (i + 1)..Len(p) : ~On(p, f, k)
               PROVE  IF p[i].op = "add" THEN own = p[i].who ELSE own \notin Delegate
    BY DEF LastSettles
  <2>1. i + 1 \in 1..Len(q) /\ On(q, f, i + 1) /\ p[i] = q[i + 1]
    BY <1>1, <1>2
  <2>2. \A k \in ((i + 1) + 1)..Len(q) : ~On(q, f, k)
    <3> SUFFICES ASSUME NEW k \in ((i + 1) + 1)..Len(q) PROVE ~On(q, f, k)
      OBVIOUS
    <3>1. k - 1 \in (i + 1)..Len(p) /\ k - 1 \in 1..Len(p) /\ (k - 1) + 1 = k
      BY <1>1
    <3> QED
      BY <3>1, <1>2
  <2> QED
    BY <2>1, <2>2 DEF Consistent, LastSettles
<1>5. Settled(p, f, own, wat, r2)
  <2>1. ASSUME \A i \in 1..Len(p) : ~On(p, f, i) PROVE \A i \in 1..Len(q) : ~On(q, f, i)
    <3> SUFFICES ASSUME NEW k \in 1..Len(q) PROVE ~On(q, f, k)
      OBVIOUS
    <3>1. CASE k = 1
      BY <3>1, <1>2
    <3>2. CASE k > 1
      <4>1. k - 1 \in 1..Len(p) /\ (k - 1) + 1 = k
        BY <3>2, <1>1
      <4> QED
        BY <4>1, <1>2, <2>1
    <3> QED
      BY <3>1, <3>2
  <2> QED
    BY <2>1 DEF Consistent, Settled
<1> QED
  BY <1>3, <1>4, <1>5 DEF Consistent, p

\* A task on the descriptor itself is run: what it left registered is right
\* if a removal left nothing, and an addition the one who asked, or nothing
\* where there was no room or another task is to come.
LEMMA ConsistentRun ==
    ASSUME NEW q \in Seq(Task), NEW f \in Fd, NEW own, NEW wat, NEW wat2,
           NEW r, NEW r2,
           q # <<>>, On(q, f, 1), Consistent(q, f, own, wat, r),
           f \in r2 => wat2 # Nobody,
           q[1].op = "remove" => wat2 = Nobody /\ f \notin r2,
           q[1].op = "add" /\ own = q[1].who =>
               /\ wat2 \in {Nobody, q[1].who}
               /\ Room => wat2 = q[1].who
               /\ f \in r2 <=> wat2 # Nobody
    PROVE  Consistent(Tail(q), f, own, wat2, r2)
<1> DEFINE p == Tail(q)
<1>1. /\ Len(q) \in Nat \ {0} /\ Len(p) = Len(q) - 1
      /\ \A i \in 1..Len(p) : p[i] = q[i + 1]
      /\ q[1] \in Task
  BY TailAt
<1>2. \A i \in 1..Len(p) : On(p, f, i) <=> On(q, f, i + 1)
  BY <1>1 DEF On
<1> HIDE DEF p
<1>3. AddsFollow(p, f, wat2)
  <2> SUFFICES ASSUME NEW i \in 1..Len(p), p[i].op = "add", p[i].fd = f
               PROVE  /\ (\A k \in 1..(i - 1) : ~On(p, f, k)) => wat2 = Nobody
                      /\ \A j \in 1..(i - 1) :
                            On(p, f, j) /\ (\A k \in (j + 1)..(i - 1) : ~On(p, f, k)) => p[j].op = "remove"
    BY DEF AddsFollow
  <2>1. i + 1 \in 1..Len(q) /\ q[i + 1].op = "add" /\ q[i + 1].fd = f
    BY <1>1
  <2>2. ASSUME \A k \in 1..(i - 1) : ~On(p, f, k) PROVE wat2 = Nobody
    <3>1. \A k \in (1 + 1)..((i + 1) - 1) : ~On(q, f, k)
      <4> SUFFICES ASSUME NEW k \in (1 + 1)..((i + 1) - 1) PROVE ~On(q, f, k)
        OBVIOUS
      <4>1. k - 1 \in 1..(i - 1) /\ k - 1 \in 1..Len(p) /\ (k - 1) + 1 = k
        BY <1>1
      <4> QED
        BY <4>1, <1>2, <2>2
    <3>2. 1 \in 1..((i + 1) - 1)
      BY <1>1
    <3>3. q[1].op = "remove"
      BY <2>1, <3>1, <3>2 DEF Consistent, AddsFollow
    <3> QED
      BY <3>3
  <2>3. ASSUME NEW j \in 1..(i - 1), On(p, f, j), \A k \in (j + 1)..(i - 1) : ~On(p, f, k)
        PROVE  p[j].op = "remove"
    <3>1. j \in 1..Len(p) /\ j + 1 \in 1..((i + 1) - 1) /\ On(q, f, j + 1)
      BY <1>1, <1>2, <2>3
    <3>2. \A k \in ((j + 1) + 1)..((i + 1) - 1) : ~On(q, f, k)
      <4> SUFFICES ASSUME NEW k \in ((j + 1) + 1)..((i + 1) - 1) PROVE ~On(q, f, k)
        OBVIOUS
      <4>1. k - 1 \in (j + 1)..(i - 1) /\ k - 1 \in 1..Len(p) /\ (k - 1) + 1 = k
        BY <1>1
      <4> QED
        BY <4>1, <1>2, <2>3
    <3>3. q[j + 1].op = "remove"
      BY <2>1, <3>1, <3>2 DEF Consistent, AddsFollow
    <3> QED
      BY <1>1, <3>1, <3>3
  <2> QED
    BY <2>2, <2>3
<1>4. LastSettles(p, f, own)
  <2> SUFFICES ASSUME NEW i \in 1..Len(p), On(p, f, i),
                      \A k \in (i + 1)..Len(p) : ~On(p, f, k)
               PROVE  IF p[i].op = "add" THEN own = p[i].who ELSE own \notin Delegate
    BY DEF LastSettles
  <2>1. i + 1 \in 1..Len(q) /\ On(q, f, i + 1) /\ p[i] = q[i + 1]
    BY <1>1, <1>2
  <2>2. \A k \in ((i + 1) + 1)..Len(q) : ~On(q, f, k)
    <3> SUFFICES ASSUME NEW k \in ((i + 1) + 1)..Len(q) PROVE ~On(q, f, k)
      OBVIOUS
    <3>1. k - 1 \in (i + 1)..Len(p) /\ k - 1 \in 1..Len(p) /\ (k - 1) + 1 = k
      BY <1>1
    <3> QED
      BY <3>1, <1>2
  <2> QED
    BY <2>1, <2>2 DEF Consistent, LastSettles
<1>5. Settled(p, f, own, wat2, r2)
  <2> SUFFICES ASSUME \A i \in 1..Len(p) : ~On(p, f, i)
               PROVE  /\ wat2 \in {Nobody, own}
                      /\ own \notin Delegate => wat2 = Nobody
                      /\ Room /\ own \in Delegate => wat2 = own
                      /\ f \in r2 <=> wat2 # Nobody
    BY DEF Settled
  <2>1. \A k \in (1 + 1)..Len(q) : ~On(q, f, k)
    <3> SUFFICES ASSUME NEW k \in (1 + 1)..Len(q) PROVE ~On(q, f, k)
      OBVIOUS
    <3>1. k - 1 \in 1..Len(p) /\ (k - 1) + 1 = k
      BY <1>1
    <3> QED
      BY <3>1, <1>2
  <2>2. IF q[1].op = "add" THEN own = q[1].who ELSE own \notin Delegate
    BY <1>1, <2>1 DEF Consistent, LastSettles
  <2>3. CASE q[1].op = "add"
    <3>1. q[1].who \in Delegate
      BY <1>1, <2>3 DEF Task
    <3> QED
      BY <2>2, <2>3, <3>1
  <2>4. CASE q[1].op = "remove"
    BY <2>2, <2>4
  <2> QED
    BY <1>1, <2>3, <2>4 DEF Task, On
<1> QED
  BY <1>3, <1>4, <1>5 DEF Consistent, p

-----------------------------------------------------------------------------
(* What the steps do to the queue.                                         *)

LEMMA QueueAppend ==
    ASSUME NEW S, NEW p \in Seq(S), NEW q \in Seq(S), NEW e \in S
    PROVE  /\ p \o Append(q, e) = Append(p \o q, e)
           /\ p \o (q \o <<e>>) = Append(p \o q, e)
OBVIOUS

LEMMA QueueTwo ==
    ASSUME NEW S, NEW p \in Seq(S), NEW q \in Seq(S), NEW d \in S, NEW e \in S
    PROVE  p \o (q \o <<d, e>>) = Append(Append(p \o q, d), e)
<1>1. q \o <<d, e>> = Append(Append(q, d), e)
  OBVIOUS
<1>2. Append(q, d) \in Seq(S)
  OBVIOUS
<1>3. p \o Append(Append(q, d), e) = Append(p \o Append(q, d), e)
  BY <1>2, QueueAppend
<1>4. p \o Append(q, d) = Append(p \o q, d)
  BY QueueAppend
<1> QED
  BY <1>1, <1>3, <1>4

LEMMA QueueTail ==
    ASSUME NEW S, NEW p \in Seq(S), NEW q \in Seq(S), p # <<>>
    PROVE  /\ Tail(p) \o q = Tail(p \o q)
           /\ Head(p) = Head(p \o q) /\ p \o q # <<>>
BY SMTT(30)

LEMMA QueueTaken == ASSUME NEW S, NEW q \in Seq(S) PROVE q \o <<>> = <<>> \o q
OBVIOUS

LEMMA QueuedType == TypeOK => Queued \in Seq(Task)
BY ConcatType DEF TypeOK, Queued

\* What a turn keeps of its own state.
TurnInv ==
    /\ phase # "tasks" => tasks = <<>>
    /\ current # Nobody => phase \in {"data", "timers"} /\ current \notin todo

LEMMA TurnStep ==
    ASSUME TypeOK, TurnInv, [Next]_vars
    PROVE  TurnInv'
<1> USE DEF TurnInv
<1>1. CASE Callback
  BY <1>1 DEF Callback, StartHandshake, DropHandshake, FindDevice, GiveUp, Destroy, turn
<1>2. CASE Loop
  <2>1. ASSUME NEW f \in Fd, Serve(f) PROVE TurnInv'
    BY <2>1 DEF Serve
  <2> QED
    BY <1>2, <2>1 DEF Loop, Poll, Drain, Return, CheckTimer, TakeTasks, RunTask, Rest,
       NextTurn, Step, TypeOK
<1>3. CASE Others
  BY <1>3 DEF Others, PostTask, Wakeup, OpenForeign, CloseForeign, turn
<1>4. CASE UNCHANGED vars
  BY <1>4 DEF vars, turn
<1> QED
  BY <1>1, <1>2, <1>3, <1>4 DEF Next

LEMMA TurnAlways == Spec => []TurnInv
<1>1. Init => TurnInv
  BY DEF Init, TurnInv
<1>2. TypeOK /\ TurnInv /\ [Next]_vars => TurnInv'
  BY TurnStep
<1> QED
  BY <1>1, <1>2, TypeCorrect, PTL DEF Spec

\* What queues tasks, and how many.
LEMMA PostOne ==
    ASSUME TypeOK, NEW e \in Task, Post(<<e>>), UNCHANGED tasks
    PROVE  Queued' = Append(Queued, e)
BY QueueAppend DEF TypeOK, Post, Queued

LEMMA PostTwo ==
    ASSUME TypeOK, NEW d \in Task, NEW e \in Task, Post(<<d, e>>), UNCHANGED tasks
    PROVE  Queued' = Append(Append(Queued, d), e)
<1>1. pending' = pending \o <<d, e>> /\ tasks' = tasks
  BY DEF Post
<1>2. tasks \in Seq(Task) /\ pending \in Seq(Task)
  BY DEF TypeOK
<1>3. tasks \o (pending \o <<d, e>>) = Append(Append(tasks \o pending, d), e)
  BY SMTT(30), <1>2, QueueTwo
<1> QED
  BY <1>1, <1>3, Zenon DEF Queued

\* The steps that leave the queue, or take one call into it.
LEMMA QueueKept ==
    ASSUME TypeOK, TurnInv,
           \/ Poll \/ Drain \/ Return \/ CheckTimer \/ TakeTasks \/ NextTurn
           \/ (\E f \in Fd : Serve(f) \/ CloseForeign(f)) \/ OpenForeign
           \/ \E t \in User : Wakeup(t)
           \/ UNCHANGED vars
    PROVE  UNCHANGED Queued
<1>1. CASE TakeTasks
  <2>1. tasks = <<>> /\ tasks' = pending /\ pending' = <<>>
    BY <1>1 DEF TakeTasks, TurnInv
  <2> QED
    BY <2>1, QueueTaken DEF TypeOK, Queued
<1>2. CASE UNCHANGED <<tasks, pending>>
  BY <1>2 DEF Queued
<1> QED
  BY <1>1, <1>2 DEF Poll, Drain, Return, CheckTimer, NextTurn, Serve, CloseForeign,
     OpenForeign, Wakeup, vars, turn

-----------------------------------------------------------------------------
(* The steps keep every descriptor consistent.                             *)

RegInv == \A f \in Fd : Consistent(Queued, f, owner[f], watched[f], epoll)

LEMMA RegKept ==
    ASSUME RegInv, UNCHANGED <<owner, watched, epoll>>, UNCHANGED Queued
    PROVE  RegInv'
BY DEF RegInv

LEMMA RegOpened ==
    ASSUME TypeOK, RegInv, NEW f \in Fd, owner[f] = Nobody, NEW d \in Delegate,
           owner' = Opened(owner, d, f), UNCHANGED <<epoll, watched>>,
           Queued' = Append(Queued, Add(f, d))
    PROVE  RegInv'
<1>1. Nobody \notin Delegate
  BY LoopAssumption
<1>2. Add(f, d) \in Task /\ Queued \in Seq(Task)
  BY TaskType, QueuedType
<1>3. SUFFICES ASSUME NEW g \in Fd
               PROVE  Consistent(Queued', g, owner'[g], watched[g], epoll)
  BY DEF RegInv
<1>4. Consistent(Queued, g, owner[g], watched[g], epoll)
  BY DEF RegInv
<1>5. CASE g = f
  <2>1. owner'[g] = d
    BY <1>5 DEF Opened, TypeOK
  <2>2. Add(f, d).op = "add" /\ Add(f, d).fd = g /\ Add(f, d).who = d
    BY <1>5 DEF Add
  <2> HIDE DEF Add
  <2> QED
    BY <1>1, <1>2, <1>4, <1>5, <2>1, <2>2, ConsistentAdd
<1>6. CASE g # f
  <2>1. owner'[g] = owner[g] /\ Add(f, d).fd # g
    BY <1>6 DEF Opened, TypeOK, Add
  <2> QED
    BY <1>2, <1>4, <2>1, ConsistentOther
<1> QED
  BY <1>5, <1>6

LEMMA RegClosed ==
    ASSUME TypeOK, RegInv, NEW f \in Fd, NEW d \in Delegate,
           owner' = Closed(owner, f), epoll' = epoll \ {f}, UNCHANGED watched,
           Queued' = Append(Queued, Remove(f, d))
    PROVE  RegInv'
<1>1. Nobody \notin Delegate
  BY LoopAssumption
<1>2. Remove(f, d) \in Task /\ Queued \in Seq(Task)
  BY TaskType, QueuedType
<1>3. SUFFICES ASSUME NEW g \in Fd
               PROVE  Consistent(Queued', g, owner'[g], watched[g], epoll')
  BY DEF RegInv
<1>4. Consistent(Queued, g, owner[g], watched[g], epoll)
  BY DEF RegInv
<1>5. CASE g = f
  <2>1. owner'[g] = Nobody /\ g \notin epoll'
    BY <1>5 DEF Closed, TypeOK
  <2>2. Remove(f, d).op = "remove" /\ Remove(f, d).fd = g
    BY <1>5 DEF Remove
  <2> QED
    BY <1>1, <1>2, <1>4, <2>1, <2>2, ConsistentRemove
<1>6. CASE g # f
  <2>1. owner'[g] = owner[g] /\ Remove(f, d).fd # g /\ (g \in epoll' <=> g \in epoll)
    BY <1>6 DEF Closed, TypeOK, Remove
  <2> QED
    BY <1>2, <1>4, <2>1, ConsistentOther
<1> QED
  BY <1>5, <1>6

LEMMA LowestFree ==
    ASSUME NEW own, NEW f \in Lowest(FreeIn(own))
    PROVE  f \in Fd /\ own[f] = Nobody
BY DEF Lowest, FreeIn

\* FindDevice closes one socket and opens the next.
LEMMA RegMoved ==
    ASSUME TypeOK, RegInv, NEW f \in Fd, NEW g \in Fd, NEW c \in Channel,
           owner[f] = Discovery, Closed(owner, f)[g] = Nobody,
           owner' = Opened(Closed(owner, f), c, g), epoll' = epoll \ {f},
           UNCHANGED watched,
           Queued' = Append(Append(Queued, Remove(f, Discovery)), Add(g, c))
    PROVE  RegInv'
<1>1. Nobody \notin Delegate /\ Discovery \in Delegate /\ c \in Delegate
  BY LoopAssumption DEF Delegate
<1> DEFINE q == Append(Queued, Remove(f, Discovery))
<1>2. Remove(f, Discovery) \in Task /\ Add(g, c) \in Task /\ Queued \in Seq(Task)
  BY <1>1, TaskType, QueuedType
<1>3. q \in Seq(Task)
  BY <1>2, AppendType
<1>4. \A h \in Fd : Consistent(q, h, Closed(owner, f)[h], watched[h], epoll')
  <2> SUFFICES ASSUME NEW h \in Fd
               PROVE  Consistent(q, h, Closed(owner, f)[h], watched[h], epoll')
    OBVIOUS
  <2>1. Consistent(Queued, h, owner[h], watched[h], epoll)
    BY DEF RegInv
  <2>2. CASE h = f
    <3>1. Closed(owner, f)[h] = Nobody /\ h \notin epoll'
      BY <2>2 DEF Closed, TypeOK
    <3>2. Remove(f, Discovery).op = "remove" /\ Remove(f, Discovery).fd = h
      BY <2>2 DEF Remove
    <3> QED
      BY <1>1, <1>2, <2>1, <3>1, <3>2, ConsistentRemove
  <2>3. CASE h # f
    <3>1. Closed(owner, f)[h] = owner[h] /\ Remove(f, Discovery).fd # h
          /\ (h \in epoll' <=> h \in epoll)
      BY <2>3 DEF Closed, TypeOK, Remove
    <3> QED
      BY <1>2, <2>1, <3>1, ConsistentOther
  <2> QED
    BY <2>2, <2>3
<1>5. Queued' = Append(q, Add(g, c))
  OBVIOUS
<1> HIDE DEF q
<1>6. SUFFICES ASSUME NEW h \in Fd
               PROVE  Consistent(Queued', h, owner'[h], watched[h], epoll')
  BY DEF RegInv
<1>7. CASE h = g
  <2>1. owner'[h] = c
    BY <1>7 DEF Opened, Closed, TypeOK
  <2>2. Add(g, c).op = "add" /\ Add(g, c).fd = h /\ Add(g, c).who = c
    BY <1>7 DEF Add
  <2> QED
    <3>1. Consistent(q, h, Closed(owner, f)[h], watched[h], epoll') /\ Closed(owner, f)[h] = Nobody
      BY <1>4, <1>7
    <3>2. Consistent(Append(q, Add(g, c)), h, c, watched[h], epoll')
      BY <1>1, <1>2, <1>3, <2>2, <3>1, ConsistentAdd
    <3> QED
      BY <1>5, <2>1, <3>2
<1>8. CASE h # g
  <2>1. owner'[h] = Closed(owner, f)[h] /\ Add(g, c).fd # h
    BY <1>8 DEF Opened, Closed, TypeOK, Add
  <2> QED
    BY <1>2, <1>3, <1>4, <1>5, <2>1, ConsistentOther
<1> QED
  BY <1>7, <1>8

\* The tables have room for what is about to be added.
LEMMA RoomForOne ==
    ASSUME TypeOK, Room, NEW f \in Fd, watched[f] = Nobody
    PROVE  ~Full
<1> DEFINE W == {g \in Fd : watched[g] # Nobody}
<1>1. IsFiniteSet(Fd) /\ Cardinality(Fd) = NFd /\ NFd \in Nat
  BY FS_Interval, LoopAssumption DEF Fd
<1>2. IsFiniteSet(Fd \ {f}) /\ Cardinality(Fd \ {f}) = NFd - 1
  BY <1>1, FS_RemoveElement
<1>3. W \in SUBSET (Fd \ {f})
  OBVIOUS
<1>4. Cardinality(W) <= NFd - 1 /\ Cardinality(W) \in Nat
  BY <1>2, <1>3, FS_Subset, FS_CardinalityType
<1> QED
  BY <1>1, <1>4, LoopAssumption DEF Full, Room

LEMMA RegRunTask ==
    ASSUME TypeOK, RegInv, RunTask
    PROVE  RegInv'
<1>1. /\ Queued \in Seq(Task) /\ Queued # <<>> /\ Queued' = Tail(Queued)
      /\ Head(tasks) = Head(Queued) /\ Head(Queued) \in Task
      /\ Head(Queued) = Queued[1] /\ UNCHANGED owner
  <2>1. Queued \in Seq(Task)
    BY QueuedType
  <2>2. Queued # <<>> /\ Queued' = Tail(Queued) /\ Head(tasks) = Head(Queued) /\ UNCHANGED owner
    BY QueueTail DEF RunTask, Rest, Queued, TypeOK
  <2> QED
    BY <2>1, <2>2, TailType, TailAt
<1> DEFINE t == Head(tasks)
<1>2. SUFFICES ASSUME NEW g \in Fd
               PROVE  Consistent(Queued', g, owner[g], watched'[g], epoll')
  BY <1>1 DEF RegInv
<1>3. Consistent(Queued, g, owner[g], watched[g], epoll)
  BY DEF RegInv
<1>4. CASE t.op = "add" /\ PollSetAdd(t.fd, t.who)
  <2>1. t.fd \in Fd /\ t.who \in Delegate
    BY <1>1, <1>4 DEF Task
  <2>2. CASE t.fd # g
    <3>1. watched'[g] = watched[g] /\ (g \in epoll' <=> g \in epoll)
      BY <1>4, <2>1, <2>2 DEF PollSetAdd, TypeOK
    <3> QED
      BY <1>1, <1>3, <2>2, <3>1, ConsistentSkip
  <2>3. CASE t.fd = g
    <3>1. On(Queued, g, 1) /\ Queued[1].op = "add" /\ Queued[1].who = t.who /\ 1 \in 1..Len(Queued)
      BY <1>1, <1>4, <2>3, TailAt DEF On
    <3>2. watched[g] = Nobody /\ g \notin epoll
      <4>1. (\A k \in 1..(1 - 1) : ~On(Queued, g, k)) => watched[g] = Nobody
        BY <1>1, <1>3, <2>3, <3>1 DEF Consistent, AddsFollow
      <4> QED
        BY <1>3, <4>1 DEF Consistent
    <3>3. g \in epoll' => watched'[g] # Nobody
      BY <1>4, <2>1, <2>3, <3>2, LoopAssumption DEF PollSetAdd, TypeOK
    <3>4. ASSUME owner[g] = t.who
          PROVE  /\ watched'[g] \in {Nobody, t.who}
                 /\ Room => watched'[g] = t.who
                 /\ g \in epoll' <=> watched'[g] # Nobody
      <4>1. owner[g] # Nobody /\ Nobody \notin Delegate
        BY <2>1, <3>4, LoopAssumption
      <4>2. Room => ~Full
        BY <3>2, RoomForOne
      <4> QED
        BY <1>4, <2>1, <2>3, <3>2, <4>1, <4>2 DEF PollSetAdd, TypeOK
    <3> QED
      BY <1>1, <1>3, <3>1, <3>3, <3>4, ConsistentRun
  <2> QED
    BY <2>2, <2>3
<1>5. CASE t.op = "remove" /\ PollSetRemove(t.fd)
  <2>1. t.fd \in Fd
    BY <1>1, <1>5 DEF Task
  <2>2. CASE t.fd # g
    <3>1. watched'[g] = watched[g] /\ (g \in epoll' <=> g \in epoll)
      BY <1>5, <2>1, <2>2 DEF PollSetRemove, TypeOK
    <3> QED
      BY <1>1, <1>3, <2>2, <3>1, ConsistentSkip
  <2>3. CASE t.fd = g
    <3>1. On(Queued, g, 1) /\ Queued[1].op = "remove"
      BY <1>1, <1>5, <2>3 DEF On
    <3>2. watched'[g] = Nobody /\ g \notin epoll'
      BY <1>5, <2>1, <2>3 DEF PollSetRemove, TypeOK
    <3> QED
      BY <1>1, <1>3, <3>1, <3>2, ConsistentRun
  <2> QED
    BY <2>2, <2>3
<1>6. CASE t.op = "call" /\ UNCHANGED <<epoll, watched>>
  BY <1>1, <1>3, <1>6, ConsistentSkip
<1> QED
  BY <1>4, <1>5, <1>6 DEF RunTask

LEMMA RegStep ==
    ASSUME TypeOK, TurnInv, RegInv, [Next]_vars
    PROVE  RegInv'
<1>1. Discovery \in Delegate /\ Channel \in SUBSET Delegate /\ Nobody \notin Delegate
      /\ Foreign \notin Delegate
  BY LoopAssumption DEF Delegate
<1>2. CASE StartHandshake
  <2>1. PICK f \in Fd : /\ owner[f] = Nobody
                        /\ owner' = Opened(owner, Discovery, f) /\ Post(<<Add(f, Discovery)>>)
    BY <1>2, LowestFree DEF StartHandshake
  <2>2. Queued' = Append(Queued, Add(f, Discovery))
    BY <1>1, <1>2, <2>1, TaskType, PostOne DEF StartHandshake, turn
  <2> QED
    BY <1>1, <1>2, <2>1, <2>2, RegOpened DEF StartHandshake
<1>3. ASSUME NEW f \in Fd, DropHandshake(f)
      PROVE  RegInv'
  <2>1. Queued' = Append(Queued, Remove(f, Discovery))
    BY <1>1, <1>3, TaskType, PostOne DEF DropHandshake, Unregister, turn
  <2> QED
    BY <1>1, <1>3, <2>1, RegClosed DEF DropHandshake
<1>4. ASSUME NEW f \in Fd, NEW c \in Channel, FindDevice(f, c)
      PROVE  RegInv'
  <2>1. PICK g \in Fd : /\ Closed(owner, f)[g] = Nobody
                        /\ owner' = Opened(Closed(owner, f), c, g)
                        /\ Post(Reregister(f, g, c))
    BY <1>4, LowestFree DEF FindDevice
  <2>2. Queued' = Append(Append(Queued, Remove(f, Discovery)), Add(g, c))
    BY <1>1, <1>4, <2>1, TaskType, PostTwo DEF FindDevice, Reregister, turn
  <2> QED
    BY <1>4, <2>1, <2>2, RegMoved DEF FindDevice
<1>5. ASSUME NEW f \in Fd, NEW c \in Channel, Destroy(c, f)
      PROVE  RegInv'
  <2>1. Queued' = Append(Queued, Remove(f, c))
    BY <1>1, <1>5, TaskType, PostOne DEF Destroy, Unregister, turn
  <2> QED
    BY <1>1, <1>5, <2>1, RegClosed DEF Destroy
<1>6. CASE RunTask
  BY <1>6, RegRunTask
<1>7. CASE Poll \/ Drain \/ Return \/ CheckTimer \/ TakeTasks \/ NextTurn
           \/ \E f \in Fd : Serve(f)
  <2>1. UNCHANGED Queued
    BY <1>7, QueueKept
  <2>2. UNCHANGED <<owner, watched, epoll>>
    BY <1>7 DEF Poll, Drain, Return, CheckTimer, TakeTasks, NextTurn, Serve, sockets
  <2> QED
    BY <2>1, <2>2, RegKept
<1>8. ASSUME NEW t \in User, PostTask(t)
      PROVE  RegInv'
  <2>1. Queued' = Append(Queued, Call(t)) /\ Call(t) \in Task /\ Queued \in Seq(Task)
    BY <1>8, CallType, QueueAppend, QueuedType DEF PostTask, TypeOK, Queued, turn
  <2>2. UNCHANGED <<owner, watched, epoll>> /\ Call(t).op = "call"
    BY <1>8 DEF PostTask, sockets, Call
  <2> QED
    BY <2>1, <2>2, ConsistentOther DEF RegInv
<1>9. ASSUME NEW t \in User, Wakeup(t)
      PROVE  RegInv'
  BY <1>9, QueueKept, RegKept DEF Wakeup, sockets
<1>10. CASE OpenForeign
  <2>1. PICK f \in Fd : owner[f] = Nobody /\ owner' = Opened(owner, Foreign, f)
    BY <1>10, LowestFree DEF OpenForeign
  <2>2. UNCHANGED Queued /\ Queued \in Seq(Task) /\ UNCHANGED <<watched, epoll>>
    BY <1>10, QueueKept, QueuedType DEF OpenForeign
  <2>3. ASSUME NEW g \in Fd
        PROVE  Consistent(Queued, g, owner'[g], watched[g], epoll)
    <3>1. Consistent(Queued, g, owner[g], watched[g], epoll)
      BY DEF RegInv
    <3>2. g # f => owner'[g] = owner[g]
      BY <2>1 DEF Opened, TypeOK
    <3>3. g = f => owner'[g] = Foreign
      BY <2>1 DEF Opened, TypeOK
    <3> QED
      BY <1>1, <2>1, <2>2, <3>1, <3>2, <3>3, ConsistentForeign
  <2> QED
    BY <2>2, <2>3 DEF RegInv
<1>11. ASSUME NEW f \in Fd, CloseForeign(f)
       PROVE  RegInv'
  <2>1. owner[f] = Foreign /\ owner' = Closed(owner, f) /\ epoll' = epoll \ {f}
    BY <1>11 DEF CloseForeign
  <2>2. UNCHANGED Queued /\ Queued \in Seq(Task) /\ UNCHANGED watched
    BY <1>11, QueueKept, QueuedType DEF CloseForeign
  <2>3. ASSUME NEW g \in Fd
        PROVE  Consistent(Queued, g, owner'[g], watched[g], epoll')
    <3>1. Consistent(Queued, g, owner[g], watched[g], epoll)
      BY DEF RegInv
    <3>2. g # f => owner'[g] = owner[g] /\ (g \in epoll' <=> g \in epoll)
      BY <2>1 DEF Closed, TypeOK
    <3>3. g = f => owner'[g] = Nobody /\ g \notin epoll'
      BY <2>1 DEF Closed, TypeOK
    <3>4. CASE g = f
      BY <1>1, <2>1, <2>2, <3>1, <3>3, <3>4, ConsistentForeign
    <3>5. CASE g # f
      <4>1. owner'[g] = owner[g] /\ (g \in epoll' <=> g \in epoll)
        BY <3>2, <3>5
      <4> QED
        BY <3>1, <4>1 DEF Consistent, Settled
    <3> QED
      BY <3>4, <3>5
  <2> QED
    BY <2>2, <2>3 DEF RegInv
<1>12. CASE UNCHANGED vars
  BY <1>12, QueueKept, RegKept DEF vars, sockets
<1> QED
  BY <1>2, <1>3, <1>4, <1>5, <1>6, <1>7, <1>8, <1>9, <1>10, <1>11, <1>12, CallbackCases
  DEF Next, Loop, Others

LEMMA RegInit == Init => RegInv
<1> SUFFICES ASSUME Init, NEW f \in Fd
             PROVE  Consistent(Queued, f, owner[f], watched[f], epoll)
  BY DEF RegInv
<1> DEFINE e == Add(Listen, Discovery)
<1>1. Queued = <<e>>
  BY DEF Init, Queued
<1>2. Len(Queued) = 1 /\ Queued[1] = e
  BY <1>1
<1>3. e.op = "add" /\ e.fd = Listen /\ e.who = Discovery
  BY DEF Add
<1>4. watched[f] = Nobody /\ f \notin epoll
      /\ owner[f] = IF f = Listen THEN Discovery ELSE Nobody
  BY DEF Init
<1>5. Nobody \notin Delegate
  BY LoopAssumption
<1> HIDE DEF e
<1>6. \A i \in 1..Len(Queued) : i = 1
  BY <1>2
<1>7. f = Listen <=> On(Queued, f, 1)
  BY <1>2, <1>3 DEF On
<1>8. AddsFollow(Queued, f, watched[f])
  BY <1>4, <1>6 DEF AddsFollow
<1>9. LastSettles(Queued, f, owner[f])
  BY <1>2, <1>3, <1>4, <1>6, <1>7 DEF LastSettles
<1>10. Settled(Queued, f, owner[f], watched[f], epoll)
  BY <1>2, <1>4, <1>5, <1>7 DEF Settled
<1> QED
  BY <1>4, <1>8, <1>9, <1>10 DEF Consistent

LEMMA RegAlways == Spec => []RegInv
<1>1. TypeOK /\ TurnInv /\ RegInv /\ [Next]_vars => RegInv'
  BY RegStep
<1> QED
  BY <1>1, RegInit, TypeCorrect, TurnAlways, PTL DEF Spec

\* Whenever the loop is about to wait with nothing queued, it watches exactly
\* the descriptors its delegates have open, each for its owner, and so does
\* the kernel, if the table of delegates has an entry for each.
THEOREM RegisteredAsOwnedAlways ==
    ASSUME Room
    PROVE  Spec => []RegisteredAsOwned
<1>1. TypeOK /\ TurnInv /\ RegInv => RegisteredAsOwned
  <2> SUFFICES ASSUME TypeOK, TurnInv, RegInv, phase = "wait",
                      \A i \in DOMAIN pending : pending[i].op = "call", NEW f \in Fd
               PROVE  /\ watched[f] = IF owner[f] \in Delegate THEN owner[f] ELSE Nobody
                      /\ f \in epoll <=> watched[f] # Nobody
    BY DEF RegisteredAsOwned
  <2>1. Queued = pending
    BY DEF TurnInv, Queued, TypeOK
  <2>2. \A i \in 1..Len(Queued) : ~On(Queued, f, i)
    BY <2>1 DEF On, TypeOK
  <2>3. Settled(Queued, f, owner[f], watched[f], epoll)
    BY DEF RegInv, Consistent
  <2> QED
    BY <2>2, <2>3 DEF Settled
<1> QED
  BY <1>1, TypeCorrect, TurnAlways, RegAlways, PTL

-----------------------------------------------------------------------------
(* No destroyed delegate is called.  A channel has one socket, is queued   *)
(* for registration at most once, while it has the socket and is not       *)
(* registered, and stays registered after its destruction only until a     *)
(* removal that is queued.                                                 *)

AddedAt(q, c, i) == q[i].op = "add" /\ q[i].who = c

RemovalIn(q, f) == \E i \in 1..Len(q) : q[i].op = "remove" /\ q[i].fd = f

ChannelOk(q, c, own, wat, lv, md) ==
    /\ \A x, y \in Fd : own[x] = c /\ own[y] = c => x = y
    /\ \A x, y \in Fd : wat[x] = c /\ wat[y] = c => x = y
    /\ \A x \in Fd : own[x] = c => c \in lv
    /\ \A x \in Fd : wat[x] = c => c \in md /\ (own[x] = c \/ (c \notin lv /\ RemovalIn(q, x)))
    /\ \A i \in 1..Len(q) : AddedAt(q, c, i) =>
          /\ own[q[i].fd] = c
          /\ \A x \in Fd : wat[x] # c
          /\ \A j \in 1..Len(q) : AddedAt(q, c, j) => i = j

ChannelInv == \A c \in Channel : ChannelOk(Queued, c, owner, watched, live, made)

\* A task that does not register the channel is queued.
LEMMA ChannelAppend ==
    ASSUME NEW q \in Seq(Task), NEW e \in Task, NEW c, NEW own, NEW wat, NEW lv, NEW md,
           ChannelOk(q, c, own, wat, lv, md), e.op = "add" => e.who # c
    PROVE  ChannelOk(Append(q, e), c, own, wat, lv, md)
<1> DEFINE p == Append(q, e)
<1>1. /\ Len(q) \in Nat /\ Len(p) = Len(q) + 1
      /\ \A i \in 1..Len(q) : p[i] = q[i]
      /\ p[Len(q) + 1] = e
  BY AppendAt
<1> HIDE DEF p
<1>2. \A i \in 1..Len(p) : AddedAt(p, c, i) => i \in 1..Len(q) /\ AddedAt(q, c, i) /\ p[i] = q[i]
  BY <1>1 DEF AddedAt
<1>3. \A x : RemovalIn(q, x) => RemovalIn(p, x)
  BY <1>1 DEF RemovalIn
<1> QED
  BY <1>2, <1>3 DEF ChannelOk, p

\* Sockets other than the channel's change hands.
LEMMA ChannelElsewhere ==
    ASSUME NEW q \in Seq(Task), NEW c, NEW own, NEW wat, NEW lv, NEW md,
           NEW own2, NEW lv2, NEW md2,
           \A i \in 1..Len(q) : q[i].op = "add" => q[i].fd \in Fd,
           ChannelOk(q, c, own, wat, lv, md),
           \A x \in Fd : own2[x] = c <=> own[x] = c,
           c \in lv2 <=> c \in lv, c \in md => c \in md2
    PROVE  ChannelOk(q, c, own2, wat, lv2, md2)
BY DEF ChannelOk, AddedAt

\* The channel is created, and queued for registration.
LEMMA ChannelCreated ==
    ASSUME NEW q \in Seq(Task), NEW e \in Task, NEW c, NEW own, NEW wat, NEW lv, NEW md,
           NEW own2, NEW lv2, NEW md2,
           ChannelOk(q, c, own, wat, lv, md), c \notin md, lv \in SUBSET md,
           \A i \in 1..Len(q) : q[i].op = "add" => q[i].fd \in Fd,
           AddedAt(<<e>>, c, 1), e.fd \in Fd,
           \A x \in Fd : own2[x] = c <=> x = e.fd,
           c \in lv2, c \in md2
    PROVE  ChannelOk(Append(q, e), c, own2, wat, lv2, md2)
<1> DEFINE p == Append(q, e)
<1>1. /\ Len(q) \in Nat /\ Len(p) = Len(q) + 1
      /\ \A i \in 1..Len(q) : p[i] = q[i]
      /\ p[Len(q) + 1] = e
  BY AppendAt
<1> HIDE DEF p
<1>2. \A i \in 1..Len(q) : ~AddedAt(q, c, i)
  BY DEF ChannelOk, AddedAt
<1>3. \A i \in 1..Len(p) : AddedAt(p, c, i) => i = Len(q) + 1 /\ p[i] = e
  BY <1>1, <1>2 DEF AddedAt
<1>4. \A x \in Fd : wat[x] # c
  BY DEF ChannelOk
<1> QED
  BY <1>3, <1>4 DEF ChannelOk, p

\* A registered channel is destroyed, and queued for removal.
LEMMA ChannelDestroyed ==
    ASSUME NEW q \in Seq(Task), NEW e \in Task, NEW c, NEW own, NEW wat, NEW lv, NEW md,
           NEW own2, NEW lv2, NEW cur \in Fd, NEW f \in Fd,
           ChannelOk(q, c, own, wat, lv, md),
           wat[cur] = c, own[f] = c, e.op = "remove", e.fd = f,
           \A x \in Fd : own2[x] # c,
           c \notin lv2
    PROVE  ChannelOk(Append(q, e), c, own2, wat, lv2, md)
<1> DEFINE p == Append(q, e)
<1>1. /\ Len(q) \in Nat /\ Len(p) = Len(q) + 1
      /\ \A i \in 1..Len(q) : p[i] = q[i]
      /\ p[Len(q) + 1] = e
  BY AppendAt
<1> HIDE DEF p
<1>2. \A i \in 1..Len(q) : ~AddedAt(q, c, i)
  BY DEF ChannelOk
<1>3. \A i \in 1..Len(p) : ~AddedAt(p, c, i)
  BY <1>1, <1>2 DEF AddedAt
<1>4. RemovalIn(p, f)
  BY <1>1 DEF RemovalIn
<1>5. \A x \in Fd : wat[x] = c => x = f
  BY DEF ChannelOk
<1> QED
  BY <1>3, <1>4, <1>5 DEF ChannelOk, p

\* The first task is run: the registrations of the channel that are left are
\* the ones it did not remove, and the one it made.
LEMMA ChannelRun ==
    ASSUME NEW q \in Seq(Task), NEW c, NEW own, NEW wat, NEW lv, NEW md, NEW wat2,
           ChannelOk(q, c, own, wat, lv, md), q # <<>>, lv \in SUBSET md,
           \A x \in Fd : wat2[x] = c =>
               \/ wat[x] = c /\ ~(q[1].op = "remove" /\ q[1].fd = x)
               \/ AddedAt(q, c, 1) /\ x = q[1].fd
    PROVE  ChannelOk(Tail(q), c, own, wat2, lv, md)
<1> DEFINE p == Tail(q)
<1>1. /\ Len(q) \in Nat \ {0} /\ Len(p) = Len(q) - 1
      /\ \A i \in 1..Len(p) : p[i] = q[i + 1]
  BY TailAt
<1> HIDE DEF p
<1>2. \A i \in 1..Len(p) : AddedAt(p, c, i) => i + 1 \in 1..Len(q) /\ AddedAt(q, c, i + 1)
  BY <1>1 DEF AddedAt
<1>3. ASSUME NEW i \in 1..Len(p), AddedAt(p, c, i)
      PROVE  /\ own[p[i].fd] = c
             /\ \A x \in Fd : wat2[x] # c
             /\ \A j \in 1..Len(p) : AddedAt(p, c, j) => i = j
  <2>1. i + 1 \in 1..Len(q) /\ AddedAt(q, c, i + 1) /\ p[i] = q[i + 1] /\ 1 \in 1..Len(q)
    BY <1>1, <1>2, <1>3
  <2>2. i + 1 # 1 /\ (\A j \in 1..Len(p) : i + 1 = j + 1 => i = j)
    BY <1>1
  <2>3. ~AddedAt(q, c, 1)
    BY <2>1, <2>2 DEF ChannelOk
  <2> QED
    BY <1>2, <2>1, <2>2, <2>3 DEF ChannelOk
<1>4. ASSUME NEW x \in Fd, RemovalIn(q, x), ~(q[1].op = "remove" /\ q[1].fd = x)
      PROVE  RemovalIn(p, x)
  <2>1. PICK i \in 1..Len(q) : q[i].op = "remove" /\ q[i].fd = x
    BY <1>4 DEF RemovalIn
  <2>2. i # 1
    BY <1>4, <2>1
  <2>3. i - 1 \in 1..Len(p) /\ (i - 1) + 1 = i
    BY <1>1, <2>2
  <2> QED
    BY <1>1, <2>1, <2>3 DEF RemovalIn
<1>5. 1 \in 1..Len(q)
  BY <1>1
<1>6. ASSUME AddedAt(q, c, 1)
      PROVE  own[q[1].fd] = c /\ c \in md /\ \A x \in Fd : wat2[x] = c => x = q[1].fd
  <2>1. q[1] \in Task /\ q[1].op = "add"
    BY <1>5, <1>6 DEF AddedAt
  <2>2. q[1].fd \in Fd
    BY <2>1 DEF Task
  <2>3. own[q[1].fd] = c /\ \A x \in Fd : wat[x] # c
    BY <1>5, <1>6 DEF ChannelOk
  <2>4. c \in md
    BY <2>2, <2>3 DEF ChannelOk
  <2> QED
    BY <2>3, <2>4
<1>7. ASSUME NEW x \in Fd, wat2[x] = c
      PROVE  c \in md /\ (own[x] = c \/ (c \notin lv /\ RemovalIn(p, x)))
  <2>1. CASE AddedAt(q, c, 1) /\ x = q[1].fd
    <3>1. own[q[1].fd] = c /\ c \in md
      BY <1>6, <2>1
    <3> QED
      BY <2>1, <3>1
  <2>2. CASE wat[x] = c /\ ~(q[1].op = "remove" /\ q[1].fd = x)
    <3>1. c \in md /\ (own[x] = c \/ (c \notin lv /\ RemovalIn(q, x)))
      BY <2>2 DEF ChannelOk
    <3> QED
      BY <1>4, <2>2, <3>1
  <2> QED
    BY <1>7, <2>1, <2>2
<1>8. \A x, y \in Fd : wat2[x] = c /\ wat2[y] = c => x = y
  BY <1>6 DEF ChannelOk
<1> QED
  BY <1>3, <1>7, <1>8 DEF ChannelOk, p

LEMMA QueuedFds ==
    ASSUME NEW q \in Seq(Task)
    PROVE  \A i \in 1..Len(q) : q[i].op = "add" => q[i].fd \in Fd
<1>1. \A i \in 1..Len(q) : q[i] \in Task
  OBVIOUS
<1> QED
  BY <1>1 DEF Task

\* A callback of the discovery that opens or closes a socket of its own.
LEMMA ChannelDiscovery ==
    ASSUME TypeOK, ChannelInv, NEW e \in Task, e.op = "add" => e.who = Discovery,
           NEW own, \A c \in Channel : \A x \in Fd : own[x] = c <=> owner[x] = c
    PROVE  \A c \in Channel : ChannelOk(Append(Queued, e), c, own, watched, live, made)
<1>1. Discovery \notin Channel
  BY LoopAssumption
<1>2. Queued \in Seq(Task) /\ Append(Queued, e) \in Seq(Task)
  BY QueuedType, AppendType
<1> TAKE c \in Channel
<1>3. ChannelOk(Append(Queued, e), c, owner, watched, live, made)
  BY <1>1, <1>2, ChannelAppend DEF ChannelInv
<1>4. \A i \in 1..Len(Append(Queued, e)) : Append(Queued, e)[i].op = "add" => Append(Queued, e)[i].fd \in Fd
  BY <1>2, QueuedFds
<1> QED
  BY <1>2, <1>3, <1>4, ChannelElsewhere, ZenonT(30)

LEMMA ChannelFindDevice ==
    ASSUME TypeOK, ChannelInv, NEW f \in Fd, NEW d \in Channel, FindDevice(f, d)
    PROVE  ChannelInv'
<1>1. Discovery \notin Channel /\ Nobody \notin Channel /\ Discovery \in Delegate /\ d \in Delegate
  BY LoopAssumption DEF Delegate
<1>2. PICK g \in Fd : /\ Closed(owner, f)[g] = Nobody
                      /\ owner' = Opened(Closed(owner, f), d, g)
                      /\ Post(Reregister(f, g, d))
  BY LowestFree DEF FindDevice
<1> DEFINE q == Append(Queued, Remove(f, Discovery))
           a == Add(g, d)
<1>3. Queued \in Seq(Task) /\ Remove(f, Discovery) \in Task /\ a \in Task
  BY <1>1, QueuedType, TaskType
<1>4. q \in Seq(Task)
  BY <1>3, AppendType
<1>5. Queued' = Append(q, a)
  BY <1>1, <1>2, <1>3, PostTwo DEF FindDevice, Reregister, turn
<1>6. \A c \in Channel : \A x \in Fd : Closed(owner, f)[x] = c <=> owner[x] = c
  BY <1>1 DEF Closed, FindDevice, TypeOK
<1>7. Remove(f, Discovery).op # "add"
  BY DEF Remove
<1>8. \A c \in Channel : ChannelOk(q, c, Closed(owner, f), watched, live, made)
  BY <1>3, <1>6, <1>7, ChannelDiscovery
<1>9. a.op = "add" /\ a.fd = g /\ a.who = d
  BY DEF Add
<1>10. \A i \in 1..Len(q) : q[i].op = "add" => q[i].fd \in Fd
  BY <1>4, QueuedFds
<1>11. \A i \in 1..Len(Append(q, a)) : Append(q, a)[i].op = "add" => Append(q, a)[i].fd \in Fd
  BY <1>3, <1>4, AppendType, QueuedFds
<1>12. d \notin made /\ live \in SUBSET made /\ live' = live \cup {d} /\ made' = made \cup {d}
       /\ UNCHANGED watched
  <2>1. d \in Nat /\ made \in SUBSET Nat /\ \A e \in made : e < d
    BY LoopAssumption DEF FindDevice, TypeOK
  <2> QED
    BY <2>1 DEF FindDevice, TypeOK
<1> HIDE DEF q, a
<1>13. SUFFICES ASSUME NEW c \in Channel
                PROVE  ChannelOk(Queued', c, owner', watched, live', made')
  BY <1>12 DEF ChannelInv
<1>14. CASE c = d
  <2>1. \A x \in Fd : owner'[x] = d <=> x = a.fd
    <3>1. \A x \in Fd : owner[x] # d
      BY <1>12 DEF ChannelInv, ChannelOk
    <3> QED
      BY <1>1, <1>2, <1>9, <3>1 DEF Opened, Closed, TypeOK
  <2>2. AddedAt(<<a>>, d, 1)
    BY <1>9 DEF AddedAt
  <2>3. ChannelOk(q, d, Closed(owner, f), watched, live, made)
    BY <1>8
  <2>4. a.fd \in Fd /\ d \in live' /\ d \in made'
    BY <1>9, <1>12
  <2>5. ChannelOk(Append(q, a), d, owner', watched, live', made')
    BY <1>3, <1>4, <1>10, <1>12, <2>1, <2>2, <2>3, <2>4, ChannelCreated
  <2> QED
    BY <1>5, <1>14, <2>5
<1>15. CASE c # d
  <2>1. ChannelOk(Append(q, a), c, Closed(owner, f), watched, live, made)
    BY <1>3, <1>4, <1>8, <1>9, <1>15, ChannelAppend
  <2>2. \A x \in Fd : owner'[x] = c <=> Closed(owner, f)[x] = c
    BY <1>1, <1>2, <1>15 DEF Opened, Closed, TypeOK
  <2>3. (c \in live' <=> c \in live) /\ (c \in made => c \in made')
    BY <1>12, <1>15
  <2>4. Append(q, a) \in Seq(Task)
    BY <1>3, <1>4, AppendType
  <2> QED
    BY <1>5, <1>11, <2>1, <2>2, <2>3, <2>4, ChannelElsewhere
<1> QED
  BY <1>14, <1>15

\* No two channels of a handle, and so a timer destroys its own.
OneOfHandle == \A c, d \in live : handle[c] = handle[d] => c = d

LEMMA TwiceKept ==
    ASSUME [Next]_vars, ~twice'
    PROVE  ~twice /\ UNCHANGED handle
<1>1. ASSUME NEW f \in Fd, NEW c \in Channel, FindDevice(f, c) \/ GiveUp(c, f)
      PROVE  ~twice /\ UNCHANGED handle
  <2>1. CASE FindDevice(f, c)
    BY <2>1 DEF FindDevice
  <2>2. CASE GiveUp(c, f)
    BY <2>2 DEF GiveUp, Destroy
  <2> QED
    BY <1>1, <2>1, <2>2
<1>2. CASE StartHandshake \/ \E f \in Fd : DropHandshake(f)
  BY <1>2 DEF StartHandshake, DropHandshake
<1>3. CASE Loop
  BY <1>3 DEF Loop, Poll, Drain, Return, CheckTimer, Serve, TakeTasks, RunTask, NextTurn,
     sockets
<1>4. CASE Others \/ UNCHANGED vars
  BY <1>4 DEF Others, PostTask, Wakeup, OpenForeign, CloseForeign, sockets, vars
<1> QED
  BY <1>1, <1>2, <1>3, <1>4 DEF Next, Callback

LEMMA OneOfHandleStep ==
    ASSUME TypeOK, OneOfHandle, [Next]_vars, ~twice'
    PROVE  OneOfHandle'
<1>1. ~twice /\ UNCHANGED handle
  BY TwiceKept
<1>2. CASE live' \in SUBSET live
  BY <1>1, <1>2 DEF OneOfHandle
<1>3. ASSUME NEW f \in Fd, NEW c \in Channel, FindDevice(f, c)
      PROVE  OneOfHandle'
  BY <1>1, <1>3 DEF FindDevice, OneOfHandle
<1>4. CASE \E f \in Fd : \E c \in Channel : Destroy(c, f)
  BY <1>2, <1>4 DEF Destroy
<1>5. CASE StartHandshake \/ (\E f \in Fd : DropHandshake(f)) \/ Loop \/ Others \/ UNCHANGED vars
  BY <1>2, <1>5 DEF Loop, Others, StartHandshake, DropHandshake, Poll, Drain, Return,
     CheckTimer, Serve, TakeTasks, RunTask, NextTurn, PostTask, Wakeup, OpenForeign,
     CloseForeign, sockets, vars
<1> QED
  BY <1>3, <1>4, <1>5, CallbackCases DEF Next

LEMMA ChannelDestroy ==
    ASSUME TypeOK, ChannelInv, NEW f \in Fd, NEW d \in Channel, Running(d), Destroy(d, f)
    PROVE  ChannelInv'
<1>1. Nobody \notin Channel /\ Nobody \notin Fd /\ d \in Delegate
  BY LoopAssumption DEF Delegate
<1> DEFINE e == Remove(f, d)
<1>2. e \in Task /\ Queued \in Seq(Task) /\ e.op = "remove" /\ e.fd = f
  BY <1>1, TaskType, QueuedType DEF Remove
<1>3. Append(Queued, e) \in Seq(Task)
  BY <1>2, AppendType
<1>4. Queued' = Append(Queued, e)
  BY <1>2, PostOne DEF Destroy, Unregister, turn
<1>5. /\ owner[f] = d /\ owner' = Closed(owner, f) /\ live' = live \ {d}
      /\ UNCHANGED <<watched, made>> /\ current \in Fd /\ watched[current] = d
  BY <1>1 DEF Destroy, Running, TypeOK
<1>6. SUFFICES ASSUME NEW c \in Channel
               PROVE  ChannelOk(Append(Queued, e), c, owner', watched, live', made)
  BY <1>4, <1>5 DEF ChannelInv
<1> HIDE DEF e
<1>7. ChannelOk(Queued, c, owner, watched, live, made)
  BY DEF ChannelInv
<1>8. CASE c = d
  <2>1. \A x \in Fd : owner'[x] # c
    BY <1>1, <1>5, <1>7, <1>8 DEF ChannelOk, Closed, TypeOK
  <2>2. c \notin live'
    BY <1>5, <1>8
  <2> QED
    BY <1>2, <1>5, <1>7, <1>8, <2>1, <2>2, ChannelDestroyed
<1>9. CASE c # d
  <2>1. ChannelOk(Append(Queued, e), c, owner, watched, live, made)
    BY <1>2, <1>7, ChannelAppend
  <2>2. \A x \in Fd : owner'[x] = c <=> owner[x] = c
    BY <1>1, <1>5, <1>9 DEF Closed, TypeOK
  <2>3. c \in live' <=> c \in live
    BY <1>5, <1>9
  <2>4. \A i \in 1..Len(Append(Queued, e)) : Append(Queued, e)[i].op = "add" => Append(Queued, e)[i].fd \in Fd
    BY <1>3, QueuedFds
  <2> QED
    BY <1>3, <2>1, <2>2, <2>3, <2>4, ChannelElsewhere
<1> QED
  BY <1>8, <1>9

LEMMA ChannelRunTask ==
    ASSUME TypeOK, ChannelInv, RunTask
    PROVE  ChannelInv'
<1>1. /\ Queued \in Seq(Task) /\ Queued # <<>> /\ Queued' = Tail(Queued)
      /\ Head(tasks) = Queued[1] /\ Queued[1] \in Task
      /\ UNCHANGED <<owner, live, made>> /\ live \in SUBSET made
  <2>1. Queued \in Seq(Task)
    BY QueuedType
  <2>2. Queued # <<>> /\ Queued' = Tail(Queued) /\ Head(tasks) = Head(Queued)
    BY QueueTail DEF RunTask, Rest, Queued, TypeOK
  <2>3. UNCHANGED <<owner, live, made>> /\ live \in SUBSET made
    BY DEF RunTask, TypeOK
  <2> QED
    BY <2>1, <2>2, <2>3, TailType, TailAt
<1> DEFINE t == Head(tasks)
<1>2. SUFFICES ASSUME NEW c \in Channel
               PROVE  ChannelOk(Tail(Queued), c, owner, watched', live, made)
  BY <1>1 DEF ChannelInv
<1>3. ChannelOk(Queued, c, owner, watched, live, made) /\ Nobody # c
  BY LoopAssumption DEF ChannelInv, Delegate
<1>4. SUFFICES \A x \in Fd : watched'[x] = c =>
                   \/ watched[x] = c /\ ~(Queued[1].op = "remove" /\ Queued[1].fd = x)
                   \/ AddedAt(Queued, c, 1) /\ x = Queued[1].fd
  BY <1>1, <1>3, ChannelRun
<1>5. CASE t.op = "add" /\ PollSetAdd(t.fd, t.who)
  <2>1. t.fd \in Fd /\ t.who \in Delegate
    BY <1>1, <1>5 DEF Task
  <2> QED
    BY <1>1, <1>5, <2>1 DEF PollSetAdd, TypeOK, AddedAt
<1>6. CASE t.op = "remove" /\ PollSetRemove(t.fd)
  <2>1. t.fd \in Fd
    BY <1>1, <1>6 DEF Task
  <2> QED
    BY <1>1, <1>3, <1>6, <2>1 DEF PollSetRemove, TypeOK
<1>7. CASE t.op = "call" /\ UNCHANGED <<epoll, watched>>
  BY <1>1, <1>7
<1> QED
  BY <1>5, <1>6, <1>7 DEF RunTask

LEMMA ChannelStep ==
    ASSUME TypeOK, TurnInv, ChannelInv, OneOfHandle, [Next]_vars
    PROVE  ChannelInv'
<1>1. /\ Discovery \in Delegate /\ Discovery \notin Channel /\ Nobody \notin Channel
      /\ Foreign \notin Channel
  BY LoopAssumption DEF Delegate
<1>2. Queued \in Seq(Task) /\ \A i \in 1..Len(Queued) : Queued[i].op = "add" => Queued[i].fd \in Fd
  BY QueuedType, QueuedFds
<1>3. CASE StartHandshake
  <2>1. PICK f \in Fd : /\ owner[f] = Nobody
                        /\ owner' = Opened(owner, Discovery, f) /\ Post(<<Add(f, Discovery)>>)
    BY <1>3, LowestFree DEF StartHandshake
  <2>2. Queued' = Append(Queued, Add(f, Discovery)) /\ Add(f, Discovery) \in Task
    BY <1>1, <1>3, <2>1, TaskType, PostOne DEF StartHandshake, turn
  <2>3. Add(f, Discovery).who = Discovery
    BY DEF Add
  <2>4. \A c \in Channel : \A x \in Fd : owner'[x] = c <=> owner[x] = c
    BY <1>1, <2>1 DEF Opened, TypeOK
  <2>5. \A c \in Channel : ChannelOk(Append(Queued, Add(f, Discovery)), c, owner', watched, live, made)
    BY <2>2, <2>3, <2>4, ChannelDiscovery
  <2> QED
    BY <1>3, <2>2, <2>5 DEF StartHandshake, ChannelInv
<1>4. ASSUME NEW f \in Fd, DropHandshake(f)
      PROVE  ChannelInv'
  <2>1. Queued' = Append(Queued, Remove(f, Discovery)) /\ Remove(f, Discovery) \in Task
    BY <1>1, <1>4, TaskType, PostOne DEF DropHandshake, Unregister, turn
  <2>2. Remove(f, Discovery).who = Discovery
    BY DEF Remove
  <2>3. \A c \in Channel : \A x \in Fd : owner'[x] = c <=> owner[x] = c
    BY <1>1, <1>4 DEF DropHandshake, Closed, TypeOK
  <2>4. \A c \in Channel : ChannelOk(Append(Queued, Remove(f, Discovery)), c, owner', watched, live, made)
    BY <2>1, <2>2, <2>3, ChannelDiscovery
  <2> QED
    BY <1>4, <2>1, <2>4 DEF DropHandshake, ChannelInv
<1>5. ASSUME NEW f \in Fd, NEW c \in Channel, FindDevice(f, c) \/ GiveUp(c, f)
      PROVE  ChannelInv'
  <2>1. CASE GiveUp(c, f)
    <3>1. PICK d \in Channel : d \in live /\ handle[d] = handle[c] /\ Destroy(d, f)
      BY <2>1, GiveUpDestroys
    <3>2. Running(c) /\ c \in live
      BY <2>1, GiveUpDestroys
    <3>3. d = c
      BY <3>1, <3>2 DEF OneOfHandle
    <3> QED
      BY <3>1, <3>2, <3>3, ChannelDestroy
  <2> QED
    BY <1>5, <2>1, ChannelFindDevice
<1>6. CASE RunTask
  BY <1>6, ChannelRunTask
<1>7. ASSUME NEW t \in User, PostTask(t)
      PROVE  ChannelInv'
  <2>1. Queued' = Append(Queued, Call(t)) /\ Call(t) \in Task
    BY <1>7, CallType, QueueAppend DEF PostTask, TypeOK, Queued, turn
  <2>2. UNCHANGED <<owner, watched, live, made>> /\ Call(t).op # "add"
    BY <1>7 DEF PostTask, sockets, Call
  <2> QED
    BY <1>2, <2>1, <2>2, ChannelAppend DEF ChannelInv
<1>8. ASSUME UNCHANGED Queued, UNCHANGED <<watched, live, made>>,
             \A c \in Channel : \A x \in Fd : owner'[x] = c <=> owner[x] = c
      PROVE  ChannelInv'
  BY <1>2, <1>8, ChannelElsewhere DEF ChannelInv
<1>9. CASE Poll \/ Drain \/ Return \/ CheckTimer \/ TakeTasks \/ NextTurn
           \/ (\E f \in Fd : Serve(f)) \/ (\E t \in User : Wakeup(t)) \/ UNCHANGED vars
  <2>1. UNCHANGED Queued
    BY <1>9, QueueKept
  <2>2. UNCHANGED <<owner, watched, live, made>>
    BY <1>9 DEF Poll, Drain, Return, CheckTimer, TakeTasks, NextTurn, Serve, Wakeup, sockets, vars
  <2> QED
    BY <1>8, <2>1, <2>2
<1>10. CASE OpenForeign
  <2>1. PICK f \in Fd : owner[f] = Nobody /\ owner' = Opened(owner, Foreign, f)
    BY <1>10, LowestFree DEF OpenForeign
  <2>2. \A c \in Channel : \A x \in Fd : owner'[x] = c <=> owner[x] = c
    BY <1>1, <2>1 DEF Opened, TypeOK
  <2> QED
    BY <1>8, <1>10, <2>2, QueueKept DEF OpenForeign
<1>11. ASSUME NEW f \in Fd, CloseForeign(f)
       PROVE  ChannelInv'
  <2>1. \A c \in Channel : \A x \in Fd : owner'[x] = c <=> owner[x] = c
    BY <1>1, <1>11 DEF CloseForeign, Closed, TypeOK
  <2> QED
    BY <1>8, <1>11, <2>1, QueueKept DEF CloseForeign
<1> QED
  BY <1>3, <1>4, <1>5, <1>6, <1>7, <1>9, <1>10, <1>11 DEF Next, Callback, Loop, Others

SessionInv == ~twice => ChannelInv /\ OneOfHandle

LEMMA ChannelAlways == Spec => []SessionInv
<1>1. Init => ChannelInv
  <2> SUFFICES ASSUME Init, NEW c \in Channel
               PROVE  ChannelOk(Queued, c, owner, watched, live, made)
    BY DEF ChannelInv
  <2>1. Queued = <<Add(Listen, Discovery)>>
    BY DEF Init, Queued
  <2>2. Len(Queued) = 1 /\ Queued[1].who = Discovery
    BY <2>1 DEF Add
  <2>3. c # Discovery /\ c # Nobody
    BY LoopAssumption DEF Delegate
  <2>4. \A i \in 1..Len(Queued) : ~AddedAt(Queued, c, i)
    BY <2>2, <2>3 DEF AddedAt
  <2>5. \A x \in Fd : owner[x] # c /\ watched[x] # c
    BY <2>3 DEF Init
  <2> QED
    BY <2>4, <2>5 DEF ChannelOk
<1>2. Init => SessionInv
  BY <1>1 DEF Init, SessionInv, OneOfHandle
<1>3. TypeOK /\ TurnInv /\ SessionInv /\ [Next]_vars => SessionInv'
  BY ChannelStep, OneOfHandleStep, TwiceKept DEF SessionInv
<1> QED
  BY <1>2, <1>3, TypeCorrect, TurnAlways, PTL DEF Spec

\* A descriptor registered for a destroyed channel is not served before its
\* removal, which is one of the tasks the turn takes.
Alive(f) == watched[f] \in {Nobody, Discovery} \cup live

AllAlive ==
    /\ phase \in {"wait", "data"} => \A f \in Fd : Alive(f)
    /\ phase = "timers" => \A f \in Fd : f \in todo => Alive(f)
    /\ phase = "tasks" => \A f \in Fd : Alive(f) \/ RemovalIn(tasks, f)

AliveInv == ~twice => AllAlive

LEMMA AliveCallback ==
    ASSUME TypeOK, TurnInv, ChannelInv, AllAlive, OneOfHandle, Callback
    PROVE  AllAlive'
<1>1. current # Nobody /\ UNCHANGED <<watched, turn>>
  BY DEF Callback, StartHandshake, DropHandshake, FindDevice, GiveUp, Destroy, Running
<1>2. phase \in {"data", "timers"} /\ current \notin todo
  BY <1>1 DEF TurnInv
<1>3. CASE live \in SUBSET live'
  BY <1>1, <1>2, <1>3 DEF AllAlive, Alive, turn
<1>4. ASSUME NEW f \in Fd, NEW c \in Channel, GiveUp(c, f)
      PROVE  AllAlive'
  <2>1. phase = "timers" /\ current \in Fd /\ watched[current] = c /\ live' = live \ {c}
    <3>1. PICK d \in Channel : d \in live /\ handle[d] = handle[c] /\ Destroy(d, f)
      BY <1>4, GiveUpDestroys
    <3>2. phase = "timers" /\ Running(c) /\ c \in live
      BY <1>4, GiveUpDestroys
    <3>3. d = c
      BY <3>1, <3>2 DEF OneOfHandle
    <3> QED
      BY <1>1, <3>1, <3>2, <3>3 DEF Destroy, Running, TypeOK
  <2>2. \A x \in Fd : watched[x] = c => x = current
    BY <2>1 DEF ChannelInv, ChannelOk
  <2> QED
    BY <1>1, <1>2, <2>1, <2>2 DEF AllAlive, Alive, turn
<1> QED
  BY <1>3, <1>4 DEF Callback, StartHandshake, DropHandshake, FindDevice

LEMMA AliveRunTask ==
    ASSUME TypeOK, ChannelInv, AllAlive, RunTask
    PROVE  AllAlive'
<1>1. /\ tasks \in Seq(Task) /\ tasks # <<>> /\ tasks' = Tail(tasks)
      /\ phase = "tasks" /\ phase' = "tasks" /\ UNCHANGED <<owner, live, made>>
  BY DEF RunTask, Rest, TypeOK
<1>2. /\ Len(tasks) \in Nat \ {0} /\ Len(tasks') = Len(tasks) - 1
      /\ Head(tasks) = tasks[1] /\ tasks[1] \in Task
      /\ \A i \in 1..Len(tasks') : tasks'[i] = tasks[i + 1]
  BY <1>1, TailAt, TailType
<1>3. /\ Queued \in Seq(Task) /\ Queued # <<>> /\ Head(tasks) = Queued[1]
      /\ 1 \in 1..Len(Queued)
  <2>1. Queued \in Seq(Task)
    BY QueuedType
  <2>2. Queued # <<>> /\ Head(tasks) = Head(Queued)
    BY <1>1, QueueTail DEF Queued, TypeOK
  <2> QED
    BY <2>1, <2>2, TailAt
<1> DEFINE t == Head(tasks)
<1>4. SUFFICES ASSUME NEW x \in Fd, ~Alive(x)'
               PROVE  RemovalIn(tasks', x)
  BY <1>1 DEF AllAlive
<1>5. ASSUME Alive(x) \/ RemovalIn(tasks, x), watched'[x] = watched[x],
             ~(t.op = "remove" /\ t.fd = x)
      PROVE  RemovalIn(tasks', x)
  <2>1. RemovalIn(tasks, x)
    BY <1>1, <1>4, <1>5 DEF Alive
  <2>2. PICK i \in 1..Len(tasks) : tasks[i].op = "remove" /\ tasks[i].fd = x
    BY <2>1 DEF RemovalIn
  <2>3. i # 1
    BY <1>2, <1>5, <2>2
  <2>4. i - 1 \in 1..Len(tasks') /\ (i - 1) + 1 = i
    BY <1>2, <2>3
  <2> QED
    BY <1>2, <2>2, <2>4 DEF RemovalIn
<1>6. Alive(x) \/ RemovalIn(tasks, x)
  BY <1>1 DEF AllAlive
<1>7. CASE t.op = "add" /\ PollSetAdd(t.fd, t.who)
  <2>1. t.fd \in Fd /\ t.who \in Delegate
    BY <1>2, <1>7 DEF Task
  <2>2. t.who \in Channel => t.who \in live
    <3> SUFFICES ASSUME t.who \in Channel PROVE t.who \in live
      OBVIOUS
    <3>1. AddedAt(Queued, t.who, 1)
      BY <1>3, <1>7 DEF AddedAt
    <3> QED
      BY <1>3, <2>1, <3>1 DEF ChannelInv, ChannelOk
  <2>3. CASE watched'[x] = watched[x]
    BY <1>5, <1>6, <1>7, <2>3
  <2>4. CASE watched'[x] # watched[x]
    <3>1. watched'[x] = t.who
      BY <1>7, <2>1, <2>4 DEF PollSetAdd, TypeOK
    <3> QED
      BY <1>1, <1>4, <2>1, <2>2, <3>1 DEF Alive, Delegate
  <2> QED
    BY <2>3, <2>4
<1>8. CASE t.op = "remove" /\ PollSetRemove(t.fd)
  <2>1. t.fd \in Fd
    BY <1>2, <1>8 DEF Task
  <2>2. t.fd # x
    BY <1>4, <1>8, <2>1 DEF PollSetRemove, TypeOK, Alive
  <2>3. watched'[x] = watched[x]
    BY <1>8, <2>1, <2>2 DEF PollSetRemove, TypeOK
  <2> QED
    BY <1>5, <1>6, <2>2, <2>3
<1>9. CASE t.op = "call" /\ UNCHANGED <<epoll, watched>>
  BY <1>5, <1>6, <1>9
<1> QED
  BY <1>7, <1>8, <1>9 DEF RunTask

LEMMA AllAliveStep ==
    ASSUME TypeOK, TurnInv, ChannelInv, AllAlive, OneOfHandle, [Next]_vars
    PROVE  AllAlive'
<1>1. CASE Callback
  BY <1>1, AliveCallback
<1>2. CASE RunTask
  BY <1>2, AliveRunTask
<1>3. CASE TakeTasks
  <2>1. tasks = <<>> /\ tasks' = pending /\ UNCHANGED <<watched, live>> /\ phase' = "tasks"
    BY <1>3 DEF TakeTasks, TurnInv, Step, sockets
  <2>2. Queued = pending
    BY <2>1 DEF Queued, TypeOK
  <2>3. ASSUME NEW f \in Fd, ~Alive(f) PROVE RemovalIn(pending, f)
    <3>1. watched[f] \in Channel /\ watched[f] \notin live
      BY <2>3 DEF Alive, TypeOK, Delegate
    <3>2. ChannelOk(Queued, watched[f], owner, watched, live, made)
      BY <3>1 DEF ChannelInv
    <3> QED
      BY <2>2, <3>1, <3>2 DEF ChannelOk
  <2>4. \A f \in Fd : Alive(f)' <=> Alive(f)
    BY <2>1 DEF Alive
  <2> QED
    BY <2>1, <2>3, <2>4 DEF AllAlive
<1>4. CASE NextTurn
  <2>1. tasks = <<>> /\ phase = "tasks" /\ phase' = "wait" /\ UNCHANGED <<watched, live>>
    BY <1>4 DEF NextTurn, Step, sockets
  <2>2. \A f \in Fd : ~RemovalIn(tasks, f)
    BY <2>1 DEF RemovalIn
  <2> QED
    BY <2>1, <2>2 DEF AllAlive, Alive
<1>5. CASE Poll \/ Drain \/ Return \/ CheckTimer \/ \E f \in Fd : Serve(f)
  BY <1>5 DEF Poll, Drain, Return, CheckTimer, Serve, Step, AllAlive, Alive, sockets
<1>6. CASE Others \/ UNCHANGED vars
  <2>1. UNCHANGED <<watched, live, phase, todo, tasks>>
    BY <1>6 DEF Others, PostTask, Wakeup, OpenForeign, CloseForeign, turn, sockets, vars
  <2> QED
    BY <2>1 DEF AllAlive, Alive
<1> QED
  BY <1>1, <1>2, <1>3, <1>4, <1>5, <1>6 DEF Next, Loop

LEMMA AliveStep ==
    ASSUME TypeOK, TurnInv, SessionInv, AliveInv, [Next]_vars
    PROVE  AliveInv'
<1> SUFFICES ASSUME ~twice' PROVE AllAlive'
  BY DEF AliveInv
<1> QED
  BY TwiceKept, AllAliveStep DEF AliveInv, SessionInv

LEMMA AliveAlways == Spec => []AliveInv
<1>1. Init => AliveInv
  BY DEF Init, AliveInv, AllAlive, Alive
<1>2. TypeOK /\ TurnInv /\ SessionInv /\ AliveInv /\ [Next]_vars => AliveInv'
  BY AliveStep
<1> QED
  BY <1>1, <1>2, TypeCorrect, TurnAlways, ChannelAlways, PTL DEF Spec

\* As long as no handle has been given a second session, the loop calls no
\* delegate that has been destroyed.
THEOREM CalledAliveAlways == Spec => CalledAlive
<1>1. TypeOK /\ AliveInv /\ [Next]_vars
        => [current = Nobody /\ current' # Nobody /\ ~twice =>
              watched[current'] \in {Discovery} \cup live]_vars
  <2> SUFFICES ASSUME TypeOK, AliveInv, [Next]_vars, current = Nobody, current' # Nobody, ~twice
               PROVE  watched[current'] \in {Discovery} \cup live
    OBVIOUS
  <2>1. PICK f \in Fd : Serve(f)
    BY DEF Next, Callback, Loop, Others, StartHandshake, DropHandshake, FindDevice, GiveUp,
       Running, Poll, Drain, Return, CheckTimer, TakeTasks, RunTask, NextTurn, PostTask,
       Wakeup, OpenForeign, CloseForeign, turn, vars
  <2>2. current' = f /\ watched[f] # Nobody /\ f \in todo /\ phase \in {"data", "timers"}
    BY <2>1 DEF Serve
  <2>3. Alive(f)
    BY <2>2 DEF AliveInv, AllAlive
  <2> QED
    BY <2>2, <2>3 DEF Alive
<1> QED
  BY <1>1, TypeCorrect, AliveAlways, PTL DEF Spec, CalledAlive
====
