---------------------------- MODULE CommandChannel ----------------------------
(***************************************************************************)
(* One command channel of the SDK: the object that sends the commands of   *)
(* one connected device, matches the replies, times the commands out,      *)
(* keeps the heartbeat going and gives the device up when it falls silent  *)
(* (command_handler/command_channel.cpp), with the API call that feeds it  *)
(* (CommandHandler::SendCommand) and the datagram network in between.      *)
(*                                                                         *)
(* OnData, OnTimer and the queued Send run on the IO thread, one at a time;*)
(* SendCommand runs on any thread of the program and touches only the      *)
(* atomic sequence counter and the task queue of the IO loop.              *)
(*                                                                         *)
(* Time is counted in ticks.  A datagram lives PacketLife ticks on the wire*)
(* and in the socket buffer; when it is older it is lost.  The wire also   *)
(* duplicates and reorders datagrams when Faulty is TRUE.                  *)
(***************************************************************************)
EXTENDS Naturals, Sequences, FiniteSets

CONSTANTS
    Cmd,         \* the commands the program issues, each at most once
    NoCmd,       \* not a command: an empty entry of commands_
    SeqMax,      \* UINT16_MAX: the largest sequence number
    CmdTimeout,  \* Command::time_out, in ticks
    HbPeriod,    \* kHeartbeatTimer (800 ms), in ticks
    HbLimit,     \* the 3 s of silence OnTimer tolerates, in ticks
    PacketLife,  \* how many ticks a datagram can be under way
    MaxStall,    \* the IO thread runs OnTimer at least every MaxStall ticks
    Faulty       \* whether the wire loses and the device may die

ASSUME ChannelAssumption ==
    /\ NoCmd \notin Cmd
    /\ SeqMax \in Nat \ {0}
    /\ CmdTimeout \in Nat /\ HbPeriod \in Nat /\ HbLimit \in Nat
    /\ PacketLife \in Nat /\ MaxStall \in Nat
    /\ Faulty \in BOOLEAN

VARIABLES
    seq,         \* the static counter of GenerateSeq
    queue,       \* the Send closures this channel has in the loop's task queue
    due,         \* how many of them the current turn of the loop must still run
    commands,    \* commands_: which command waits under a sequence number
    age,         \* ticks since the entry of commands_ was written
    open,        \* the channel object exists (its protector_ is not expired)
    silence,     \* ticks since last_heartbeat_
    beat,        \* ticks since heartbeat_time_, HbPeriod + 1 when it is due
    stall,       \* ticks since OnTimer last ran
    calls,       \* what SendCommand returned for a command
    reports,     \* the statuses the callback of a command was called with
    requests,    \* datagrams on their way to the device
    replies,     \* datagrams on their way to the channel
    executed,    \* the commands the device has carried out
    alive        \* the device is running

host == <<seq, queue, due, commands, age, open, silence, beat, stall, calls,
          reports>>
world == <<requests, replies, executed, alive>>
vars == <<host, world>>

SeqNum == 1..SeqMax
Closure == [cmd : Cmd, seq : SeqNum]
Status == {"Success", "Timeout", "SendFailed"}
CallState == {"idle", "accepted", "refused"}
Packet == [cmd : Cmd \cup {NoCmd}, seq : SeqNum, life : 0..PacketLife]

TypeOK ==
    /\ seq \in SeqNum
    /\ queue \in Seq(Closure)
    /\ due \in 0..Len(queue)
    /\ commands \in [SeqNum -> Cmd \cup {NoCmd}]
    /\ age \in [SeqNum -> 0..CmdTimeout + 1]
    /\ open \in BOOLEAN
    /\ silence \in 0..HbLimit + 1
    /\ beat \in 0..HbPeriod + 1
    /\ stall \in 0..MaxStall
    /\ calls \in [Cmd -> CallState]
    /\ reports \in [Cmd -> Seq(Status)]
    /\ requests \in SUBSET Packet
    /\ replies \in SUBSET Packet
    /\ executed \in SUBSET Cmd
    /\ alive \in BOOLEAN

-----------------------------------------------------------------------------
(* A heartbeat is a packet of no command; it is not entered in commands_.  *)

Pkt(c, s) == [cmd |-> c, seq |-> s, life |-> PacketLife]

\* Mutant: the counter is read and never advanced.
GenerateSeq_Stuck(s) == s

\* GenerateSeq: 1, 2, ..., UINT16_MAX, 1, ...; it never yields 0.
GenerateSeq(s) == IF s = SeqMax THEN 1 ELSE s + 1

Pending == {s \in SeqNum : commands[s] # NoCmd}

\* Mutant: Send forgets to enter the command.
EnterCommand_Forgotten(c, s) == UNCHANGED <<commands, age>>

EnterCommand(c, s) ==
    /\ commands' = [commands EXCEPT ![s] = c]
    /\ age' = [age EXCEPT ![s] = 0]

\* Mutant: OnData leaves the answered command in commands_.
EraseCommand_Forgotten(s) == UNCHANGED <<commands, age>>

EraseCommand(s) ==
    /\ commands' = [commands EXCEPT ![s] = NoCmd]
    /\ age' = [age EXCEPT ![s] = 0]

Report(c, status) == reports' = [reports EXCEPT ![c] = Append(@, status)]

(* The channel is constructed and bound: Bind starts the silence clock,    *)
(* heartbeat_time_ is unset, so the first OnTimer sends a heartbeat.  The  *)
(* counter is shared by all channels and stands anywhere.                  *)
Init ==
    /\ seq \in SeqNum
    /\ queue = <<>>
    /\ due = 0
    /\ commands = [s \in SeqNum |-> NoCmd]
    /\ age = [s \in SeqNum |-> 0]
    /\ open = TRUE
    /\ silence = 0
    /\ beat = HbPeriod + 1
    /\ stall = 0
    /\ calls = [c \in Cmd |-> "idle"]
    /\ reports = [c \in Cmd |-> <<>>]
    /\ requests = {}
    /\ replies = {}
    /\ executed = {}
    /\ alive = TRUE

-----------------------------------------------------------------------------
(* CommandHandler::SendCommand on a program thread.  The number is drawn   *)
(* before the channel is looked up, so a refused call consumes one too; an *)
(* accepted one posts the Send closure to the IO loop.                     *)
SendCommand(c) ==
    /\ calls[c] = "idle"
    /\ seq' = GenerateSeq(seq)
    /\ IF open
       THEN /\ calls' = [calls EXCEPT ![c] = "accepted"]
            /\ queue' = Append(queue, [cmd |-> c, seq |-> seq'])
       ELSE /\ calls' = [calls EXCEPT ![c] = "refused"]
            /\ UNCHANGED queue
    /\ UNCHANGED <<due, commands, age, open, silence, beat, stall, reports,
                   world>>

(* A turn of the IO loop (IOLoop::Loop) polls - OnData, then OnTimer when   *)
(* it is time - and then runs every closure queued by then; due counts     *)
(* those still to run before the loop polls again.                         *)
NextClosure ==
    /\ queue # <<>>
    /\ queue' = Tail(queue)
    /\ due' = IF due > 0 THEN due - 1 ELSE 0

Polling == open /\ due = 0

\* Mutant: the closure does not ask whether the channel still exists.
ProtectorAlive_Unchecked == TRUE

ProtectorAlive == open

(* The IO loop runs the closure after the channel is gone: the weak        *)
(* pointer to protector_ is expired and the command is dropped.            *)
DropSend ==
    /\ ~ProtectorAlive
    /\ NextClosure
    /\ UNCHANGED <<seq, commands, age, open, silence, beat, stall, calls,
                   reports, world>>

(* Send: the datagram goes out or sendto fails; in both cases the command  *)
(* is then entered in commands_ with a fresh deadline.                     *)
Send ==
    /\ ProtectorAlive
    /\ NextClosure
    /\ LET c == Head(queue).cmd
           s == Head(queue).seq
       IN /\ EnterCommand(c, s)
          /\ \/ /\ requests' = requests \cup {Pkt(c, s)}
                /\ UNCHANGED reports
             \/ /\ Faulty
                /\ Report(c, "SendFailed")
                /\ UNCHANGED requests
    /\ UNCHANGED <<seq, open, silence, beat, stall, calls, replies, executed,
                   alive>>

(* OnData with one acknowledgement: the number alone decides.  Whatever    *)
(* waits under it is answered; a heartbeat answer restarts the silence     *)
(* clock only when nothing waits under its number.                         *)
OnData(p) ==
    /\ Polling
    /\ p \in replies
    /\ IF commands[p.seq] # NoCmd
       THEN /\ Report(commands[p.seq], "Success")
            /\ EraseCommand(p.seq)
            /\ UNCHANGED silence
       ELSE /\ silence' = IF p.cmd = NoCmd THEN 0 ELSE silence
            /\ UNCHANGED <<commands, age, reports>>
    /\ \/ replies' = replies \ {p}
       \/ Faulty /\ UNCHANGED replies
    /\ UNCHANGED <<seq, queue, due, open, beat, stall, calls, requests,
                   executed, alive>>

Expired == {s \in Pending : age[s] > CmdTimeout}

(* OnTimer on the IO thread: first every expired command is removed and    *)
(* reported, then the device is either given up (DeviceRemove destroys the *)
(* channel, and Uninit clears commands_) or sent a heartbeat if one is due.*)
\* Mutant: the overdue commands are erased without calling their callbacks.
ReportExpired_Silent == UNCHANGED reports

ReportExpired ==
    reports' = [c \in Cmd |-> IF \E s \in Expired : commands[s] = c
                              THEN Append(reports[c], "Timeout")
                              ELSE reports[c]]

\* Mutant: the limit is off by one.
TooSilent_OffByOne == silence >= HbLimit

\* Mutant: heartbeat_time_ is consulted instead of last_heartbeat_.
TooSilent_WrongClock == beat > HbLimit

TooSilent == silence > HbLimit

GiveUp ==
    /\ TooSilent
    /\ open' = FALSE
    /\ commands' = [s \in SeqNum |-> NoCmd]
    /\ age' = [s \in SeqNum |-> 0]
    /\ UNCHANGED <<seq, beat, requests>>

HeartBeat ==
    /\ ~TooSilent
    /\ commands' = [s \in SeqNum |-> IF s \in Expired THEN NoCmd ELSE commands[s]]
    /\ age' = [s \in SeqNum |-> IF s \in Expired THEN 0 ELSE age[s]]
    /\ IF beat > HbPeriod
       THEN /\ beat' = 0
            /\ seq' = GenerateSeq(seq)
            /\ \/ requests' = requests \cup {Pkt(NoCmd, seq')}
               \/ Faulty /\ UNCHANGED requests
       ELSE UNCHANGED <<beat, seq, requests>>
    /\ UNCHANGED open

OnTimer ==
    /\ Polling
    /\ ReportExpired
    /\ GiveUp \/ HeartBeat
    /\ stall' = 0
    /\ due' = Len(queue)
    /\ UNCHANGED <<queue, silence, calls, replies, executed, alive>>

-----------------------------------------------------------------------------
(* The device and the wire.                                                *)

(* A running device carries out what reaches it and acknowledges with the  *)
(* request's own number.                                                   *)
DeviceReply(p) ==
    /\ alive
    /\ p \in requests
    /\ executed' = executed \cup ({p.cmd} \ {NoCmd})
    /\ replies' = replies \cup {Pkt(p.cmd, p.seq)}
    /\ \/ requests' = requests \ {p}
       \/ Faulty /\ UNCHANGED requests
    /\ UNCHANGED <<host, alive>>

DeviceDies ==
    /\ Faulty
    /\ alive
    /\ alive' = FALSE
    /\ UNCHANGED <<host, requests, replies, executed>>

Older(packets) == {[p EXCEPT !.life = @ - 1] : p \in {q \in packets : q.life > 0}}

Capped(n, bound) == IF n < bound THEN n + 1 ELSE n

(* A tick of the clock: all clocks advance (capped just beyond the bound   *)
(* the code compares them with) and datagrams at the end of their life are *)
(* lost, which only a faulty wire lets happen.                             *)
Tick ==
    /\ open
    /\ stall < MaxStall
    /\ Faulty \/ \A p \in requests \cup replies : p.life > 0
    /\ stall' = stall + 1
    /\ silence' = Capped(silence, HbLimit + 1)
    /\ beat' = Capped(beat, HbPeriod + 1)
    /\ age' = [s \in SeqNum |->
                 IF commands[s] = NoCmd THEN age[s] ELSE Capped(age[s], CmdTimeout + 1)]
    /\ requests' = Older(requests)
    /\ replies' = Older(replies)
    /\ UNCHANGED <<seq, queue, due, commands, open, calls, reports, executed,
                   alive>>

Next ==
    \/ \E c \in Cmd : SendCommand(c)
    \/ DropSend
    \/ Send
    \/ \E p \in replies : OnData(p)
    \/ OnTimer
    \/ \E p \in requests : DeviceReply(p)
    \/ DeviceDies
    \/ Tick

Spec == Init /\ [][Next]_vars

(* The IO thread loops for ever (IOThread::ThreadFunc), so its tasks and   *)
(* timers run, and time passes.  Nothing is assumed of the program, the    *)
(* wire or the device.                                                     *)
Fairness ==
    /\ WF_vars(Send \/ DropSend)
    /\ WF_vars(OnTimer)
    /\ WF_vars(Tick)

FairSpec == Spec /\ Fairness

-----------------------------------------------------------------------------
(* The fate of a command, for the abstract specification.                  *)
Waits(c) ==
    /\ open
    /\ \/ \E i \in DOMAIN queue : queue[i].cmd = c
       \/ \E s \in SeqNum : commands[s] = c

Fate(c) ==
    IF calls[c] # "accepted" THEN calls[c]
    ELSE IF Waits(c) THEN (IF reports[c] = <<>> THEN "pending" ELSE "failed")
    ELSE (IF reports[c] = <<>> THEN "lost" ELSE "reported")

Promise == INSTANCE CommandPromise
               WITH phase <- [c \in Cmd |-> Fate(c)], link <- open

-----------------------------------------------------------------------------
(* What the channel owes the program and the device.                       *)

\* The callback of a command is called at most once; the one exception is a
\* command whose sendto failed: Send reports that and still enters it in
\* commands_, so it may be reported a second time when it times out.  No
\* reply that is late, duplicated or out of order adds a call.
ReportedOnce ==
    \A c \in Cmd :
        \/ Len(reports[c]) <= 1
        \/ Len(reports[c]) = 2 /\ reports[c][1] = "SendFailed"

\* A command reported successful was carried out by the device: a stale or
\* duplicated reply is never taken for the answer to a younger command, and
\* a heartbeat's answer never for a command's.  This rests on GenerateSeq
\* coming round to a number only after its last use is over.
SuccessMeansExecuted ==
    \A c \in Cmd : "Success" \in {reports[c][i] : i \in DOMAIN reports[c]}
                       => c \in executed

\* The channel implements the abstract promise to the program.  In
\* particular no command vanishes from commands_ unreported while the device
\* is connected, and none is settled twice.
KeepsPromise == Promise!PSpec

\* Once the channel is gone no callback of its commands runs any more, the
\* closures still queued in the IO loop included: what a callback captured
\* may have been released with the device.
SilentAfterClose == [][~open => UNCHANGED reports]_vars

\* A device that answers every heartbeat is never given up, provided the
\* datagrams arrive and the IO thread is not held up (see MaxStall).
AnsweredDeviceKept == ~Faulty => open

\* Every command that SendCommand accepted is reported, unless the device is
\* given up first: no reply has to arrive for that.
EveryCommandSettles ==
    \A c \in Cmd : calls[c] = "accepted" ~> (reports[c] # <<>> \/ ~open)

\* A device that has died is given up, from whatever point of the heartbeat
\* cycle, commands still waiting or not.
DeadDeviceDropped == ~alive ~> ~open
=============================================================================
