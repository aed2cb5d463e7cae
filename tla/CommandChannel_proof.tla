------------------------- MODULE CommandChannel_proof -------------------------
(***************************************************************************)
(* Theorems about CommandChannel for every set of commands, every width of *)
(* the sequence number and every choice of the clocks' bounds.             *)
(***************************************************************************)
EXTENDS CommandChannel, FiniteSetTheorems, TLAPS

-----------------------------------------------------------------------------
(* A queued command waits in one place only and has not been reported.     *)
QueuedOnce ==
    \A i \in DOMAIN queue :
        /\ calls[queue[i].cmd] = "accepted"
        /\ reports[queue[i].cmd] = <<>>
        /\ \A s \in SeqNum : commands[s] # queue[i].cmd
        /\ \A j \in DOMAIN queue : queue[j].cmd = queue[i].cmd => j = i

(* So does a command of commands_, but its sending may have failed.        *)
HeldOnce ==
    \A s \in SeqNum : commands[s] # NoCmd =>
        /\ calls[commands[s]] = "accepted"
        /\ reports[commands[s]] \in {<<>>, <<"SendFailed">>}
        /\ \A t \in SeqNum : commands[t] = commands[s] => t = s

(* The program hears nothing of a command it has not issued.               *)
UnissuedUnreported == \A c \in Cmd : calls[c] # "accepted" => reports[c] = <<>>

IInv == TypeOK /\ QueuedOnce /\ HeldOnce /\ UnissuedUnreported /\ ReportedOnce

-----------------------------------------------------------------------------
LEMMA GenerateSeqType == ASSUME NEW s \in SeqNum PROVE GenerateSeq(s) \in SeqNum
BY ChannelAssumption DEF GenerateSeq, SeqNum

LEMMA OlderType == ASSUME NEW S \in SUBSET Packet PROVE Older(S) \in SUBSET Packet
BY ChannelAssumption DEF Older, Packet

LEMMA PktType ==
    ASSUME NEW c \in Cmd \cup {NoCmd}, NEW s \in SeqNum
    PROVE  Pkt(c, s) \in Packet
BY ChannelAssumption DEF Pkt, Packet

LEMMA CappedType ==
    ASSUME NEW b \in Nat, NEW n \in 0..b
    PROVE  Capped(n, b) \in 0..b
BY DEF Capped

LEMMA AppendType ==
    ASSUME NEW S, NEW q \in Seq(S), NEW e \in S
    PROVE  Append(q, e) \in Seq(S) /\ Len(Append(q, e)) = Len(q) + 1
OBVIOUS

LEMMA TailType ==
    ASSUME NEW S, NEW q \in Seq(S), q # <<>>
    PROVE  Head(q) \in S /\ Tail(q) \in Seq(S) /\ Len(Tail(q)) = Len(q) - 1
OBVIOUS

\* What the loop's next closure leaves behind.
LEMMA NextClosureType ==
    ASSUME TypeOK, NextClosure
    PROVE  /\ Head(queue) \in Closure
           /\ queue' \in Seq(Closure)
           /\ due' \in 0..Len(queue')
<1>1. Head(queue) \in Closure /\ queue' \in Seq(Closure) /\ Len(queue') = Len(queue) - 1
  BY TailType DEF TypeOK, NextClosure
<1>2. Len(queue) \in Nat /\ Len(queue') \in Nat /\ due \in 0..Len(queue)
  BY <1>1 DEF TypeOK
<1>3. due' \in 0..Len(queue')
  BY <1>1, <1>2 DEF NextClosure
<1> QED
  BY <1>1, <1>3

LEMMA ReportType ==
    ASSUME TypeOK, NEW c \in Cmd, NEW status \in Status, Report(c, status)
    PROVE  reports' \in [Cmd -> Seq(Status)]
<1>1. Append(reports[c], status) \in Seq(Status)
  BY AppendType DEF TypeOK
<1> QED
  BY <1>1 DEF Report, TypeOK

\* Every variable keeps to its type.
THEOREM TypeCorrect == Spec => []TypeOK
<1> USE ChannelAssumption
<1>1. Init => TypeOK
  BY DEF Init, TypeOK, SeqNum, CallState
<1>2. TypeOK /\ [Next]_vars => TypeOK'
  <2> SUFFICES ASSUME TypeOK, [Next]_vars PROVE TypeOK'
    OBVIOUS
  <2>1. ASSUME NEW c \in Cmd, SendCommand(c) PROVE TypeOK'
    <3>1. seq' \in SeqNum
      BY <2>1, GenerateSeqType DEF SendCommand, TypeOK
    <3>2. calls' \in [Cmd -> CallState]
      BY <2>1 DEF SendCommand, TypeOK, CallState
    <3>3. queue' \in Seq(Closure) /\ Len(queue') \in {Len(queue), Len(queue) + 1}
      <4>1. [cmd |-> c, seq |-> seq'] \in Closure
        BY <3>1 DEF Closure
      <4>2. queue \in Seq(Closure)
        BY DEF TypeOK
      <4>3. CASE open
        BY <2>1, <4>1, <4>2, <4>3, AppendType DEF SendCommand
      <4>4. CASE ~open
        BY <2>1, <4>2, <4>4 DEF SendCommand
      <4> QED
        BY <4>3, <4>4
    <3>4. due' \in 0..Len(queue')
      <4>1. Len(queue) \in Nat /\ due \in 0..Len(queue) /\ due' = due
        BY <2>1 DEF SendCommand, TypeOK
      <4> QED
        BY <4>1, <3>3
    <3> QED
      BY <2>1, <3>1, <3>2, <3>3, <3>4 DEF SendCommand, TypeOK, world
  <2>2. CASE DropSend
    BY <2>2, NextClosureType DEF DropSend, TypeOK, world
  <2>3. CASE Send
    <3>1. /\ queue' \in Seq(Closure) /\ due' \in 0..Len(queue')
          /\ Head(queue).cmd \in Cmd /\ Head(queue).seq \in SeqNum
      BY <2>3, NextClosureType DEF Send, EnterCommand, Closure
    <3>2. Pkt(Head(queue).cmd, Head(queue).seq) \in Packet
      BY <3>1, PktType
    <3>3. commands' \in [SeqNum -> Cmd \cup {NoCmd}]
      BY <2>3, <3>1 DEF Send, EnterCommand, TypeOK
    <3>4. age' \in [SeqNum -> 0..CmdTimeout + 1]
      BY <2>3, <3>1 DEF Send, EnterCommand, TypeOK
    <3>5. reports' \in [Cmd -> Seq(Status)]
      BY <2>3, <3>1, ReportType DEF Send, EnterCommand, TypeOK, Status
    <3>6. requests' \in SUBSET Packet
      BY <2>3, <3>2 DEF Send, EnterCommand, TypeOK
    <3> QED
      BY <2>3, <3>1, <3>3, <3>4, <3>5, <3>6 DEF Send, EnterCommand, TypeOK
  <2>4. ASSUME NEW p \in replies, OnData(p) PROVE TypeOK'
    <3>1. p.seq \in SeqNum
      BY DEF TypeOK, Packet
    <3>2. reports' \in [Cmd -> Seq(Status)]
      <4>1. CASE commands[p.seq] # NoCmd
        <5>1. commands[p.seq] \in Cmd
          BY <3>1, <4>1 DEF TypeOK
        <5> QED
          BY <2>4, <4>1, <5>1, ReportType DEF OnData, EraseCommand, Status
      <4>2. CASE commands[p.seq] = NoCmd
        BY <2>4, <4>2 DEF OnData, EraseCommand, TypeOK
      <4> QED
        BY <4>1, <4>2
    <3>3. commands' \in [SeqNum -> Cmd \cup {NoCmd}]
      BY <2>4, <3>1 DEF OnData, EraseCommand, TypeOK
    <3>4. age' \in [SeqNum -> 0..CmdTimeout + 1]
      <4>1. 0 \in 0..CmdTimeout + 1 /\ age \in [SeqNum -> 0..CmdTimeout + 1]
        BY DEF TypeOK
      <4> QED
        BY <2>4, <4>1 DEF OnData, EraseCommand
    <3>5. silence' \in 0..HbLimit + 1 /\ replies' \in SUBSET Packet
      BY <2>4 DEF OnData, EraseCommand, TypeOK
    <3> QED
      BY <2>4, <3>2, <3>3, <3>4, <3>5 DEF OnData, EraseCommand, TypeOK
  <2>5. CASE OnTimer
    <3>1. reports' \in [Cmd -> Seq(Status)]
      <4>1. \A c \in Cmd : Append(reports[c], "Timeout") \in Seq(Status)
        BY AppendType DEF TypeOK, Status
      <4> QED
        BY <2>5, <4>1 DEF OnTimer, ReportExpired, TypeOK
    <3>2. /\ commands' \in [SeqNum -> Cmd \cup {NoCmd}]
          /\ open' \in BOOLEAN
      BY <2>5 DEF OnTimer, GiveUp, HeartBeat, TypeOK
    <3>6. age' \in [SeqNum -> 0..CmdTimeout + 1]
      <4>1. 0 \in 0..CmdTimeout + 1 /\ age \in [SeqNum -> 0..CmdTimeout + 1]
        BY DEF TypeOK
      <4> QED
        BY <2>5, <4>1 DEF OnTimer, GiveUp, HeartBeat
    <3>7. beat' \in 0..HbPeriod + 1
      BY <2>5 DEF OnTimer, GiveUp, HeartBeat, TypeOK
    <3>8. stall' \in 0..MaxStall
      BY <2>5 DEF OnTimer
    <3>3. seq' \in SeqNum
      BY <2>5, GenerateSeqType DEF OnTimer, GiveUp, HeartBeat, TypeOK
    <3>4. requests' \in SUBSET Packet
      BY <2>5, <3>3, PktType DEF OnTimer, GiveUp, HeartBeat, TypeOK
    <3>5. due' \in 0..Len(queue')
      BY <2>5 DEF OnTimer, TypeOK
    <3> QED
      BY <2>5, <3>1, <3>2, <3>3, <3>4, <3>5, <3>6, <3>7, <3>8 DEF OnTimer, TypeOK
  <2>6. ASSUME NEW p \in requests, DeviceReply(p) PROVE TypeOK'
    <3>1. p.seq \in SeqNum /\ p.cmd \in Cmd \cup {NoCmd}
      BY DEF TypeOK, Packet
    <3>2. Pkt(p.cmd, p.seq) \in Packet
      BY <3>1, PktType
    <3> QED
      BY <2>6, <3>1, <3>2 DEF DeviceReply, TypeOK, host
  <2>7. CASE DeviceDies
    BY <2>7 DEF DeviceDies, TypeOK, host
  <2>8. CASE Tick
    <3>1. requests' \in SUBSET Packet /\ replies' \in SUBSET Packet
      BY <2>8, OlderType DEF Tick, TypeOK
    <3>2. silence' \in 0..HbLimit + 1 /\ beat' \in 0..HbPeriod + 1
      <4>1. HbLimit + 1 \in Nat /\ HbPeriod + 1 \in Nat
        OBVIOUS
      <4> QED
        BY <2>8, <4>1, CappedType DEF Tick, TypeOK
    <3>3. age' \in [SeqNum -> 0..CmdTimeout + 1]
      <4>1. CmdTimeout + 1 \in Nat
        OBVIOUS
      <4>2. \A s \in SeqNum : age[s] \in 0..CmdTimeout + 1
        BY DEF TypeOK
      <4>3. \A s \in SeqNum : Capped(age[s], CmdTimeout + 1) \in 0..CmdTimeout + 1
        BY <4>1, <4>2, CappedType
      <4> QED
        BY <2>8, <4>2, <4>3 DEF Tick
    <3>4. stall' \in 0..MaxStall
      BY <2>8 DEF Tick, TypeOK
    <3> QED
      BY <2>8, <3>1, <3>2, <3>3, <3>4 DEF Tick, TypeOK
  <2>9. CASE UNCHANGED vars
    BY <2>9 DEF TypeOK, vars, host, world
  <2> QED
    BY <2>1, <2>2, <2>3, <2>4, <2>5, <2>6, <2>7, <2>8, <2>9 DEF Next
<1> QED
  BY <1>1, <1>2, PTL DEF Spec

-----------------------------------------------------------------------------
(* The statement that carries ReportedOnce: where a command waits decides  *)
(* what has been reported of it, and it waits in one place.                *)

LEMMA TailElements ==
    ASSUME NEW S, NEW q \in Seq(S), q # <<>>
    PROVE  /\ 1 \in DOMAIN q /\ Head(q) = q[1]
           /\ \A i \in DOMAIN Tail(q) :
                 i + 1 \in DOMAIN q /\ i + 1 # 1 /\ Tail(q)[i] = q[i + 1]
OBVIOUS

LEMMA AppendElements ==
    ASSUME NEW S, NEW q \in Seq(S), NEW e \in S,
           NEW i \in DOMAIN Append(q, e)
    PROVE  \/ i \in DOMAIN q /\ Append(q, e)[i] = q[i]
           \/ i = Len(q) + 1 /\ Append(q, e)[i] = e
OBVIOUS

LEMMA AppendToOne ==
    ASSUME NEW S, NEW q \in Seq(S), NEW e \in S, Len(q) = 1
    PROVE  Len(Append(q, e)) = 2 /\ Append(q, e)[1] = q[1]
<1>1. Len(Append(q, e)) = Len(q) + 1
  BY AppendType
<1>2. \A i \in 1..Len(q) : Append(q, e)[i] = q[i]
  OBVIOUS
<1>3. 1 \in 1..Len(q)
  OBVIOUS
<1>4. Append(q, e)[1] = q[1]
  BY <1>2, <1>3
<1> QED
  BY <1>1, <1>4

LEMMA QueueElements ==
    ASSUME TypeOK
    PROVE  \A i \in DOMAIN queue : queue[i].cmd \in Cmd /\ queue[i].seq \in SeqNum
<1>1. \A i \in DOMAIN queue : queue[i] \in Closure
  BY DEF TypeOK
<1> QED
  BY <1>1 DEF Closure

\* A report to a command that waits keeps ReportedOnce.
LEMMA ReportOfWaiting ==
    ASSUME NEW r \in {<<>>, <<"SendFailed">>}, NEW status \in Status
    PROVE  \/ Len(Append(r, status)) <= 1
           \/ Len(Append(r, status)) = 2 /\ Append(r, status)[1] = "SendFailed"
<1>1. CASE r = <<>>
  <2>1. Len(<<>>) = 0 /\ <<>> \in Seq(Status)
    OBVIOUS
  <2>2. Len(Append(r, status)) = 1
    BY <1>1, <2>1, AppendType
  <2> QED
    BY <2>2
<1>2. CASE r = <<"SendFailed">>
  <2>1. "SendFailed" \in Status
    BY DEF Status
  <2>2. r \in Seq(Status) /\ Len(r) = 1 /\ r[1] = "SendFailed"
    BY <1>2, <2>1
  <2>3. Len(Append(r, status)) = 2 /\ Append(r, status)[1] = r[1]
    BY <2>2, AppendToOne
  <2> QED
    BY <2>2, <2>3
<1> QED
  BY <1>1, <1>2

\* What the queue's other closures keep when the first one is taken.
LEMMA NextClosureQueued ==
    ASSUME IInv, NextClosure, calls' = calls,
           \A c \in Cmd : c # Head(queue).cmd => reports'[c] = reports[c],
           \A s \in SeqNum : commands'[s] \in {commands[s], Head(queue).cmd}
    PROVE  QueuedOnce'
<1>1. /\ 1 \in DOMAIN queue /\ Head(queue) = queue[1]
      /\ \A i \in DOMAIN queue' :
            i + 1 \in DOMAIN queue /\ i + 1 # 1 /\ queue'[i] = queue[i + 1]
  BY TailElements DEF IInv, TypeOK, NextClosure
<1>2. SUFFICES ASSUME NEW i \in DOMAIN queue'
               PROVE  /\ calls[queue'[i].cmd] = "accepted"
                      /\ reports'[queue'[i].cmd] = <<>>
                      /\ \A s \in SeqNum : commands'[s] # queue'[i].cmd
                      /\ \A j \in DOMAIN queue' :
                            queue'[j].cmd = queue'[i].cmd => j = i
  BY DEF QueuedOnce
<1>3. /\ i + 1 \in DOMAIN queue /\ i + 1 # 1 /\ queue'[i] = queue[i + 1]
      /\ queue[i + 1].cmd # queue[1].cmd
  BY <1>1 DEF IInv, QueuedOnce
<1>4. queue[i + 1].cmd \in Cmd
  BY <1>3, QueueElements DEF IInv
<1>5. calls[queue'[i].cmd] = "accepted" /\ reports'[queue'[i].cmd] = <<>>
  BY <1>1, <1>3, <1>4 DEF IInv, QueuedOnce
<1>6. \A s \in SeqNum : commands'[s] # queue'[i].cmd
  BY <1>1, <1>3 DEF IInv, QueuedOnce
<1>7. ASSUME NEW j \in DOMAIN queue', queue'[j].cmd = queue'[i].cmd PROVE j = i
  <2>1. j + 1 \in DOMAIN queue /\ queue'[j] = queue[j + 1]
    BY <1>1
  <2>2. j + 1 = i + 1
    BY <1>3, <1>7, <2>1 DEF IInv, QueuedOnce
  <2>3. i \in Nat /\ j \in Nat
    BY <1>7, NextClosureType DEF IInv
  <2> QED
    BY <2>2, <2>3
<1> QED
  BY <1>5, <1>6, <1>7

\* Every command stays in one place, whatever the wire does and however the
\* sequence numbers wrap.
LEMMA IInvAlways == Spec => []IInv
<1> USE ChannelAssumption
<1>1. Init => IInv
  <2>1. Init => TypeOK
    BY DEF Init, TypeOK, SeqNum, CallState
  <2>2. Init => QueuedOnce /\ HeldOnce /\ UnissuedUnreported /\ ReportedOnce
    BY DEF Init, QueuedOnce, HeldOnce, UnissuedUnreported, ReportedOnce
  <2> QED
    BY <2>1, <2>2 DEF IInv
<1>2. IInv /\ TypeOK' /\ [Next]_vars => IInv'
  <2> SUFFICES ASSUME IInv, TypeOK', [Next]_vars
               PROVE  /\ QueuedOnce' /\ HeldOnce'
                      /\ UnissuedUnreported' /\ ReportedOnce'
    BY DEF IInv
  <2>1. ASSUME NEW c \in Cmd, SendCommand(c)
        PROVE  /\ QueuedOnce' /\ HeldOnce'
               /\ UnissuedUnreported' /\ ReportedOnce'
    <3>1. /\ calls[c] = "idle" /\ reports' = reports /\ commands' = commands
          /\ \A d \in Cmd \ {c} : calls'[d] = calls[d]
          /\ calls'[c] \in {"accepted", "refused"}
      BY <2>1 DEF SendCommand, IInv, TypeOK
    <3>2. /\ \A i \in DOMAIN queue : queue[i].cmd \in Cmd \ {c}
          /\ \A s \in SeqNum : commands[s] # c
          /\ \A s \in SeqNum : commands[s] # NoCmd => commands[s] \in Cmd \ {c}
      <4>1. \A i \in DOMAIN queue : queue[i].cmd \in Cmd \ {c}
        BY <3>1, QueueElements DEF IInv, QueuedOnce
      <4>2. \A s \in SeqNum : commands[s] # c
        BY <3>1 DEF IInv, HeldOnce
      <4>3. \A s \in SeqNum : commands[s] \in Cmd \cup {NoCmd}
        BY DEF IInv, TypeOK
      <4> QED
        BY <4>1, <4>2, <4>3
    <3>3. QueuedOnce'
      <4>1. CASE open
        <5>1. /\ [cmd |-> c, seq |-> seq'] \in Closure
              /\ queue' = Append(queue, [cmd |-> c, seq |-> seq'])
              /\ calls'[c] = "accepted"
          BY <2>1, <4>1 DEF SendCommand, Closure, IInv, TypeOK
        <5>2. \A i \in DOMAIN queue' : \/ i \in DOMAIN queue /\ queue'[i] = queue[i]
                                       \/ i = Len(queue) + 1 /\ queue'[i].cmd = c
          BY <5>1, AppendElements, SMTT(30) DEF IInv, TypeOK
        <5>3. SUFFICES ASSUME NEW i \in DOMAIN queue'
                       PROVE  /\ calls'[queue'[i].cmd] = "accepted"
                              /\ reports[queue'[i].cmd] = <<>>
                              /\ \A s \in SeqNum : commands[s] # queue'[i].cmd
                              /\ \A j \in DOMAIN queue' :
                                    queue'[j].cmd = queue'[i].cmd => j = i
          BY <3>1 DEF QueuedOnce
        <5>4. CASE i \in DOMAIN queue /\ queue'[i] = queue[i]
          BY <3>1, <3>2, <5>2, <5>4 DEF IInv, QueuedOnce
        <5>5. CASE i = Len(queue) + 1 /\ queue'[i].cmd = c
          BY <3>1, <3>2, <5>1, <5>2, <5>5 DEF IInv, UnissuedUnreported
        <5> QED
          BY <5>2, <5>4, <5>5
      <4>2. CASE ~open
        <5>1. queue' = queue
          BY <2>1, <4>2 DEF SendCommand
        <5> QED
          BY <3>1, <3>2, <5>1 DEF IInv, QueuedOnce
      <4> QED
        BY <4>1, <4>2
    <3>4. HeldOnce'
      BY <3>1, <3>2 DEF IInv, HeldOnce
    <3>5. UnissuedUnreported' /\ ReportedOnce'
      BY <3>1 DEF IInv, UnissuedUnreported, ReportedOnce
    <3> QED
      BY <3>3, <3>4, <3>5
  <2>2. CASE DropSend
    <3>1. calls' = calls /\ reports' = reports /\ commands' = commands /\ NextClosure
      BY <2>2 DEF DropSend, world
    <3>2. QueuedOnce'
      BY <3>1, NextClosureQueued
    <3>3. HeldOnce' /\ UnissuedUnreported' /\ ReportedOnce'
      BY <3>1 DEF IInv, HeldOnce, UnissuedUnreported, ReportedOnce
    <3> QED
      BY <3>2, <3>3
  <2>3. CASE Send
    <3> DEFINE c == Head(queue).cmd
               n == Head(queue).seq
    <3>1. /\ c \in Cmd /\ n \in SeqNum /\ NextClosure /\ calls' = calls
          /\ commands' = [commands EXCEPT ![n] = c]
      BY <2>3, NextClosureType DEF Send, EnterCommand, IInv, Closure
    <3>2. \/ reports' = reports
          \/ reports' = [reports EXCEPT ![c] = Append(@, "SendFailed")]
      BY <2>3 DEF Send, EnterCommand, Report
    <3>3. calls[c] = "accepted" /\ reports[c] = <<>> /\ \A s \in SeqNum : commands[s] # c
      <4>1. 1 \in DOMAIN queue /\ Head(queue) = queue[1]
        BY <3>1, TailElements DEF NextClosure, IInv, TypeOK
      <4> QED
        BY <4>1 DEF IInv, QueuedOnce
    <3> HIDE DEF c, n
    <3>4. reports'[c] \in {<<>>, <<"SendFailed">>}
      BY <3>1, <3>2, <3>3, SMTT(30) DEF IInv, TypeOK
    <3>5. \A d \in Cmd : d # c => reports'[d] = reports[d]
      BY <3>2 DEF IInv, TypeOK
    <3>6. \A s \in SeqNum : commands'[s] = IF s = n THEN c ELSE commands[s]
      BY <3>1 DEF IInv, TypeOK
    <3>7. QueuedOnce'
      BY <3>1, <3>5, <3>6, NextClosureQueued DEF c
    <3>8. HeldOnce'
      <4>1. SUFFICES ASSUME NEW s \in SeqNum, commands'[s] # NoCmd
                     PROVE  /\ calls[commands'[s]] = "accepted"
                            /\ reports'[commands'[s]] \in {<<>>, <<"SendFailed">>}
                            /\ \A t \in SeqNum : commands'[t] = commands'[s] => t = s
        BY <3>1 DEF HeldOnce
      <4>2. CASE s = n
        BY <3>1, <3>3, <3>4, <3>6, <4>2
      <4>3. CASE s # n
        <5>1. commands'[s] = commands[s] /\ commands[s] \in Cmd /\ commands[s] # c
          BY <3>3, <3>6, <4>1, <4>3 DEF IInv, TypeOK
        <5> QED
          BY <3>5, <3>6, <4>1, <5>1 DEF IInv, HeldOnce
      <4> QED
        BY <4>2, <4>3
    <3>9. UnissuedUnreported' /\ ReportedOnce'
      <4>1. Len(reports'[c]) <= 1
        <5>1. Len(<<>>) <= 1 /\ Len(<<"SendFailed">>) <= 1
          OBVIOUS
        <5> QED
          BY <3>4, <5>1
      <4> QED
        BY <3>1, <3>3, <3>5, <4>1 DEF IInv, UnissuedUnreported, ReportedOnce
    <3> QED
      BY <3>7, <3>8, <3>9
  <2>4. ASSUME NEW p \in replies, OnData(p)
        PROVE  /\ QueuedOnce' /\ HeldOnce'
               /\ UnissuedUnreported' /\ ReportedOnce'
    <3>1. p.seq \in SeqNum /\ queue' = queue /\ calls' = calls
      BY <2>4 DEF OnData, EraseCommand, IInv, TypeOK, Packet
    <3>2. CASE commands[p.seq] = NoCmd
      <4>1. commands' = commands /\ reports' = reports
        BY <2>4, <3>2 DEF OnData, EraseCommand
      <4> QED
        BY <3>1, <4>1 DEF IInv, QueuedOnce, HeldOnce, UnissuedUnreported, ReportedOnce
    <3>3. CASE commands[p.seq] # NoCmd
      <4> DEFINE c == commands[p.seq]
      <4>1. /\ c \in Cmd /\ calls[c] = "accepted"
            /\ reports[c] \in {<<>>, <<"SendFailed">>}
            /\ \A s \in SeqNum : commands[s] = c => s = p.seq
        BY <3>1, <3>3 DEF IInv, TypeOK, HeldOnce
      <4>2. /\ reports' = [reports EXCEPT ![c] = Append(@, "Success")]
            /\ commands' = [commands EXCEPT ![p.seq] = NoCmd]
        BY <2>4, <3>3 DEF OnData, EraseCommand, Report
      <4>3. \A i \in DOMAIN queue : queue[i].cmd # c /\ queue[i].cmd \in Cmd
        BY <3>1, QueueElements DEF IInv, QueuedOnce
      <4> HIDE DEF c
      <4>4. /\ \A d \in Cmd : d # c => reports'[d] = reports[d]
            /\ reports'[c] = Append(reports[c], "Success")
            /\ \A s \in SeqNum : commands'[s] \in {commands[s], NoCmd}
            /\ commands'[p.seq] = NoCmd
        BY <3>1, <4>1, <4>2 DEF IInv, TypeOK
      <4>5. QueuedOnce'
        BY <3>1, <4>3, <4>4, ChannelAssumption DEF IInv, QueuedOnce
      <4>6. HeldOnce'
        <5>1. SUFFICES ASSUME NEW s \in SeqNum, commands'[s] # NoCmd
                       PROVE  /\ calls[commands'[s]] = "accepted"
                              /\ reports'[commands'[s]] \in {<<>>, <<"SendFailed">>}
                              /\ \A t \in SeqNum : commands'[t] = commands'[s] => t = s
          BY <3>1 DEF HeldOnce
        <5>2. commands'[s] = commands[s] /\ commands[s] \in Cmd /\ commands[s] # c
          BY <4>1, <4>4, <5>1, ZenonT(30) DEF IInv, TypeOK
        <5> QED
          BY <4>4, <5>1, <5>2 DEF IInv, HeldOnce
      <4>7. ReportedOnce'
        <5>1. "Success" \in Status
          BY DEF Status
        <5>2. \/ Len(reports'[c]) <= 1
              \/ Len(reports'[c]) = 2 /\ reports'[c][1] = "SendFailed"
          BY <4>1, <4>4, <5>1, ReportOfWaiting, ZenonT(30)
        <5> QED
          BY <4>4, <5>2 DEF IInv, ReportedOnce
      <4>8. UnissuedUnreported'
        BY <3>1, <4>1, <4>4 DEF IInv, UnissuedUnreported
      <4> QED
        BY <4>5, <4>6, <4>7, <4>8
    <3> QED
      BY <3>2, <3>3
  <2>5. CASE OnTimer
    <3>1. /\ queue' = queue /\ calls' = calls
          /\ \A s \in SeqNum : commands'[s] \in {commands[s], NoCmd}
          /\ \A s \in Expired : commands'[s] = NoCmd
      BY <2>5 DEF OnTimer, GiveUp, HeartBeat, Expired, Pending
    <3>2. \A c \in Cmd :
            \/ /\ \E s \in Expired : commands[s] = c
               /\ reports'[c] = Append(reports[c], "Timeout")
            \/ /\ ~ \E s \in Expired : commands[s] = c
               /\ reports'[c] = reports[c]
      BY <2>5 DEF OnTimer, ReportExpired
    <3>3. \A s \in Expired : s \in SeqNum /\ commands[s] # NoCmd
      BY DEF Expired, Pending
    <3>4. QueuedOnce'
      <4>1. \A i \in DOMAIN queue : queue[i].cmd \in Cmd
        BY QueueElements DEF IInv
      <4> QED
        BY <3>1, <3>2, <3>3, <4>1, ChannelAssumption DEF IInv, QueuedOnce
    <3>5. HeldOnce'
      <4>1. SUFFICES ASSUME NEW s \in SeqNum, commands'[s] # NoCmd
                     PROVE  /\ calls[commands'[s]] = "accepted"
                            /\ reports'[commands'[s]] \in {<<>>, <<"SendFailed">>}
                            /\ \A t \in SeqNum : commands'[t] = commands'[s] => t = s
        BY <3>1 DEF HeldOnce
      <4>2. commands'[s] = commands[s] /\ commands[s] \in Cmd /\ s \notin Expired
        BY <3>1, <4>1 DEF IInv, TypeOK
      <4>3. reports'[commands[s]] = reports[commands[s]]
        BY <3>2, <3>3, <4>1, <4>2 DEF IInv, HeldOnce
      <4> QED
        BY <3>1, <4>1, <4>2, <4>3 DEF IInv, HeldOnce
    <3>6. UnissuedUnreported'
      BY <3>1, <3>2, <3>3 DEF IInv, UnissuedUnreported, HeldOnce
    <3>7. ReportedOnce'
      <4>1. SUFFICES ASSUME NEW c \in Cmd
                     PROVE  \/ Len(reports'[c]) <= 1
                            \/ Len(reports'[c]) = 2 /\ reports'[c][1] = "SendFailed"
        BY DEF ReportedOnce
      <4>2. CASE reports'[c] = reports[c]
        BY <4>2 DEF IInv, ReportedOnce
      <4>3. CASE /\ \E s \in Expired : commands[s] = c
                 /\ reports'[c] = Append(reports[c], "Timeout")
        <5>1. reports[c] \in {<<>>, <<"SendFailed">>}
          BY <3>3, <4>3 DEF IInv, HeldOnce
        <5>2. "Timeout" \in Status
          BY DEF Status
        <5> QED
          BY <4>3, <5>1, <5>2, ReportOfWaiting
      <4> QED
        BY <3>2, <4>2, <4>3
    <3> QED
      BY <3>4, <3>5, <3>6, <3>7
  <2>6. CASE \/ \E p \in requests : DeviceReply(p)
             \/ DeviceDies \/ Tick \/ UNCHANGED vars
    <3>1. queue' = queue /\ calls' = calls /\ commands' = commands /\ reports' = reports
      BY <2>6 DEF DeviceReply, DeviceDies, Tick, vars, host
    <3> QED
      BY <3>1 DEF IInv, QueuedOnce, HeldOnce, UnissuedUnreported, ReportedOnce
  <2> QED
    BY <2>1, <2>2, <2>3, <2>4, <2>5, <2>6 DEF Next
<1> QED
  BY <1>1, <1>2, TypeCorrect, PTL DEF Spec

\* No callback is called more often than ReportedOnce allows.
THEOREM ReportedOnceAlways == Spec => []ReportedOnce
<1>1. IInv => ReportedOnce
  BY DEF IInv
<1> QED
  BY <1>1, IInvAlways, PTL

\* After the channel is destroyed its commands' callbacks stay silent.
THEOREM SilentAfterCloseAlways == Spec => SilentAfterClose
<1>1. [Next]_vars => [~open => UNCHANGED reports]_vars
  <2> SUFFICES ASSUME Next, ~open PROVE UNCHANGED reports
    OBVIOUS
  <2>1. ASSUME NEW c \in Cmd, SendCommand(c) PROVE UNCHANGED reports
    BY <2>1 DEF SendCommand
  <2>2. CASE DropSend
    BY <2>2 DEF DropSend
  <2>3. ASSUME Send \/ OnTimer \/ \E p \in replies : OnData(p) PROVE FALSE
    BY <2>3 DEF Send, ProtectorAlive, OnTimer, OnData, Polling
  <2>4. CASE (\E p \in requests : DeviceReply(p)) \/ DeviceDies \/ Tick
    BY <2>4 DEF DeviceReply, DeviceDies, Tick, host
  <2> QED
    BY <2>1, <2>2, <2>3, <2>4 DEF Next
<1> QED
  BY <1>1, PTL DEF Spec, SilentAfterClose

-----------------------------------------------------------------------------
(* The channel implements CommandPromise.  commands_ is a map: entering a  *)
(* command under a number at which another one waits would drop that one   *)
(* without a report, so the theorem is about a counter that comes round to *)
(* a number only after its last use.  TLC finds KeepsPromise true on its    *)
(* instance without the premise, since there the clocks see to it; in the  *)
(* code there are 65535 numbers to go through within one timeout.          *)
NumberFree == open /\ queue # <<>> => commands[Head(queue).seq] = NoCmd

fates == [c \in Cmd |-> Fate(c)]

(* What is known of a command by its place. *)
LEMMA QueuedFate ==
    ASSUME IInv, open, NEW i \in DOMAIN queue
    PROVE  Fate(queue[i].cmd) = "pending"
BY DEF IInv, QueuedOnce, Fate, Waits

LEMMA HeldFate ==
    ASSUME IInv, open, NEW s \in SeqNum, commands[s] # NoCmd
    PROVE  /\ commands[s] \in Cmd
           /\ Fate(commands[s]) = IF reports[commands[s]] = <<>> THEN "pending" ELSE "failed"
<1>1. commands[s] \in Cmd
  BY DEF IInv, TypeOK
<1>2. calls[commands[s]] = "accepted" /\ Waits(commands[s])
  BY DEF IInv, HeldOnce, Waits
<1> QED
  BY <1>1, <1>2 DEF Fate

(* The fate of a command that a step does not touch. *)
LEMMA SameFate ==
    ASSUME NEW c \in Cmd, calls'[c] = calls[c], reports'[c] = reports[c], Waits(c)' <=> Waits(c)
    PROVE  Fate(c)' = Fate(c)
BY DEF Fate

LEMMA SamePhase ==
    ASSUME \A c \in Cmd : Fate(c)' = Fate(c)
    PROVE  fates' = fates
BY DEF fates

LEMMA ChannelInit == Init => Promise!PInit
<1> SUFFICES ASSUME Init PROVE Promise!PInit
  OBVIOUS
<1>1. \A c \in Cmd : Fate(c) = "idle"
  BY DEF Init, Fate
<1>2. open = TRUE
  BY DEF Init
<1> QED
  BY <1>1, <1>2 DEF Promise!PInit

LEMMA SendCommandPromise ==
    ASSUME IInv, NEW c \in Cmd, SendCommand(c)
    PROVE  Promise!Issue(c)
<1>1. /\ calls[c] = "idle" /\ reports' = reports /\ commands' = commands /\ open' = open
      /\ \A d \in Cmd \ {c} : calls'[d] = calls[d]
      /\ calls'[c] = IF open THEN "accepted" ELSE "refused"
  BY DEF SendCommand, IInv, TypeOK
<1>2. Fate(c) = "idle"
  BY <1>1 DEF Fate
<1>3. reports[c] = <<>>
  BY <1>1 DEF IInv, UnissuedUnreported
<1>4. CASE open
  <2>1. queue' = Append(queue, [cmd |-> c, seq |-> seq']) /\ queue \in Seq(Closure)
    BY <1>4 DEF SendCommand, IInv, TypeOK
  <2>2. [cmd |-> c, seq |-> seq'] \in Closure
    BY GenerateSeqType DEF Closure, SendCommand, IInv, TypeOK
  <2>3. /\ Len(queue) + 1 \in DOMAIN queue' /\ queue'[Len(queue) + 1].cmd = c
        /\ \A i \in DOMAIN queue : i \in DOMAIN queue' /\ queue'[i] = queue[i]
    BY <2>1, <2>2
  <2>4. \A i \in DOMAIN queue' : \/ i \in DOMAIN queue /\ queue'[i] = queue[i]
                                 \/ queue'[i].cmd = c
    BY <2>1, <2>2, AppendElements
  <2>5. Fate(c)' = "pending"
    BY <1>1, <1>3, <1>4, <2>3 DEF Fate, Waits
  <2>6. ASSUME NEW d \in Cmd \ {c} PROVE Fate(d)' = Fate(d)
    <3>1. Waits(d)' <=> Waits(d)
      BY <1>1, <2>3, <2>4 DEF Waits
    <3> QED
      BY <1>1, <3>1, SameFate
  <2> QED
    BY <1>1, <1>2, <1>4, <2>5, <2>6 DEF Promise!Issue
<1>5. CASE ~open
  <2>1. Fate(c)' = "refused"
    BY <1>1, <1>5 DEF Fate
  <2>2. ASSUME NEW d \in Cmd \ {c} PROVE Fate(d)' = Fate(d)
    <3>1. ~Waits(d) /\ ~Waits(d)'
      BY <1>1, <1>5 DEF Waits
    <3> QED
      BY <1>1, <3>1, SameFate
  <2> QED
    BY <1>1, <1>2, <1>5, <2>1, <2>2 DEF Promise!Issue
<1> QED
  BY <1>4, <1>5
LEMMA DropSendPromise ==
    ASSUME IInv, DropSend
    PROVE  UNCHANGED <<fates, open>>
<1>1. ~open /\ open' = open /\ calls' = calls /\ reports' = reports
  BY DEF DropSend, ProtectorAlive
<1>2. \A c \in Cmd : Fate(c)' = Fate(c)
  BY <1>1 DEF Fate, Waits
<1> QED
  BY <1>1, <1>2, SamePhase

LEMMA SendPromise ==
    ASSUME IInv, NumberFree, Send
    PROVE  \/ UNCHANGED <<fates, open>>
           \/ \E c \in Cmd : Promise!NotSent(c)
<1> PICK c \in Cmd, n \in SeqNum : c = Head(queue).cmd /\ n = Head(queue).seq
  BY NextClosureType DEF Send, IInv, Closure
<1>1. /\ open /\ open' = open /\ calls' = calls
      /\ commands' = [commands EXCEPT ![n] = c]
  BY DEF Send, EnterCommand, ProtectorAlive
<1>2. /\ queue # <<>> /\ queue' = Tail(queue) /\ queue \in Seq(Closure)
  BY DEF Send, NextClosure, IInv, TypeOK
<1>3. /\ 1 \in DOMAIN queue /\ c = queue[1].cmd
      /\ \A i \in DOMAIN queue' : i + 1 \in DOMAIN queue /\ queue'[i] = queue[i + 1]
  BY <1>2, TailElements
<1>4. \A i \in DOMAIN queue : i # 1 => i - 1 \in DOMAIN queue' /\ queue'[i - 1] = queue[i]
  BY <1>2
<1>5. commands[n] = NoCmd
  BY <1>1, <1>2 DEF NumberFree
<1>6. \/ reports' = reports
      \/ reports' = [reports EXCEPT ![c] = Append(@, "SendFailed")]
  BY DEF Send, EnterCommand, Report
<1>7. calls[c] = "accepted" /\ reports[c] = <<>> /\ Fate(c) = "pending"
  BY <1>1, <1>3, QueuedFate DEF IInv, QueuedOnce
<1>8. \A s \in SeqNum : commands'[s] = IF s = n THEN c ELSE commands[s]
  BY <1>1 DEF IInv, TypeOK
<1>9. ASSUME NEW d \in Cmd \ {c} PROVE Fate(d)' = Fate(d)
  <2>1. (\E i \in DOMAIN queue : queue[i].cmd = d) <=> (\E i \in DOMAIN queue' : queue'[i].cmd = d)
    BY <1>3, <1>4
  <2>2. (\E s \in SeqNum : commands[s] = d) <=> (\E s \in SeqNum : commands'[s] = d)
    BY <1>1, <1>5, <1>8, ChannelAssumption
  <2>3. Waits(d)' <=> Waits(d)
    BY <1>1, <2>1, <2>2 DEF Waits
  <2>4. reports'[d] = reports[d]
    BY <1>6 DEF IInv, TypeOK
  <2> QED
    BY <1>1, <2>3, <2>4, SameFate
<1>10. Waits(c)' /\ calls'[c] = "accepted"
  BY <1>1, <1>7, <1>8 DEF Waits
<1>11. CASE reports' = reports
  <2>1. Fate(c)' = "pending"
    BY <1>7, <1>10, <1>11 DEF Fate
  <2>2. \A d \in Cmd : Fate(d)' = Fate(d)
    BY <1>7, <1>9, <2>1
  <2> QED
    BY <1>1, <2>2, SamePhase
<1>12. CASE reports' = [reports EXCEPT ![c] = Append(@, "SendFailed")]
  <2>1. reports'[c] # <<>>
    <3>1. reports[c] \in Seq(Status) /\ "SendFailed" \in Status
      BY <1>1 DEF IInv, TypeOK, Status
    <3>2. reports'[c] = Append(reports[c], "SendFailed")
      BY <1>1, <1>12 DEF IInv, TypeOK
    <3> QED
      BY <3>1, <3>2
  <2>2. Fate(c)' = "failed"
    BY <1>10, <2>1 DEF Fate
  <2> QED
    BY <1>1, <1>7, <1>9, <2>2 DEF Promise!NotSent
<1> QED
  BY <1>6, <1>11, <1>12

LEMMA OnDataPromise ==
    ASSUME IInv, NEW p \in replies, OnData(p)
    PROVE  \/ UNCHANGED <<fates, open>>
           \/ \E S \in SUBSET Promise!Waiting : Promise!Settle(S)
<1>1. p.seq \in SeqNum /\ queue' = queue /\ calls' = calls /\ open /\ open' = open
  BY DEF OnData, EraseCommand, Polling, IInv, TypeOK, Packet
<1>2. CASE commands[p.seq] = NoCmd
  <2>1. commands' = commands /\ reports' = reports
    BY <1>2 DEF OnData, EraseCommand
  <2>2. \A c \in Cmd : Fate(c)' = Fate(c)
    BY <1>1, <2>1 DEF Fate, Waits
  <2> QED
    BY <1>1, <2>2, SamePhase
<1>3. CASE commands[p.seq] # NoCmd
  <2> PICK c \in Cmd : c = commands[p.seq]
    BY <1>1, <1>3 DEF IInv, TypeOK
  <2>1. /\ Fate(c) \in {"pending", "failed"} /\ calls[c] = "accepted"
        /\ \A s \in SeqNum : commands[s] = c => s = p.seq
    BY <1>1, <1>3, HeldFate DEF IInv, HeldOnce
  <2>2. /\ reports' = [reports EXCEPT ![c] = Append(@, "Success")]
        /\ commands' = [commands EXCEPT ![p.seq] = NoCmd]
    BY <1>3 DEF OnData, EraseCommand, Report
  <2>3. \A i \in DOMAIN queue : queue[i].cmd # c
    BY <1>1 DEF IInv, QueuedOnce
  <2>4. commands[p.seq] = c
    OBVIOUS
  <2>5. \A s \in SeqNum : commands'[s] = IF s = p.seq THEN NoCmd ELSE commands[s]
    BY <1>1, <2>2 DEF IInv, TypeOK
  <2>6. Fate(c)' = "reported"
    <3>1. ~Waits(c)'
      BY <1>1, <2>1, <2>3, <2>5, ChannelAssumption DEF Waits
    <3>2. reports[c] \in Seq(Status) /\ "Success" \in Status
      BY <2>1 DEF IInv, TypeOK, Status
    <3>3. reports'[c] = Append(reports[c], "Success")
      BY <2>1, <2>2 DEF IInv, TypeOK
    <3>4. reports'[c] # <<>>
      BY <3>2, <3>3
    <3> QED
      BY <1>1, <2>1, <3>1, <3>4 DEF Fate
  <2>7. ASSUME NEW d \in Cmd \ {c} PROVE Fate(d)' = Fate(d)
    <3>1. Waits(d)' <=> Waits(d)
      BY <1>1, <2>4, <2>5, ChannelAssumption DEF Waits
    <3>2. reports'[d] = reports[d]
      BY <2>2 DEF IInv, TypeOK
    <3> QED
      BY <1>1, <3>1, <3>2, SameFate
  <2>8. Promise!Settle({c})
    BY <1>1, <2>6, <2>7 DEF Promise!Settle
  <2>9. {c} \in SUBSET Promise!Waiting
    BY <2>1 DEF Promise!Waiting
  <2> QED
    BY <2>8, <2>9
<1> QED
  BY <1>2, <1>3
(* The timer settles what is overdue; if it gives the device up, what was  *)
(* not overdue is lost, or has had its report when it failed to be sent.   *)
LEMMA OnTimerPromise ==
    ASSUME IInv, OnTimer
    PROVE  \E S \in SUBSET Promise!Waiting : Promise!Settle(S) \/ Promise!LinkLost(S)
<1> PICK S \in SUBSET Cmd : S = {c \in Cmd : \E s \in Expired : commands[s] = c}
  OBVIOUS
<1>1. /\ queue' = queue /\ calls' = calls /\ open
      /\ \A s \in Expired : s \in SeqNum /\ commands[s] # NoCmd
  BY DEF OnTimer, Polling, Expired, Pending
<1>2. S \in SUBSET Promise!Waiting
  BY <1>1, HeldFate DEF Promise!Waiting
<1>3. \A c \in Cmd : reports'[c] = IF c \in S THEN Append(reports[c], "Timeout") ELSE reports[c]
  BY DEF OnTimer, ReportExpired
<1>4. \A c \in Cmd : c \in S => reports'[c] # <<>> /\ calls'[c] = "accepted"
  <2>1. \A c \in Cmd : reports[c] \in Seq(Status) /\ "Timeout" \in Status
    BY DEF IInv, TypeOK, Status
  <2>2. \A c \in Cmd : Append(reports[c], "Timeout") # <<>>
    BY <2>1
  <2> QED
    BY <1>1, <1>3, <2>2 DEF IInv, HeldOnce
<1>5. CASE GiveUp
  <2>1. open' = FALSE
    BY <1>5 DEF GiveUp
  <2>2. \A c \in Cmd : ~Waits(c)'
    BY <2>1 DEF Waits
  <2>3. ASSUME NEW c \in Cmd
        PROVE  Fate(c)' = IF c \in S \/ Fate(c) = "failed" THEN "reported"
                          ELSE IF c \in Promise!Waiting THEN "lost" ELSE Fate(c)
    <3>1. CASE c \in S
      BY <1>4, <2>2, <3>1 DEF Fate
    <3>2. CASE c \notin S
      <4>1. calls'[c] = calls[c] /\ reports'[c] = reports[c]
        BY <1>1, <1>3, <3>2
      <4>2. calls[c] \in CallState
        BY DEF IInv, TypeOK
      <4>3. c \in Promise!Waiting <=> Fate(c) \in {"pending", "failed"}
        BY DEF Promise!Waiting
      <4> QED
        BY <2>2, <3>2, <4>1, <4>2, <4>3 DEF Fate, CallState
    <3> QED
      BY <3>1, <3>2
  <2>4. fates' = [c \in Cmd |-> IF c \in S \/ fates[c] = "failed" THEN "reported"
                                ELSE IF c \in Promise!Waiting THEN "lost" ELSE fates[c]]
    BY <2>3 DEF fates
  <2>5. Promise!LinkLost(S)
    BY <1>1, <2>1, <2>4 DEF Promise!LinkLost, fates
  <2> QED
    BY <1>2, <2>5
<1>6. CASE HeartBeat
  <2>1. /\ open' = open
        /\ \A s \in SeqNum : commands'[s] = IF s \in Expired THEN NoCmd ELSE commands[s]
    BY <1>6 DEF HeartBeat
  <2>2. ASSUME NEW c \in Cmd
        PROVE  Fate(c)' = IF c \in S THEN "reported" ELSE Fate(c)
    <3>1. CASE c \in S
      <4>1. PICK s \in Expired : commands[s] = c
        BY <3>1
      <4>2. \A t \in SeqNum : commands[t] = c => t = s
        BY <1>1, <4>1 DEF IInv, HeldOnce
      <4>3. \A t \in SeqNum : commands'[t] # c
        BY <2>1, <4>1, <4>2, ChannelAssumption
      <4>4. \A i \in DOMAIN queue : queue[i].cmd # c
        BY <1>1, <4>1 DEF IInv, QueuedOnce
      <4>5. ~Waits(c)'
        BY <1>1, <4>3, <4>4 DEF Waits
      <4> QED
        BY <1>4, <3>1, <4>5 DEF Fate
    <3>2. CASE c \notin S
      <4>1. \A s \in SeqNum : commands[s] = c <=> commands'[s] = c
        BY <2>1, <3>2, ChannelAssumption
      <4>2. Waits(c)' <=> Waits(c)
        BY <1>1, <2>1, <4>1 DEF Waits
      <4>3. calls'[c] = calls[c] /\ reports'[c] = reports[c]
        BY <1>1, <1>3, <3>2
      <4> QED
        BY <3>2, <4>2, <4>3, SameFate
    <3> QED
      BY <3>1, <3>2
  <2>3. Promise!Settle(S)
    BY <1>1, <2>1, <2>2 DEF Promise!Settle
  <2> QED
    BY <1>2, <2>3
<1> QED
  BY <1>5, <1>6 DEF OnTimer

LEMMA NextPromise ==
    ASSUME IInv, NumberFree, [Next]_vars
    PROVE  [Promise!PNext]_Promise!pvars
<1>1. ASSUME NEW c \in Cmd, SendCommand(c) PROVE Promise!PNext
  BY <1>1, SendCommandPromise DEF Promise!PNext
<1>2. CASE DropSend
  BY <1>2, DropSendPromise DEF Promise!pvars, fates
<1>3. CASE Send
  BY <1>3, SendPromise DEF Promise!PNext, Promise!pvars, fates
<1>4. ASSUME NEW p \in replies, OnData(p)
      PROVE  Promise!PNext \/ UNCHANGED Promise!pvars
  BY <1>4, OnDataPromise DEF Promise!PNext, Promise!pvars, fates
<1>5. CASE OnTimer
  BY <1>5, OnTimerPromise DEF Promise!PNext
<1>6. CASE \/ \E p \in requests : DeviceReply(p)
           \/ DeviceDies \/ Tick \/ UNCHANGED vars
  <2>1. UNCHANGED <<queue, calls, commands, reports, open>>
    BY <1>6 DEF DeviceReply, DeviceDies, Tick, vars, host
  <2>2. \A c \in Cmd : Fate(c)' = Fate(c)
    BY <2>1 DEF Fate, Waits
  <2> QED
    BY <2>1, <2>2 DEF Promise!pvars
<1> QED
  BY <1>1, <1>2, <1>3, <1>4, <1>5, <1>6 DEF Next

(* The channel implements CommandPromise as long as no command is entered  *)
(* under a number at which another one waits: every step of it is a step   *)
(* of the promise or leaves the promise alone.                             *)
THEOREM KeepsPromiseWhileFree == Spec /\ []NumberFree => KeepsPromise
BY ChannelInit, NextPromise, IInvAlways, PTL DEF Spec, KeepsPromise, Promise!PSpec

-----------------------------------------------------------------------------
(* Success means that the device has executed the command.  A datagram is  *)
(* matched by its number alone, so this, too, is about a counter that      *)
(* comes round to a number only after its last use: no datagram is under   *)
(* way under the number of a command that is about to be sent, and no      *)
(* command waits under the number of the next heartbeat.  TLC finds        *)
(* NumberOver true on the instance without any premise, for a window of    *)
(* numbers that is as small as the clocks allow.                           *)
Under(n) == {p \in requests \cup replies : p.seq = n}

NumberOver ==
    open =>
        /\ queue # <<>> => Under(Head(queue).seq) = {}
        /\ due = 0 /\ beat > HbPeriod => commands[GenerateSeq(seq)] = NoCmd

(* A datagram under the number of a command that waits is that command's,  *)
(* and what is acknowledged has been executed.                             *)
Matched == \A p \in requests \cup replies : commands[p.seq] # NoCmd => p.cmd = commands[p.seq]
AnswersAreTrue == \A p \in replies : p.cmd # NoCmd => p.cmd \in executed
MatchInv == Matched /\ AnswersAreTrue /\ SuccessMeansExecuted

Succeeded(r) == \E i \in DOMAIN r : r[i] = "Success"

LEMMA SuccessAppended ==
    ASSUME NEW r \in Seq(Status), NEW status \in Status, Succeeded(Append(r, status))
    PROVE  Succeeded(r) \/ status = "Success"
BY AppendElements DEF Succeeded

LEMMA SucceededMeans ==
    SuccessMeansExecuted <=> \A c \in Cmd : Succeeded(reports[c]) => c \in executed
BY DEF SuccessMeansExecuted, Succeeded

LEMMA OlderElement ==
    ASSUME NEW S \in SUBSET Packet, NEW p \in Older(S)
    PROVE  \E q \in S : p.cmd = q.cmd /\ p.seq = q.seq
BY DEF Older, Packet

(* A step that reports no success keeps what has been said of successes.   *)
LEMMA NoSuccess ==
    ASSUME TypeOK, SuccessMeansExecuted, executed \subseteq executed',
           \A c \in Cmd : \/ reports'[c] = reports[c]
                          \/ \E status \in Status \ {"Success"} :
                               reports'[c] = Append(reports[c], status)
    PROVE  SuccessMeansExecuted'
<1> SUFFICES ASSUME NEW c \in Cmd, Succeeded(reports'[c])
             PROVE  c \in executed'
  BY DEF SuccessMeansExecuted, Succeeded
<1>1. reports[c] \in Seq(Status)
  BY DEF TypeOK
<1>2. Succeeded(reports[c])
  BY <1>1, SuccessAppended
<1> QED
  BY <1>2, SucceededMeans

LEMMA MatchHolds ==
    ASSUME TypeOK, TypeOK', MatchInv, NumberOver, [Next]_vars
    PROVE  MatchInv'
<1> USE DEF MatchInv
<1>1. \A p \in requests \cup replies : p \in Packet /\ p.seq \in SeqNum /\ p.cmd \in Cmd \cup {NoCmd}
  BY DEF TypeOK, Packet
<1>2. \A c \in Cmd \cup {NoCmd}, n \in SeqNum : Pkt(c, n).cmd = c /\ Pkt(c, n).seq = n
  BY DEF Pkt
<1>3. CASE UNCHANGED <<commands, reports, requests, replies, executed>>
  BY <1>3 DEF Matched, AnswersAreTrue, SuccessMeansExecuted
<1>4. CASE Send
  <2> PICK c \in Cmd, n \in SeqNum : c = Head(queue).cmd /\ n = Head(queue).seq
    BY <1>4, NextClosureType DEF Send, Closure
  <2>1. /\ commands' = [commands EXCEPT ![n] = c] /\ UNCHANGED <<replies, executed>>
        /\ requests' \in {requests, requests \cup {Pkt(c, n)}}
    BY <1>4 DEF Send, EnterCommand
  <2>2. Under(n) = {}
    BY <1>4 DEF NumberOver, Send, ProtectorAlive, NextClosure
  <2>3. \A p \in requests \cup replies : p.seq # n
    BY <2>2 DEF Under
  <2>4. \A t \in SeqNum : commands'[t] = IF t = n THEN c ELSE commands[t]
    BY <2>1 DEF TypeOK
  <2>5. Matched'
    BY <1>1, <1>2, <2>1, <2>3, <2>4 DEF Matched
  <2>6. SuccessMeansExecuted'
    <3>1. reports' = reports \/ reports' = [reports EXCEPT ![c] = Append(@, "SendFailed")]
      BY <1>4 DEF Send, EnterCommand, Report
    <3>2. \A d \in Cmd : \/ reports'[d] = reports[d]
                          \/ reports'[d] = Append(reports[d], "SendFailed")
      BY <3>1 DEF TypeOK
    <3>3. "SendFailed" \in Status \ {"Success"}
      BY DEF Status
    <3> QED
      BY <2>1, <3>2, <3>3, NoSuccess
  <2> QED
    BY <2>1, <2>5, <2>6 DEF AnswersAreTrue
<1>5. ASSUME NEW p \in replies, OnData(p)
      PROVE  MatchInv'
  <2>1. replies' \subseteq replies /\ requests' = requests /\ executed' = executed
    BY <1>5 DEF OnData, EraseCommand
  <2>2. AnswersAreTrue'
    BY <2>1 DEF AnswersAreTrue
  <2>3. CASE commands[p.seq] = NoCmd
    BY <1>5, <2>1, <2>2, <2>3 DEF OnData, Matched, SuccessMeansExecuted
  <2>4. CASE commands[p.seq] # NoCmd
    <3> PICK c \in Cmd : c = commands[p.seq]
      BY <1>1, <2>4 DEF TypeOK
    <3>1. /\ commands' = [commands EXCEPT ![p.seq] = NoCmd]
          /\ reports' = [reports EXCEPT ![c] = Append(@, "Success")]
      BY <1>5, <2>4 DEF OnData, EraseCommand, Report
    <3>2. \A t \in SeqNum : commands'[t] \in {commands[t], NoCmd}
      BY <3>1 DEF TypeOK
    <3>3. Matched'
      BY <1>1, <2>1, <3>2 DEF Matched
    <3>4. c \in executed
      BY <2>4, ChannelAssumption DEF Matched, AnswersAreTrue
    <3>5. \A d \in Cmd : d # c => reports'[d] = reports[d]
      BY <3>1 DEF TypeOK
    <3>6. SuccessMeansExecuted'
      BY <2>1, <3>4, <3>5 DEF SuccessMeansExecuted
    <3> QED
      BY <2>2, <3>3, <3>6
  <2> QED
    BY <2>3, <2>4
<1>6. CASE OnTimer
  <2>1. replies' = replies /\ executed' = executed /\ open /\ due = 0
    BY <1>6 DEF OnTimer, Polling
  <2>2. AnswersAreTrue'
    BY <2>1 DEF AnswersAreTrue
  <2>3. \A t \in SeqNum : commands'[t] \in {commands[t], NoCmd}
    BY <1>6 DEF OnTimer, GiveUp, HeartBeat
  <2>4. GenerateSeq(seq) \in SeqNum
    BY GenerateSeqType DEF TypeOK
  <2>5. \/ requests' = requests
        \/ /\ requests' = requests \cup {Pkt(NoCmd, GenerateSeq(seq))}
           /\ commands[GenerateSeq(seq)] = NoCmd
    BY <1>6, <2>1 DEF OnTimer, GiveUp, HeartBeat, NumberOver
  <2>6. Matched'
    BY <1>1, <1>2, <2>1, <2>3, <2>4, <2>5 DEF Matched
  <2>7. SuccessMeansExecuted'
    <3>1. "Timeout" \in Status \ {"Success"}
      BY DEF Status
    <3>2. \A c \in Cmd : reports'[c] = reports[c] \/ reports'[c] = Append(reports[c], "Timeout")
      BY <1>6 DEF OnTimer, ReportExpired
    <3> QED
      BY <2>1, <3>1, <3>2, NoSuccess
  <2> QED
    BY <2>2, <2>6, <2>7
<1>7. ASSUME NEW p \in requests, DeviceReply(p)
      PROVE  MatchInv'
  <2>1. /\ commands' = commands /\ reports' = reports /\ requests' \subseteq requests
        /\ executed' = executed \cup ({p.cmd} \ {NoCmd})
        /\ replies' = replies \cup {Pkt(p.cmd, p.seq)}
    BY <1>7 DEF DeviceReply, host
  <2>2. Pkt(p.cmd, p.seq).cmd = p.cmd /\ Pkt(p.cmd, p.seq).seq = p.seq
    BY DEF Pkt
  <2>3. Matched' /\ AnswersAreTrue'
    BY <2>1, <2>2 DEF Matched, AnswersAreTrue
  <2>4. SuccessMeansExecuted'
    BY <2>1 DEF SuccessMeansExecuted
  <2> QED
    BY <2>3, <2>4
<1>8. CASE Tick
  <2>1. /\ requests' = Older(requests) /\ replies' = Older(replies)
        /\ UNCHANGED <<commands, reports, executed>>
    BY <1>8 DEF Tick
  <2>2. requests \in SUBSET Packet /\ replies \in SUBSET Packet
    BY DEF TypeOK
  <2>3. /\ \A p \in requests' : \E q \in requests : p.cmd = q.cmd /\ p.seq = q.seq
        /\ \A p \in replies' : \E q \in replies : p.cmd = q.cmd /\ p.seq = q.seq
    BY <2>1, <2>2, OlderElement
  <2>4. Matched' /\ AnswersAreTrue'
    BY <2>1, <2>3 DEF Matched, AnswersAreTrue
  <2> QED
    BY <2>1, <2>4 DEF SuccessMeansExecuted
<1>9. ASSUME NEW c \in Cmd, SendCommand(c)
      PROVE  UNCHANGED <<commands, reports, requests, replies, executed>>
  BY <1>9 DEF SendCommand, world
<1>10. DropSend \/ DeviceDies \/ UNCHANGED vars
         => UNCHANGED <<commands, reports, requests, replies, executed>>
  BY DEF DropSend, DeviceDies, vars, host, world
<1> QED
  BY <1>3, <1>4, <1>5, <1>6, <1>7, <1>8, <1>9, <1>10 DEF Next

(* A command reported successful was carried out by the device, as long as *)
(* the counter comes round to a number only after its last use is over:    *)
(* whatever the wire loses, duplicates, delays and reorders, for any       *)
(* number of commands and any size of the sequence space.                  *)
THEOREM SuccessMeansExecutedWhileOver == Spec /\ []NumberOver => []SuccessMeansExecuted
<1>1. Init => MatchInv
  BY DEF Init, MatchInv, Matched, AnswersAreTrue, SuccessMeansExecuted
<1>2. TypeOK /\ TypeOK' /\ MatchInv /\ NumberOver /\ [Next]_vars => MatchInv'
  BY MatchHolds
<1>3. MatchInv => SuccessMeansExecuted
  BY DEF MatchInv
<1> QED
  BY <1>1, <1>2, <1>3, TypeCorrect, PTL DEF Spec
-----------------------------------------------------------------------------
(* A device that answers is kept.  The statement that carries it follows   *)
(* the heartbeat round: either one is under way whose answer reaches the   *)
(* channel before the limit of silence, or none is under way and the next  *)
(* one leaves in time - the silence is no older than a period and the delay*)
(* of the timer, nor than the last heartbeat.                              *)
HeartbeatsOut == {p \in requests \cup replies : p.cmd = NoCmd}

AnswerComes ==
    \/ \E p \in requests : p.cmd = NoCmd /\ silence + p.life + PacketLife <= HbLimit
    \/ \E p \in replies : p.cmd = NoCmd /\ silence + p.life <= HbLimit

HeartbeatComes ==
    /\ silence <= HbPeriod + stall
    /\ beat <= HbPeriod => silence <= beat

HeartbeatInv == open /\ (AnswerComes \/ (HeartbeatsOut = {} /\ HeartbeatComes))

Patient == ~Faulty /\ HbPeriod + MaxStall + 2 * PacketLife <= HbLimit

LEMMA PacketFields ==
    ASSUME NEW S \in SUBSET Packet
    PROVE  \A p \in S : /\ p.life \in Nat /\ p.life <= PacketLife
                        /\ p.cmd \in Cmd \cup {NoCmd} /\ p.seq \in SeqNum
BY ChannelAssumption DEF Packet

LEMMA PktFields ==
    ASSUME NEW c, NEW n
    PROVE  Pkt(c, n).cmd = c /\ Pkt(c, n).seq = n /\ Pkt(c, n).life = PacketLife
BY DEF Pkt

LEMMA ClocksType ==
    ASSUME TypeOK
    PROVE  /\ silence \in Nat /\ beat \in Nat /\ stall \in Nat /\ stall <= MaxStall
           /\ HbPeriod \in Nat /\ HbLimit \in Nat /\ PacketLife \in Nat /\ MaxStall \in Nat
BY ChannelAssumption DEF TypeOK

(* What a tick does to a packet that is not at the end of its life.        *)
LEMMA OlderKeeps ==
    ASSUME NEW S \in SUBSET Packet, NEW p \in S, p.life > 0
    PROVE  \E q \in Older(S) : q.cmd = p.cmd /\ q.life = p.life - 1
<1>1. [p EXCEPT !.life = @ - 1] \in Older(S)
  BY DEF Older
<1>2. /\ [p EXCEPT !.life = @ - 1].cmd = p.cmd
      /\ [p EXCEPT !.life = @ - 1].life = p.life - 1
  BY DEF Packet
<1> QED
  BY <1>1, <1>2

(* The steps of a command leave the heartbeats alone.                      *)
LEMMA HeartbeatsApart ==
    ASSUME TypeOK, HeartbeatInv, UNCHANGED <<silence, beat, stall, open>>,
           \A p : p.cmd = NoCmd => /\ p \in requests' <=> p \in requests
                                   /\ p \in replies' <=> p \in replies
    PROVE  HeartbeatInv'
<1>1. AnswerComes => AnswerComes'
  BY DEF AnswerComes
<1>2. HeartbeatsOut' = HeartbeatsOut
  BY DEF HeartbeatsOut
<1>3. HeartbeatComes => HeartbeatComes'
  BY DEF HeartbeatComes
<1> QED
  BY <1>1, <1>2, <1>3 DEF HeartbeatInv

LEMMA OnDataHeartbeat ==
    ASSUME Patient, TypeOK, TypeOK', MatchInv, HeartbeatInv,
           NEW p \in replies, OnData(p)
    PROVE  HeartbeatInv'
<1>1. /\ requests' = requests /\ replies' = replies \ {p}
      /\ UNCHANGED <<beat, stall, open>>
  BY DEF OnData, EraseCommand, Patient
<1>2. p.cmd \in Cmd \cup {NoCmd}
  BY PacketFields DEF TypeOK
<1>3. CASE p.cmd # NoCmd
  <2>1. silence' = silence
    BY <1>3 DEF OnData, EraseCommand
  <2> QED
    BY <1>1, <1>3, <2>1, HeartbeatsApart
<1>4. CASE p.cmd = NoCmd
  <2>1. commands[p.seq] = NoCmd
    BY <1>4 DEF MatchInv, Matched
  <2>2. silence' = 0
    BY <1>4, <2>1 DEF OnData
  <2>3. HeartbeatComes'
    BY <1>1, <2>2, ClocksType DEF HeartbeatComes
  <2>4. ASSUME NEW q \in HeartbeatsOut' PROVE AnswerComes'
    <3>1. q \in requests' \/ q \in replies'
      BY DEF HeartbeatsOut
    <3>2. q.life \in Nat /\ q.life <= PacketLife /\ q.cmd = NoCmd
      BY <3>1, PacketFields DEF TypeOK, HeartbeatsOut
    <3>3. 0 + q.life + PacketLife <= HbLimit /\ 0 + q.life <= HbLimit
      BY <3>2, ClocksType DEF Patient
    <3> QED
      BY <2>2, <3>1, <3>2, <3>3 DEF AnswerComes
  <2> QED
    BY <1>1, <2>3, <2>4 DEF HeartbeatInv
<1> QED
  BY <1>3, <1>4

LEMMA OnTimerHeartbeat ==
    ASSUME Patient, TypeOK, HeartbeatInv, OnTimer
    PROVE  HeartbeatInv'
<1>1. silence' = silence /\ replies' = replies /\ stall' = 0
  BY DEF OnTimer
<1>2. silence <= HbLimit
  <2>1. CASE AnswerComes
    <3>1. PICK p \in requests \cup replies : silence + p.life <= HbLimit \/ silence + p.life + PacketLife <= HbLimit
      BY <2>1 DEF AnswerComes
    <3>2. p.life \in Nat
      BY PacketFields DEF TypeOK
    <3> QED
      BY <3>1, <3>2, ClocksType
  <2>2. CASE HeartbeatComes
    BY <2>2, ClocksType DEF HeartbeatComes, Patient
  <2> QED
    BY <2>1, <2>2 DEF HeartbeatInv
<1>3. HeartBeat /\ open' = open
  BY <1>2, ClocksType DEF OnTimer, GiveUp, HeartBeat, TooSilent
<1>4. requests \subseteq requests'
  BY <1>3 DEF HeartBeat
<1>5. AnswerComes => AnswerComes'
  BY <1>1, <1>4 DEF AnswerComes
<1>6. CASE HeartbeatsOut = {} /\ HeartbeatComes /\ beat > HbPeriod
  <2>1. Pkt(NoCmd, seq') \in requests'
    BY <1>3, <1>6 DEF HeartBeat, Patient
  <2>2. silence + PacketLife + PacketLife <= HbLimit
    BY <1>6, ClocksType DEF HeartbeatComes, Patient
  <2>3. AnswerComes'
    BY <1>1, <2>1, <2>2, PktFields DEF AnswerComes
  <2> QED
    BY <1>3, <2>3 DEF HeartbeatInv
<1>7. CASE HeartbeatsOut = {} /\ HeartbeatComes /\ ~(beat > HbPeriod)
  <2>1. requests' = requests /\ beat' = beat
    BY <1>3, <1>7 DEF HeartBeat
  <2>2. HeartbeatsOut' = {}
    BY <1>1, <1>7, <2>1 DEF HeartbeatsOut
  <2>3. HeartbeatComes'
    BY <1>1, <1>7, <2>1, ClocksType DEF HeartbeatComes
  <2> QED
    BY <1>3, <2>2, <2>3 DEF HeartbeatInv
<1> QED
  BY <1>3, <1>5, <1>6, <1>7 DEF HeartbeatInv

LEMMA DeviceReplyHeartbeat ==
    ASSUME Patient, TypeOK, HeartbeatInv, NEW p \in requests, DeviceReply(p)
    PROVE  HeartbeatInv'
<1>1. /\ UNCHANGED <<silence, beat, stall, open>>
      /\ requests' = requests \ {p} /\ replies' = replies \cup {Pkt(p.cmd, p.seq)}
  BY DEF DeviceReply, host, Patient
<1>2. p.life \in Nat
  BY PacketFields DEF TypeOK
<1>3. CASE p.cmd # NoCmd
  BY <1>1, <1>3, PktFields, HeartbeatsApart
<1>4. CASE p.cmd = NoCmd
  <2>1. AnswerComes
    BY <1>4 DEF HeartbeatInv, HeartbeatsOut
  <2>2. CASE silence + p.life + PacketLife <= HbLimit
    <3>1. silence + PacketLife <= HbLimit
      BY <1>2, <2>2, ClocksType
    <3>2. AnswerComes'
      BY <1>1, <1>4, <3>1, PktFields DEF AnswerComes
    <3> QED
      BY <1>1, <3>2 DEF HeartbeatInv
  <2>3. CASE ~(silence + p.life + PacketLife <= HbLimit)
    BY <1>1, <2>1, <2>3 DEF AnswerComes, HeartbeatInv
  <2> QED
    BY <2>2, <2>3
<1> QED
  BY <1>3, <1>4

LEMMA TickHeartbeat ==
    ASSUME Patient, TypeOK, HeartbeatInv, Tick
    PROVE  HeartbeatInv'
<1>1. /\ open' = open /\ stall' = stall + 1
      /\ requests' = Older(requests) /\ replies' = Older(replies)
      /\ \A p \in requests \cup replies : p.life > 0
  BY DEF Tick, Patient
<1>2. silence' \in Nat /\ silence' <= silence + 1
  BY ClocksType DEF Tick, Capped
<1>3. beat' = IF beat < HbPeriod + 1 THEN beat + 1 ELSE beat
  BY DEF Tick, Capped
<1>4. requests \in SUBSET Packet /\ replies \in SUBSET Packet
  BY DEF TypeOK
<1>5. \A p \in requests \cup replies : p.life \in Nat
  BY <1>4, PacketFields
<1>6. CASE AnswerComes
  <2>1. ASSUME NEW p \in requests, p.cmd = NoCmd, silence + p.life + PacketLife <= HbLimit
        PROVE  AnswerComes'
    <3>1. PICK q \in requests' : q.cmd = NoCmd /\ q.life = p.life - 1
      BY <1>1, <1>4, <2>1, OlderKeeps
    <3>2. silence' + q.life + PacketLife <= HbLimit
      BY <1>1, <1>2, <1>5, <2>1, <3>1, ClocksType
    <3> QED
      BY <3>1, <3>2 DEF AnswerComes
  <2>2. ASSUME NEW p \in replies, p.cmd = NoCmd, silence + p.life <= HbLimit
        PROVE  AnswerComes'
    <3>1. PICK q \in replies' : q.cmd = NoCmd /\ q.life = p.life - 1
      BY <1>1, <1>4, <2>2, OlderKeeps
    <3>2. silence' + q.life <= HbLimit
      BY <1>1, <1>2, <1>5, <2>2, <3>1, ClocksType
    <3> QED
      BY <3>1, <3>2 DEF AnswerComes
  <2> QED
    BY <1>1, <1>6, <2>1, <2>2 DEF AnswerComes, HeartbeatInv
<1>7. CASE HeartbeatsOut = {} /\ HeartbeatComes
  <2>1. HeartbeatsOut' = {}
    BY <1>1, <1>4, <1>7, OlderElement DEF HeartbeatsOut
  <2>2. silence' <= HbPeriod + stall'
    BY <1>1, <1>2, <1>7, ClocksType DEF HeartbeatComes
  <2>3. beat' <= HbPeriod => silence' <= beat'
    BY <1>2, <1>3, <1>7, ClocksType DEF HeartbeatComes
  <2> QED
    BY <1>1, <2>1, <2>2, <2>3 DEF HeartbeatComes, HeartbeatInv
<1> QED
  BY <1>6, <1>7 DEF HeartbeatInv

LEMMA HeartbeatHolds ==
    ASSUME Patient, TypeOK, TypeOK', MatchInv, HeartbeatInv, [Next]_vars
    PROVE  HeartbeatInv'
<1>1. ASSUME NEW c \in Cmd, SendCommand(c) PROVE HeartbeatInv'
  BY <1>1, HeartbeatsApart DEF SendCommand, world
<1>2. CASE DropSend
  BY <1>2, HeartbeatsApart DEF DropSend, world
<1>3. CASE Send
  <2> PICK c \in Cmd, n \in SeqNum : c = Head(queue).cmd /\ n = Head(queue).seq
    BY <1>3, NextClosureType DEF Send, Closure
  <2>1. /\ requests' = requests \cup {Pkt(c, n)} /\ replies' = replies
        /\ UNCHANGED <<silence, beat, stall, open>>
    BY <1>3 DEF Send, EnterCommand, Patient
  <2>2. Pkt(c, n).cmd # NoCmd
    BY PktFields, ChannelAssumption
  <2> QED
    BY <2>1, <2>2, HeartbeatsApart
<1>4. ASSUME NEW p \in replies, OnData(p) PROVE HeartbeatInv'
  BY <1>4, OnDataHeartbeat
<1>5. CASE OnTimer
  BY <1>5, OnTimerHeartbeat
<1>6. ASSUME NEW p \in requests, DeviceReply(p) PROVE HeartbeatInv'
  BY <1>6, DeviceReplyHeartbeat
<1>7. CASE DeviceDies
  BY <1>7 DEF DeviceDies, Patient
<1>8. CASE Tick
  BY <1>8, TickHeartbeat
<1>9. CASE UNCHANGED vars
  BY <1>9, HeartbeatsApart DEF vars, host, world
<1> QED
  BY <1>1, <1>2, <1>3, <1>4, <1>5, <1>6, <1>7, <1>8, <1>9 DEF Next

(* A device that answers over a reliable wire is never given up, for every *)
(* heartbeat period, every delay of the wire and every delay of the timer  *)
(* that leave a period, a late timer and a round trip within the limit of  *)
(* silence; that no heartbeat takes the number of a waiting command is     *)
(* needed because the answer would then be taken for the command's, and    *)
(* would not restart the silence clock.                                    *)
THEOREM AnsweredDeviceKeptWhileOver ==
    ASSUME Patient
    PROVE  Spec /\ []NumberOver => []AnsweredDeviceKept
<1>1. Init => MatchInv
  BY DEF Init, MatchInv, Matched, AnswersAreTrue, SuccessMeansExecuted
<1>2. Init => HeartbeatInv
  <2> SUFFICES ASSUME Init PROVE HeartbeatInv
    OBVIOUS
  <2>1. open /\ HeartbeatsOut = {}
    BY DEF Init, HeartbeatsOut
  <2>2. HeartbeatComes
    BY ChannelAssumption DEF Init, HeartbeatComes
  <2> QED
    BY <2>1, <2>2 DEF HeartbeatInv
<1>3. TypeOK /\ TypeOK' /\ MatchInv /\ NumberOver /\ [Next]_vars => MatchInv'
  BY MatchHolds
<1>4. TypeOK /\ TypeOK' /\ MatchInv /\ HeartbeatInv /\ [Next]_vars => HeartbeatInv'
  BY HeartbeatHolds
<1>5. HeartbeatInv => AnsweredDeviceKept
  BY DEF HeartbeatInv, AnsweredDeviceKept
<1> QED
  BY <1>1, <1>2, <1>3, <1>4, <1>5, TypeCorrect, PTL DEF Spec

-----------------------------------------------------------------------------
(* When the counter comes round in time.  Every use of a number ends after *)
(* so many ticks: a closure waits for the end of the turn of the loop that *)
(* finds it queued, an entry of commands_ for its deadline and the timer   *)
(* after it, a datagram lives at most once on each way.  What can draw     *)
(* numbers meanwhile is the commands not issued yet and the heartbeats, of *)
(* which there is no more than one a tick.  If together they are fewer than *)
(* the numbers, none is drawn while it is in use.                          *)
Idle == {c \in Cmd : calls[c] = "idle"}

\* How many numbers were drawn after n, when s is the last one drawn.
Since(s, n) == IF n <= s THEN s - n ELSE s + SeqMax - n

\* The draws that may come without a tick.
Load == Cardinality(Idle) + (IF beat > HbPeriod THEN 1 ELSE 0)

Drawn(n) == Since(seq, n) + Load

\* The ticks left to a use of a number, at most.
AfterSend == CmdTimeout + 1 + MaxStall + 2 * PacketLife
InQueue(i) == (IF i <= due THEN MaxStall ELSE 2 * MaxStall) - stall
InTable(a) == IF a > CmdTimeout THEN MaxStall - stall ELSE CmdTimeout + 1 - a + MaxStall

QueueRoom == \A i \in DOMAIN queue : Drawn(queue[i].seq) + InQueue(i) + AfterSend < SeqMax
TableRoom == \A n \in Pending : Drawn(n) + InTable(age[n]) < SeqMax
PacketRoom ==
    /\ \A p \in requests : Drawn(p.seq) + p.life + PacketLife < SeqMax
    /\ \A p \in replies : Drawn(p.seq) + p.life < SeqMax

\* The number of a closure has no use but this one.
QueueFresh ==
    \A i \in DOMAIN queue :
        /\ queue[i].seq \notin Pending
        /\ Under(queue[i].seq) = {}
        /\ \A j \in DOMAIN queue : queue[j].seq = queue[i].seq => j = i

NumbersInv == open => QueueRoom /\ TableRoom /\ PacketRoom /\ QueueFresh

\* 65535 numbers are enough for this many commands.
Wide ==
    /\ IsFiniteSet(Cmd)
    /\ Cardinality(Cmd) + 2 * MaxStall + AfterSend < SeqMax

LEMMA ConstantsType ==
    /\ SeqMax \in Nat /\ SeqMax > 0 /\ CmdTimeout \in Nat /\ HbPeriod \in Nat
    /\ HbLimit \in Nat /\ PacketLife \in Nat /\ MaxStall \in Nat
BY ChannelAssumption

LEMMA IdleFinite ==
    ASSUME Wide
    PROVE  /\ IsFiniteSet(Idle) /\ Cardinality(Idle) \in Nat
           /\ Cardinality(Cmd) \in Nat /\ Cardinality(Idle) <= Cardinality(Cmd)
BY FS_Subset, FS_CardinalityType DEF Wide, Idle

LEMMA SinceType ==
    ASSUME NEW s \in SeqNum, NEW n \in SeqNum
    PROVE  Since(s, n) \in Nat /\ Since(s, n) < SeqMax
BY ConstantsType DEF Since, SeqNum

LEMMA LoadType == ASSUME Wide PROVE Load \in Nat /\ Load <= Cardinality(Cmd) + 1
BY IdleFinite DEF Load

LEMMA NewNumber == ASSUME NEW s \in SeqNum PROVE Since(s, s) = 0
BY ConstantsType DEF Since, SeqNum

LEMMA NextNumber ==
    ASSUME NEW s \in SeqNum, NEW n \in SeqNum, Since(s, n) + 1 < SeqMax
    PROVE  /\ Since(GenerateSeq(s), n) = Since(s, n) + 1
           /\ n # GenerateSeq(s)
BY ConstantsType DEF Since, SeqNum, GenerateSeq

(* A draw keeps what was drawn since a number was, the draw included, and  *)
(* does not meet a number that is in use.                                  *)
LEMMA DrawKeeps ==
    ASSUME Wide, TypeOK, seq' = GenerateSeq(seq), Load \in Nat \ {0}, Load' = Load - 1,
           NEW n \in SeqNum, Drawn(n) < SeqMax
    PROVE  Drawn(n)' = Drawn(n) /\ n # seq'
<1>1. Since(seq, n) \in Nat /\ Since(seq, n) + 1 < SeqMax
  BY SinceType, ConstantsType DEF TypeOK, Drawn
<1>2. Since(seq', n) = Since(seq, n) + 1 /\ n # seq'
  BY <1>1, NextNumber DEF TypeOK
<1> QED
  BY <1>1, <1>2 DEF Drawn

LEMMA RoomTypes ==
    ASSUME Wide, TypeOK
    PROVE  /\ \A n \in SeqNum : Drawn(n) \in Nat
           /\ AfterSend \in Nat
           /\ \A i \in Nat : InQueue(i) \in Nat
           /\ \A n \in SeqNum : InTable(age[n]) \in Nat /\ InTable(age[n]) <= CmdTimeout + 1 + MaxStall
           /\ \A i \in DOMAIN queue : i \in Nat /\ queue[i].seq \in SeqNum
           /\ \A n \in Pending : n \in SeqNum
<1>1. \A n \in SeqNum : Drawn(n) \in Nat
  BY SinceType, LoadType DEF Drawn, TypeOK
<1>2. AfterSend \in Nat
  BY ConstantsType DEF AfterSend
<1>3. \A i \in Nat : InQueue(i) \in Nat
  <2>1. MaxStall - stall \in Nat /\ 2 * MaxStall - stall \in Nat
    BY ClocksType
  <2> QED
    BY <2>1 DEF InQueue
<1>4. ASSUME NEW n \in SeqNum PROVE InTable(age[n]) \in Nat /\ InTable(age[n]) <= CmdTimeout + 1 + MaxStall
  <2>1. age[n] \in Nat /\ age[n] <= CmdTimeout + 1
    BY ConstantsType DEF TypeOK
  <2> QED
    BY <2>1, ClocksType, ConstantsType DEF InTable
<1>5. \A i \in DOMAIN queue : i \in Nat /\ queue[i].seq \in SeqNum
  BY QueueElements DEF TypeOK
<1> QED
  BY <1>1, <1>2, <1>3, <1>4, <1>5 DEF Pending
LEMMA NoDraw ==
    ASSUME UNCHANGED <<seq, calls, beat>>
    PROVE  \A n : Drawn(n)' = Drawn(n)
BY DEF Drawn, Load, Idle

(* Every number in use was drawn recently.                                 *)
LEMMA UsesDrawn ==
    ASSUME Wide, TypeOK, NumbersInv, open
    PROVE  /\ \A i \in DOMAIN queue : Drawn(queue[i].seq) < SeqMax
           /\ \A n \in Pending : Drawn(n) < SeqMax
           /\ \A p \in requests \cup replies : Drawn(p.seq) < SeqMax
<1>1. QueueRoom /\ TableRoom /\ PacketRoom
  BY DEF NumbersInv
<1>2. \A i \in DOMAIN queue : Drawn(queue[i].seq) < SeqMax
  <2> SUFFICES ASSUME NEW i \in DOMAIN queue PROVE Drawn(queue[i].seq) < SeqMax
    OBVIOUS
  <2>1. Drawn(queue[i].seq) \in Nat /\ InQueue(i) \in Nat /\ AfterSend \in Nat
    BY RoomTypes
  <2> QED
    BY <1>1, <2>1, ConstantsType DEF QueueRoom
<1>3. \A n \in Pending : Drawn(n) < SeqMax
  <2> SUFFICES ASSUME NEW n \in Pending PROVE Drawn(n) < SeqMax
    OBVIOUS
  <2>1. Drawn(n) \in Nat /\ InTable(age[n]) \in Nat
    BY RoomTypes
  <2> QED
    BY <1>1, <2>1, ConstantsType DEF TableRoom
<1>4. \A p \in requests \cup replies : Drawn(p.seq) < SeqMax
  <2> SUFFICES ASSUME NEW p \in requests \cup replies PROVE Drawn(p.seq) < SeqMax
    OBVIOUS
  <2>1. Drawn(p.seq) \in Nat /\ p.life \in Nat
    BY RoomTypes, PacketFields DEF TypeOK
  <2> QED
    BY <1>1, <2>1, ConstantsType DEF PacketRoom
<1> QED
  BY <1>2, <1>3, <1>4

LEMMA NumbersInit == ASSUME Wide, Init PROVE NumbersInv
<1>1. queue = <<>> /\ requests = {} /\ replies = {} /\ \A n \in SeqNum : commands[n] = NoCmd
  BY DEF Init
<1>2. DOMAIN queue = {} /\ Pending = {}
  BY <1>1 DEF Pending
<1> QED
  BY <1>1, <1>2 DEF NumbersInv, QueueRoom, TableRoom, PacketRoom, QueueFresh

LEMMA SendCommandNumbers ==
    ASSUME Wide, TypeOK, TypeOK', NumbersInv, NEW c \in Cmd, SendCommand(c), open
    PROVE  NumbersInv'
<1>1. /\ calls[c] = "idle" /\ seq' = GenerateSeq(seq) /\ calls' = [calls EXCEPT ![c] = "accepted"]
      /\ queue' = Append(queue, [cmd |-> c, seq |-> seq'])
      /\ UNCHANGED <<due, commands, age, open, beat, stall, requests, replies>>
  BY DEF SendCommand, world
<1>2. Load \in Nat \ {0} /\ Load' = Load - 1 /\ Load' <= Cardinality(Cmd)
  <2>1. Idle' = Idle \ {c} /\ c \in Idle
    BY <1>1 DEF Idle, TypeOK
  <2>2. Cardinality(Idle') = Cardinality(Idle) - 1 /\ Cardinality(Idle') \in Nat
    BY <2>1, IdleFinite, FS_RemoveElement, FS_CardinalityType
  <2> QED
    BY <1>1, <2>2, IdleFinite DEF Load
<1>3. \A n \in SeqNum : Drawn(n) < SeqMax => Drawn(n)' = Drawn(n) /\ n # seq'
  BY <1>1, <1>2, DrawKeeps
<1>4. Pending' = Pending
  BY <1>1 DEF Pending
<1>5. \A n : Under(n)' = Under(n)
  BY <1>1 DEF Under
<1>6. \A i \in DOMAIN queue' : \/ i \in DOMAIN queue /\ queue'[i] = queue[i]
                               \/ i = Len(queue) + 1 /\ queue'[i].seq = seq'
  <2>1. [cmd |-> c, seq |-> seq'] \in Closure /\ queue \in Seq(Closure)
    BY DEF TypeOK, Closure
  <2> QED
    BY <1>1, <2>1, AppendElements
<1>7. \A i : InQueue(i)' = InQueue(i)
  BY <1>1 DEF InQueue
<1>8. QueueRoom /\ TableRoom /\ PacketRoom /\ QueueFresh
  BY DEF NumbersInv
<1>9. QueueRoom'
  <2> SUFFICES ASSUME NEW i \in DOMAIN queue'
               PROVE  Drawn(queue[i].seq)' + InQueue(i)' + AfterSend < SeqMax
    BY DEF QueueRoom, AfterSend
  <2>1. CASE i \in DOMAIN queue /\ queue'[i] = queue[i]
    <3>1. queue[i].seq \in SeqNum /\ Drawn(queue[i].seq) < SeqMax
      BY <2>1, RoomTypes, UsesDrawn
    <3>2. Drawn(queue[i].seq)' = Drawn(queue[i].seq)
      BY <1>3, <2>1, <3>1 DEF Drawn
    <3> QED
      BY <1>7, <1>8, <2>1, <3>2 DEF QueueRoom
  <2>2. CASE i = Len(queue) + 1 /\ queue'[i].seq = seq'
    <3>1. Drawn(queue[i].seq)' = Load'
      BY <2>2, NewNumber, <1>2, SMTT(30) DEF Drawn, TypeOK
    <3>2. InQueue(i)' <= 2 * MaxStall /\ InQueue(i)' \in Int
      <4>1. i \in Nat /\ due \in Nat
        BY <2>2 DEF TypeOK
      <4> QED
        BY <1>7, <4>1, ClocksType DEF InQueue
    <3> QED
      BY <1>2, <3>1, <3>2, RoomTypes, IdleFinite, ConstantsType DEF Wide
  <2> QED
    BY <1>6, <2>1, <2>2
<1>10. TableRoom'
  <2> SUFFICES ASSUME NEW n \in Pending PROVE Drawn(n)' + InTable(age[n]) < SeqMax
    BY <1>1, <1>4 DEF TableRoom, InTable
  <2>1. n \in SeqNum /\ Drawn(n) < SeqMax
    BY RoomTypes, UsesDrawn
  <2> QED
    BY <1>3, <1>8, <2>1 DEF TableRoom
<1>11. PacketRoom'
  <2>1. \A p \in requests \cup replies : Drawn(p.seq)' = Drawn(p.seq)
    <3> SUFFICES ASSUME NEW p \in requests \cup replies PROVE Drawn(p.seq)' = Drawn(p.seq)
      OBVIOUS
    <3>1. p.seq \in SeqNum /\ Drawn(p.seq) < SeqMax
      BY UsesDrawn, PacketFields DEF TypeOK
    <3> QED
      BY <1>3, <3>1
  <2> QED
    BY <1>1, <1>8, <2>1 DEF PacketRoom
<1>12. /\ seq' \notin Pending /\ Under(seq') = {}
       /\ \A i \in DOMAIN queue : queue[i].seq # seq'
  <2>1. \A n \in Pending : n # seq'
    BY <1>3, RoomTypes, UsesDrawn
  <2>2. \A p \in requests \cup replies : p.seq # seq'
    BY <1>3, UsesDrawn, PacketFields DEF TypeOK
  <2>3. \A i \in DOMAIN queue : queue[i].seq # seq'
    BY <1>3, RoomTypes, UsesDrawn
  <2> QED
    BY <2>1, <2>2, <2>3 DEF Under
<1>13. QueueFresh'
  <2> SUFFICES ASSUME NEW i \in DOMAIN queue'
               PROVE  /\ queue'[i].seq \notin Pending
                      /\ Under(queue'[i].seq) = {}
                      /\ \A j \in DOMAIN queue' : queue'[j].seq = queue'[i].seq => j = i
    BY <1>1, <1>4 DEF QueueFresh, Under
  <2>1. CASE i \in DOMAIN queue /\ queue'[i] = queue[i]
    BY <1>6, <1>8, <1>12, <2>1 DEF QueueFresh
  <2>2. CASE i = Len(queue) + 1 /\ queue'[i].seq = seq'
    BY <1>6, <1>12, <2>2
  <2> QED
    BY <1>6, <2>1, <2>2
<1> QED
  BY <1>9, <1>10, <1>11, <1>13 DEF NumbersInv
LEMMA SendNumbers ==
    ASSUME Wide, TypeOK, TypeOK', NumbersInv, Send
    PROVE  NumbersInv'
<1> PICK c \in Cmd, n \in SeqNum : c = Head(queue).cmd /\ n = Head(queue).seq
  BY NextClosureType DEF Send, Closure
<1>1. /\ open /\ NextClosure /\ UNCHANGED <<seq, open, beat, stall, calls, replies>>
      /\ commands' = [commands EXCEPT ![n] = c] /\ age' = [age EXCEPT ![n] = 0]
      /\ \A p \in requests' : p \in requests \/ p = Pkt(c, n)
  BY DEF Send, ProtectorAlive, EnterCommand
<1>2. /\ 1 \in DOMAIN queue /\ queue[1].seq = n
      /\ \A i \in DOMAIN queue' :
            i + 1 \in DOMAIN queue /\ i + 1 # 1 /\ queue'[i] = queue[i + 1]
  BY <1>1, TailElements DEF TypeOK, NextClosure
<1>3. \A m : Drawn(m)' = Drawn(m)
  BY <1>1, NoDraw
<1>4. QueueRoom /\ TableRoom /\ PacketRoom /\ QueueFresh
  BY <1>1 DEF NumbersInv
<1>5. Drawn(n) \in Nat /\ Drawn(n) + AfterSend < SeqMax
  <2>1. Drawn(n) + InQueue(1) + AfterSend < SeqMax
    BY <1>2, <1>4 DEF QueueRoom
  <2>2. Drawn(n) \in Nat /\ InQueue(1) \in Nat /\ AfterSend \in Nat
    BY RoomTypes
  <2> QED
    BY <2>1, <2>2, ConstantsType
<1>6. \A m \in SeqNum : commands'[m] = IF m = n THEN c ELSE commands[m]
  BY <1>1 DEF TypeOK
<1>7. Pending' = Pending \cup {n} /\ \A m \in Pending : m # n => age'[m] = age[m]
  BY <1>1, <1>6, ChannelAssumption DEF Pending, TypeOK
<1>8. age'[n] = 0
  BY <1>1 DEF TypeOK
<1>9. QueueRoom'
  <2> SUFFICES ASSUME NEW i \in DOMAIN queue'
               PROVE  Drawn(queue[i].seq)' + InQueue(i)' + AfterSend < SeqMax
    BY DEF QueueRoom, AfterSend
  <2>1. Drawn(queue[i].seq)' = Drawn(queue[i + 1].seq)
    BY <1>1, <1>2 DEF Drawn, Load, Idle
  <2>2. InQueue(i)' = InQueue(i + 1)
    <3>1. i \in Nat /\ i >= 1 /\ due \in Nat
      <4>1. queue' \in Seq(Closure) /\ due \in 0..Len(queue) /\ Len(queue) \in Nat
        BY DEF TypeOK
      <4> QED
        BY <4>1
    <3>2. due' = IF due > 0 THEN due - 1 ELSE 0
      BY <1>1 DEF NextClosure
    <3> QED
      BY <1>1, <3>1, <3>2 DEF InQueue
  <2> QED
    BY <1>2, <1>4, <2>1, <2>2 DEF QueueRoom
<1>10. TableRoom'
  <2> SUFFICES ASSUME NEW m \in Pending' PROVE Drawn(m)' + InTable(age'[m]) < SeqMax
    BY <1>1 DEF TableRoom, InTable
  <2>1. CASE m = n
    <3>1. InTable(age'[n]) = CmdTimeout + 1 - 0 + MaxStall
      BY <1>8, ConstantsType DEF InTable
    <3> QED
      BY <1>3, <1>5, <2>1, <3>1, ConstantsType DEF AfterSend
  <2>2. CASE m # n
    BY <1>3, <1>4, <1>7, <2>2 DEF TableRoom
  <2> QED
    BY <2>1, <2>2
<1>11. PacketRoom'
  <2>1. ASSUME NEW p \in requests' PROVE Drawn(p.seq)' + p.life + PacketLife < SeqMax
    <3>1. CASE p \in requests
      BY <1>3, <1>4, <3>1 DEF PacketRoom
    <3>2. CASE p = Pkt(c, n)
      BY <1>3, <1>5, <3>2, PktFields, ConstantsType DEF AfterSend
    <3> QED
      BY <1>1, <3>1, <3>2
  <2>2. \A p \in replies' : Drawn(p.seq)' + p.life < SeqMax
    BY <1>1, <1>3, <1>4 DEF PacketRoom
  <2> QED
    BY <2>1, <2>2 DEF PacketRoom
<1>12. QueueFresh'
  <2> SUFFICES ASSUME NEW i \in DOMAIN queue'
               PROVE  /\ queue'[i].seq \notin Pending'
                      /\ Under(queue[i].seq)' = {}
                      /\ \A j \in DOMAIN queue' : queue'[j].seq = queue'[i].seq => j = i
    BY DEF QueueFresh
  <2>1. i + 1 \in DOMAIN queue /\ queue'[i] = queue[i + 1] /\ queue[i + 1].seq # n
    BY <1>2, <1>4 DEF QueueFresh
  <2>2. queue'[i].seq \notin Pending'
    BY <1>4, <1>7, <2>1 DEF QueueFresh
  <2>3. Under(queue[i].seq)' = {}
    <3>1. Under(queue[i + 1].seq) = {}
      BY <1>4, <2>1 DEF QueueFresh
    <3>2. \A p \in requests' \cup replies' : p.seq # queue'[i].seq
      BY <1>1, <2>1, <3>1, PktFields DEF Under
    <3> QED
      BY <3>2 DEF Under
  <2>4. ASSUME NEW j \in DOMAIN queue', queue'[j].seq = queue'[i].seq PROVE j = i
    <3>1. j + 1 \in DOMAIN queue /\ queue'[j] = queue[j + 1]
      BY <1>2
    <3>2. j + 1 = i + 1
      BY <1>4, <2>1, <2>4, <3>1 DEF QueueFresh
    <3>3. i \in Nat /\ j \in Nat
      <4>1. queue' \in Seq(Closure)
        BY DEF TypeOK
      <4> QED
        BY <2>4, <4>1
    <3> QED
      BY <3>2, <3>3
  <2> QED
    BY <2>2, <2>3, <2>4
<1> QED
  BY <1>9, <1>10, <1>11, <1>12 DEF NumbersInv

LEMMA OnDataNumbers ==
    ASSUME Wide, TypeOK, NumbersInv, NEW p \in replies, OnData(p)
    PROVE  NumbersInv'
<1>1. /\ open /\ UNCHANGED <<seq, queue, due, open, beat, stall, calls, requests>>
      /\ replies' \subseteq replies
      /\ \/ UNCHANGED <<commands, age>>
         \/ /\ commands' = [commands EXCEPT ![p.seq] = NoCmd]
            /\ age' = [age EXCEPT ![p.seq] = 0]
  BY DEF OnData, Polling, EraseCommand
<1>2. QueueRoom /\ TableRoom /\ PacketRoom /\ QueueFresh
  BY <1>1 DEF NumbersInv
<1>3. \A m : Drawn(m)' = Drawn(m)
  BY <1>1, NoDraw
<1>4. Pending' \subseteq Pending /\ \A m \in Pending' : age'[m] = age[m]
  BY <1>1 DEF Pending, TypeOK
<1>5. QueueRoom'
  BY <1>1, <1>2, <1>3 DEF QueueRoom, InQueue, Drawn, Load, Idle
<1>6. TableRoom'
  <2> SUFFICES ASSUME NEW m \in Pending' PROVE Drawn(m)' + InTable(age'[m]) < SeqMax
    BY <1>1 DEF TableRoom, InTable
  <2> QED
    BY <1>2, <1>3, <1>4 DEF TableRoom
<1>7. PacketRoom'
  BY <1>1, <1>2, <1>3 DEF PacketRoom
<1>8. QueueFresh'
  BY <1>1, <1>2, <1>4 DEF QueueFresh, Under
<1> QED
  BY <1>5, <1>6, <1>7, <1>8 DEF NumbersInv

LEMMA DeviceReplyNumbers ==
    ASSUME Wide, TypeOK, NumbersInv, NEW p \in requests, DeviceReply(p)
    PROVE  NumbersInv'
<1>1. /\ UNCHANGED <<seq, queue, due, open, commands, age, beat, stall, calls>>
      /\ requests' \subseteq requests
      /\ replies' = replies \cup {Pkt(p.cmd, p.seq)}
  BY DEF DeviceReply, host
<1>2. \A m : Drawn(m)' = Drawn(m)
  BY <1>1, NoDraw
<1>3. Pending' = Pending
  BY <1>1 DEF Pending
<1> SUFFICES ASSUME open PROVE QueueRoom' /\ TableRoom' /\ PacketRoom' /\ QueueFresh'
  BY <1>1 DEF NumbersInv
<1>4. QueueRoom /\ TableRoom /\ PacketRoom /\ QueueFresh
  BY DEF NumbersInv
<1>5. QueueRoom'
  BY <1>1, <1>2, <1>4 DEF QueueRoom, InQueue, Drawn, Load, Idle
<1>6. TableRoom'
  BY <1>1, <1>2, <1>3, <1>4 DEF TableRoom, InTable
<1>7. PacketRoom'
  <2>1. p.life \in Nat /\ Drawn(p.seq) \in Nat
    BY RoomTypes, PacketFields DEF TypeOK
  <2>2. Drawn(p.seq) + p.life + PacketLife < SeqMax
    BY <1>4 DEF PacketRoom
  <2>3. Drawn(p.seq) + PacketLife < SeqMax
    BY <2>1, <2>2, ConstantsType
  <2> QED
    BY <1>1, <1>2, <1>4, <2>3, PktFields DEF PacketRoom
<1>8. QueueFresh'
  <2>1. \A m : Under(m) = {} => Under(m)' = {}
    BY <1>1, PktFields DEF Under
  <2> QED
    BY <1>1, <1>3, <1>4, <2>1 DEF QueueFresh, Under
<1> QED
  BY <1>5, <1>6, <1>7, <1>8
LEMMA HeartBeatNumbers ==
    ASSUME Wide, TypeOK, TypeOK', NumbersInv, OnTimer, HeartBeat
    PROVE  NumbersInv'
<1>1. /\ open /\ due = 0 /\ due' = Len(queue) /\ stall' = 0
      /\ UNCHANGED <<queue, calls, replies>>
  BY DEF OnTimer, Polling
<1>2. QueueRoom /\ TableRoom /\ PacketRoom /\ QueueFresh
  BY <1>1 DEF NumbersInv
<1>3. /\ \A n \in SeqNum : Drawn(n) < SeqMax => Drawn(n)' = Drawn(n)
      /\ \A p \in requests' \ requests :
            /\ Drawn(p.seq)' <= Cardinality(Cmd) /\ Drawn(p.seq)' \in Nat /\ p.life = PacketLife
            /\ \A n \in SeqNum : Drawn(n) < SeqMax => n # p.seq
  <2>1. CASE beat > HbPeriod
    <3>1. /\ beat' = 0 /\ seq' = GenerateSeq(seq)
          /\ \A p \in requests' \ requests : p = Pkt(NoCmd, seq')
      BY <2>1 DEF HeartBeat
    <3>2. Idle' = Idle
      BY <1>1 DEF Idle
    <3>3. Load \in Nat \ {0} /\ Load' = Load - 1 /\ Load' <= Cardinality(Cmd)
      BY <2>1, <3>1, <3>2, IdleFinite, ConstantsType DEF Load
    <3>4. \A n \in SeqNum : Drawn(n) < SeqMax => Drawn(n)' = Drawn(n) /\ n # seq'
      BY <3>1, <3>3, DrawKeeps
    <3>5. Since(seq', seq') = 0
      BY NewNumber DEF TypeOK
    <3>6. ASSUME NEW p \in requests' \ requests
          PROVE  /\ Drawn(p.seq)' <= Cardinality(Cmd) /\ Drawn(p.seq)' \in Nat
                 /\ p.life = PacketLife /\ p.seq = seq'
      <4>1. p.seq = seq' /\ p.life = PacketLife
        BY <3>1, PktFields
      <4>2. Drawn(p.seq)' = Since(seq', seq') + Load'
        BY <4>1 DEF Drawn
      <4> QED
        BY <3>3, <3>5, <4>1, <4>2
    <3> QED
      BY <3>4, <3>6
  <2>2. CASE ~(beat > HbPeriod)
    <3>1. UNCHANGED <<seq, calls, beat, requests>>
      BY <1>1, <2>2 DEF HeartBeat
    <3> QED
      BY <3>1, NoDraw
  <2> QED
    BY <2>1, <2>2
<1>4. Pending' \subseteq Pending
  BY DEF HeartBeat, Pending
<1>5. ASSUME NEW n \in Pending' PROVE age'[n] = age[n] /\ ~(age[n] > CmdTimeout)
  <2>1. n \in SeqNum /\ n \notin Expired /\ n \in Pending
    BY <1>4 DEF Pending, HeartBeat
  <2> QED
    BY <2>1 DEF HeartBeat, Expired
<1>6. QueueRoom'
  <2> SUFFICES ASSUME NEW i \in DOMAIN queue
               PROVE  Drawn(queue[i].seq)' + InQueue(i)' + AfterSend < SeqMax
    BY <1>1 DEF QueueRoom, AfterSend
  <2>1. Drawn(queue[i].seq)' = Drawn(queue[i].seq)
    BY <1>1, <1>3, RoomTypes, UsesDrawn DEF Drawn
  <2>2. InQueue(i)' <= InQueue(i) /\ InQueue(i)' \in Int /\ InQueue(i) \in Int
    <3>1. i \in Nat /\ i > 0 /\ i <= Len(queue)
      BY SMTT(30) DEF TypeOK
    <3> QED
      BY <1>1, <3>1, ClocksType DEF InQueue
  <2>3. Drawn(queue[i].seq) \in Nat /\ AfterSend \in Nat
    BY RoomTypes
  <2>4. Drawn(queue[i].seq) + InQueue(i) + AfterSend < SeqMax
    BY <1>2 DEF QueueRoom
  <2> QED
    BY <2>1, <2>2, <2>3, <2>4, ConstantsType
<1>7. TableRoom'
  <2> SUFFICES ASSUME NEW n \in Pending' PROVE Drawn(n)' + InTable(age[n])' < SeqMax
    BY DEF TableRoom
  <2>1. Drawn(n)' = Drawn(n)
    BY <1>1, <1>3, <1>4, RoomTypes, UsesDrawn
  <2>2. InTable(age[n])' = InTable(age[n])
    BY <1>5 DEF InTable
  <2> QED
    BY <1>2, <1>4, <2>1, <2>2 DEF TableRoom
<1>8. \A p \in requests \cup replies : Drawn(p.seq)' = Drawn(p.seq)
  <2> SUFFICES ASSUME NEW p \in requests \cup replies PROVE Drawn(p.seq)' = Drawn(p.seq)
    OBVIOUS
  <2>1. p.seq \in SeqNum /\ Drawn(p.seq) < SeqMax
    BY <1>1, UsesDrawn, PacketFields DEF TypeOK
  <2> QED
    BY <1>3, <2>1
<1>9. PacketRoom'
  <2>1. ASSUME NEW p \in requests' PROVE Drawn(p.seq)' + p.life + PacketLife < SeqMax
    <3>1. CASE p \in requests
      BY <1>2, <1>8, <3>1 DEF PacketRoom
    <3>2. CASE p \notin requests
      <4>1. /\ Drawn(p.seq)' <= Cardinality(Cmd) /\ Drawn(p.seq)' \in Nat
            /\ p.life = PacketLife
        BY <1>3, <3>2
      <4> QED
        BY <4>1, IdleFinite, ConstantsType DEF Wide, AfterSend
    <3> QED
      BY <3>1, <3>2
  <2>2. \A p \in replies' : Drawn(p.seq)' + p.life < SeqMax
    BY <1>1, <1>2, <1>8 DEF PacketRoom
  <2> QED
    BY <2>1, <2>2 DEF PacketRoom
<1>10. QueueFresh'
  <2> SUFFICES ASSUME NEW i \in DOMAIN queue
               PROVE  queue[i].seq \notin Pending' /\ Under(queue[i].seq)' = {}
    BY <1>1, <1>2 DEF QueueFresh
  <2>1. queue[i].seq \in SeqNum /\ Drawn(queue[i].seq) < SeqMax
    BY <1>1, RoomTypes, UsesDrawn
  <2>2. \A p \in requests' \ requests : p.seq # queue[i].seq
    BY <1>3, <2>1
  <2>3. Under(queue[i].seq) = {} /\ queue[i].seq \notin Pending
    BY <1>2 DEF QueueFresh
  <2>4. \A p \in requests' \cup replies' : p.seq # queue[i].seq
    BY <1>1, <2>2, <2>3 DEF Under
  <2> QED
    BY <1>1, <1>4, <2>3, <2>4 DEF Under
<1> QED
  BY <1>6, <1>7, <1>9, <1>10 DEF NumbersInv

LEMMA TickNumbers ==
    ASSUME Wide, TypeOK, TypeOK', NumbersInv, Tick
    PROVE  NumbersInv'
<1>1. /\ open /\ stall' = stall + 1
      /\ requests' = Older(requests) /\ replies' = Older(replies)
      /\ UNCHANGED <<seq, queue, due, commands, open, calls>>
  BY DEF Tick
<1>2. QueueRoom /\ TableRoom /\ PacketRoom /\ QueueFresh
  BY <1>1 DEF NumbersInv
<1>3. \A n \in SeqNum : Drawn(n)' \in Nat /\ Drawn(n)' <= Drawn(n) + 1
  <2>1. Idle' = Idle
    BY <1>1 DEF Idle
  <2>2. Load' \in Nat /\ Load' <= Load + 1
    BY <2>1, IdleFinite DEF Load
  <2> QED
    <3>1. \A n \in SeqNum : Since(seq, n) \in Nat
      BY SinceType DEF TypeOK
    <3>2. \A n : Drawn(n) = Since(seq, n) + Load /\ Drawn(n)' = Since(seq, n) + Load'
      BY <1>1 DEF Drawn
    <3> QED
      BY <2>2, <3>1, <3>2, LoadType
<1>4. Pending' = Pending
  BY <1>1 DEF Pending
<1>5. QueueRoom'
  <2> SUFFICES ASSUME NEW i \in DOMAIN queue
               PROVE  Drawn(queue[i].seq)' + InQueue(i)' + AfterSend < SeqMax
    BY <1>1 DEF QueueRoom, AfterSend
  <2>1. /\ i \in Nat /\ queue[i].seq \in SeqNum /\ InQueue(i) \in Nat
        /\ AfterSend \in Nat /\ Drawn(queue[i].seq) \in Nat
    BY RoomTypes
  <2>2. Drawn(queue[i].seq)' \in Nat /\ Drawn(queue[i].seq)' <= Drawn(queue[i].seq) + 1
    BY <1>1, <1>3, <2>1 DEF Drawn
  <2>3. InQueue(i)' = InQueue(i) - 1
    BY <1>1, ClocksType DEF InQueue
  <2>4. Drawn(queue[i].seq) + InQueue(i) + AfterSend < SeqMax
    BY <1>2 DEF QueueRoom
  <2> QED
    BY <2>1, <2>2, <2>3, <2>4, ConstantsType
<1>6. TableRoom'
  <2> SUFFICES ASSUME NEW n \in Pending PROVE Drawn(n)' + InTable(age[n])' < SeqMax
    BY <1>4 DEF TableRoom
  <2>1. /\ n \in SeqNum /\ commands[n] # NoCmd /\ InTable(age[n]) \in Nat
        /\ Drawn(n) \in Nat
    BY RoomTypes DEF Pending
  <2>2. age[n] \in Nat /\ age[n] <= CmdTimeout + 1
    BY <2>1, ConstantsType DEF TypeOK
  <2>3. age'[n] = IF age[n] < CmdTimeout + 1 THEN age[n] + 1 ELSE age[n]
    BY <2>1 DEF Tick, Capped
  <2>4. InTable(age[n])' <= InTable(age[n]) - 1 /\ InTable(age[n])' \in Int
    BY <1>1, <2>2, <2>3, ClocksType, ConstantsType DEF InTable
  <2>5. Drawn(n) + InTable(age[n]) < SeqMax
    BY <1>2 DEF TableRoom
  <2> QED
    BY <1>3, <2>1, <2>4, <2>5, ConstantsType
<1>7. ASSUME NEW S \in SUBSET Packet, NEW p \in Older(S)
      PROVE  \E q \in S : /\ p.seq = q.seq /\ p.life = q.life - 1 /\ q.life \in Nat /\ q.seq \in SeqNum
                          /\ p.life \in Nat
  BY ConstantsType DEF Older, Packet
<1>8. PacketRoom'
  <2>1. ASSUME NEW p \in requests' PROVE Drawn(p.seq)' + p.life + PacketLife < SeqMax
    <3>1. PICK q \in requests : /\ p.seq = q.seq /\ p.life = q.life - 1
                                /\ q.life \in Nat /\ q.seq \in SeqNum /\ p.life \in Nat
      BY <1>1, <1>7 DEF TypeOK
    <3>2. Drawn(q.seq) + q.life + PacketLife < SeqMax /\ Drawn(q.seq) \in Nat
      BY <1>2, <3>1, RoomTypes DEF PacketRoom
    <3>3. Drawn(p.seq)' \in Nat /\ Drawn(p.seq)' <= Drawn(q.seq) + 1
      BY <1>3, <3>1
    <3> QED
      BY <3>1, <3>2, <3>3, ConstantsType
  <2>2. ASSUME NEW p \in replies' PROVE Drawn(p.seq)' + p.life < SeqMax
    <3>1. PICK q \in replies : /\ p.seq = q.seq /\ p.life = q.life - 1
                               /\ q.life \in Nat /\ q.seq \in SeqNum /\ p.life \in Nat
      BY <1>1, <1>7 DEF TypeOK
    <3>2. Drawn(q.seq) + q.life < SeqMax /\ Drawn(q.seq) \in Nat
      BY <1>2, <3>1, RoomTypes DEF PacketRoom
    <3>3. Drawn(p.seq)' \in Nat /\ Drawn(p.seq)' <= Drawn(q.seq) + 1
      BY <1>3, <3>1
    <3> QED
      BY <3>1, <3>2, <3>3, ConstantsType
  <2> QED
    BY <2>1, <2>2 DEF PacketRoom
<1>9. QueueFresh'
  <2>1. ASSUME NEW n, Under(n) = {} PROVE Under(n)' = {}
    <3>1. \A p \in requests' : \E q \in requests : p.seq = q.seq
      BY <1>1, OlderElement, ZenonT(30) DEF TypeOK
    <3>2. \A p \in replies' : \E q \in replies : p.seq = q.seq
      BY <1>1, OlderElement, ZenonT(30) DEF TypeOK
    <3> QED
      BY <2>1, <3>1, <3>2 DEF Under
  <2>2. \A n : Under(n) = {} => Under(n)' = {}
    BY <2>1
  <2> QED
    BY <1>1, <1>2, <1>4, <2>2 DEF QueueFresh, Under
<1> QED
  BY <1>5, <1>6, <1>8, <1>9 DEF NumbersInv
LEMMA NumbersHold ==
    ASSUME Wide, TypeOK, TypeOK', NumbersInv, [Next]_vars
    PROVE  NumbersInv'
<1>1. ASSUME NEW c \in Cmd, SendCommand(c) PROVE NumbersInv'
  <2>1. CASE open
    BY <1>1, <2>1, SendCommandNumbers
  <2>2. CASE ~open
    BY <1>1, <2>2 DEF SendCommand, NumbersInv
  <2> QED
    BY <2>1, <2>2
<1>2. CASE DropSend
  BY <1>2 DEF DropSend, ProtectorAlive, NumbersInv
<1>3. CASE Send
  BY <1>3, SendNumbers
<1>4. ASSUME NEW p \in replies, OnData(p) PROVE NumbersInv'
  BY <1>4, OnDataNumbers
<1>5. CASE OnTimer
  <2>1. CASE GiveUp
    BY <2>1 DEF GiveUp, NumbersInv
  <2> QED
    BY <1>5, <2>1, HeartBeatNumbers DEF OnTimer
<1>6. ASSUME NEW p \in requests, DeviceReply(p) PROVE NumbersInv'
  BY <1>6, DeviceReplyNumbers
<1>7. CASE Tick
  BY <1>7, TickNumbers
<1>8. CASE DeviceDies \/ UNCHANGED vars
  <2>1. UNCHANGED <<host, requests, replies>>
    BY <1>8 DEF DeviceDies, vars, world
  <2>2. \A n : Drawn(n)' = Drawn(n)
    BY <2>1, NoDraw DEF host
  <2> QED
    BY <2>1, <2>2 DEF host, NumbersInv, QueueRoom, TableRoom, PacketRoom, QueueFresh, Under,
       InQueue, InTable, Pending, Drawn, Load, Idle
<1> QED
  BY <1>1, <1>2, <1>3, <1>4, <1>5, <1>6, <1>7, <1>8 DEF Next

(* What the invariant says of the two places where a number is put to use: *)
(* Send enters commands_, and OnTimer draws the number of a heartbeat.     *)
LEMMA NumbersMean ==
    ASSUME Wide, TypeOK, NumbersInv
    PROVE  NumberFree /\ NumberOver
<1> SUFFICES ASSUME open
             PROVE  /\ queue # <<>> => /\ commands[Head(queue).seq] = NoCmd
                                       /\ Under(Head(queue).seq) = {}
                    /\ beat > HbPeriod => commands[GenerateSeq(seq)] = NoCmd
  BY DEF NumberFree, NumberOver
<1>1. ASSUME queue # <<>>
      PROVE  commands[Head(queue).seq] = NoCmd /\ Under(Head(queue).seq) = {}
  <2>1. 1 \in DOMAIN queue /\ Head(queue) = queue[1]
    BY <1>1, TailElements DEF TypeOK
  <2>2. queue[1].seq \in SeqNum
    BY <2>1, RoomTypes
  <2> QED
    BY <2>1, <2>2 DEF NumbersInv, QueueFresh, Pending
<1>2. ASSUME beat > HbPeriod, commands[GenerateSeq(seq)] # NoCmd
      PROVE  FALSE
  <2> PICK n \in SeqNum : n = GenerateSeq(seq)
    BY GenerateSeqType DEF TypeOK
  <2>1. n \in Pending
    BY <1>2 DEF Pending
  <2>2. Drawn(n) < SeqMax /\ Drawn(n) = Since(seq, n) + Load
    BY <2>1, UsesDrawn DEF Drawn
  <2>3. Load \in Nat /\ Load > 0
    BY <1>2, IdleFinite DEF Load
  <2>4. Since(seq, n) \in Nat
    BY SinceType DEF TypeOK
  <2>5. Since(seq, n) + 1 < SeqMax
    BY <2>2, <2>3, <2>4, ConstantsType
  <2> QED
    BY <2>5, NextNumber DEF TypeOK
<1> QED
  BY <1>1, <1>2

(* With numbers enough the counter comes round in time.                    *)
LEMMA NumbersAlways == ASSUME Wide PROVE Spec => [](NumberFree /\ NumberOver)
<1>1. Init => NumbersInv
  BY NumbersInit
<1>2. TypeOK /\ TypeOK' /\ NumbersInv /\ [Next]_vars => NumbersInv'
  BY NumbersHold
<1>3. TypeOK /\ NumbersInv => NumberFree /\ NumberOver
  BY NumbersMean
<1> QED
  BY <1>1, <1>2, <1>3, TypeCorrect, PTL DEF Spec

(* The channel implements CommandPromise, for any program that issues no   *)
(* more commands in its life than Wide allows and any behaviour of the     *)
(* wire: commands_ is a map, and no command is entered over another.       *)
THEOREM KeepsPromiseAlways == ASSUME Wide PROVE Spec => KeepsPromise
BY NumbersAlways, KeepsPromiseWhileFree, PTL

(* For such a program success means that the device executed the command,  *)
(* whatever the wire loses, duplicates, delays and reorders.               *)
THEOREM SuccessMeansExecutedAlways == ASSUME Wide PROVE Spec => []SuccessMeansExecuted
BY NumbersAlways, SuccessMeansExecutedWhileOver, PTL

(* And a device that answers over a wire that is reliable is never given   *)
(* up, if the limit of silence leaves time for a period of the heartbeat,  *)
(* a late timer and a round trip.                                          *)
THEOREM AnsweredDeviceKeptAlways == ASSUME Wide, Patient PROVE Spec => []AnsweredDeviceKept
BY NumbersAlways, AnsweredDeviceKeptWhileOver, PTL
=============================================================================
