--------------------------- MODULE Connection_proof ---------------------------
(***************************************************************************)
(* Theorems about Connection for every set of devices, every size of the   *)
(* handle table and every choice of the time bounds.                       *)
(***************************************************************************)
EXTENDS Connection, TLAPS

-----------------------------------------------------------------------------
(* Sequences.                                                              *)

LEMMA AppendType ==
    ASSUME NEW S, NEW q \in Seq(S), NEW e \in S
    PROVE  Append(q, e) \in Seq(S) /\ Len(Append(q, e)) = Len(q) + 1
OBVIOUS

LEMMA AppendElements ==
    ASSUME NEW S, NEW q \in Seq(S), NEW e \in S
    PROVE  /\ \A i \in DOMAIN q : Append(q, e)[i] = q[i]
           /\ Append(q, e)[Len(q) + 1] = e
           /\ \A i \in DOMAIN Append(q, e) : i \in DOMAIN q \/ i = Len(q) + 1
OBVIOUS

LEMMA TailType ==
    ASSUME NEW S, NEW q \in Seq(S), q # <<>>
    PROVE  /\ Tail(q) \in Seq(S) /\ Len(Tail(q)) = Len(q) - 1
           /\ \A i \in DOMAIN Tail(q) : i + 1 \in DOMAIN q /\ Tail(q)[i] = q[i + 1]
OBVIOUS

LEMMA UpdateType ==
    ASSUME NEW S, NEW q \in Seq(S), NEW i \in DOMAIN q, NEW e \in S
    PROVE  /\ [q EXCEPT ![i] = e] \in Seq(S)
           /\ Len([q EXCEPT ![i] = e]) = Len(q)
OBVIOUS

-----------------------------------------------------------------------------
(* The operators the actions are built from.                               *)

LEMMA CappedType ==
    ASSUME NEW b \in Nat, NEW n \in 0..b
    PROVE  Capped(n, b) \in 0..b /\ (n < b => Capped(n, b) = n + 1) /\ (n = b => Capped(n, b) = b)
BY DEF Capped

LEMMA UnexpiredType == ASSUME NEW S \in SUBSET Entry PROVE Unexpired(S) \in SUBSET S
BY DEF Unexpired

LEMMA NewEntryType ==
    ASSUME TypeOK, NEW h \in Handle, NEW sent \in BOOLEAN, portCount < MaxAttempts
    PROVE  NewEntry(h, sent) \in Entry
<1>1. portCount + 1 \in Port
  BY ConnectionAssumption DEF TypeOK, Port
<1>2. (IF sent THEN 0 ELSE ExpireTicks + 1) \in 0..ExpireTicks + 1
  BY ConnectionAssumption
<1> QED
  BY <1>1, <1>2 DEF NewEntry, Entry

LEMMA ChannelUpdateType ==
    ASSUME NEW c \in Channel
    PROVE  /\ [c EXCEPT !.asks = @ + 1] \in Channel /\ [c EXCEPT !.asks = @ + 1].port = c.port
           /\ [c EXCEPT !.silence = 0] \in Channel /\ [c EXCEPT !.silence = 0].port = c.port
           /\ c.asks > 0 => [c EXCEPT !.asks = @ - 1] \in Channel
           /\ [c EXCEPT !.asks = @ - 1].port = c.port
           /\ [c EXCEPT !.silence = Capped(@, HbLimit + 1)] \in Channel
           /\ [c EXCEPT !.silence = Capped(@, HbLimit + 1)].port = c.port
<1>1. /\ c.port \in Port /\ c.silence \in 0..HbLimit + 1 /\ c.asks \in Nat
      /\ c.bound \in BOOLEAN
      /\ c = [port |-> c.port, silence |-> c.silence, asks |-> c.asks, bound |-> c.bound]
  BY DEF Channel
<1>2. /\ c.asks + 1 \in Nat /\ 0 \in 0..HbLimit + 1
      /\ c.asks > 0 => c.asks - 1 \in Nat
      /\ Capped(c.silence, HbLimit + 1) \in 0..HbLimit + 1
  BY <1>1, ConnectionAssumption, CappedType
<1>3. [c EXCEPT !.asks = @ + 1] \in Channel
  BY <1>1, <1>2 DEF Channel
<1>4. [c EXCEPT !.silence = 0] \in Channel
  BY <1>1, <1>2 DEF Channel
<1>5. c.asks > 0 => [c EXCEPT !.asks = @ - 1] \in Channel
  BY <1>1, <1>2 DEF Channel
<1>6. [c EXCEPT !.silence = Capped(@, HbLimit + 1)] \in Channel
  BY <1>1, <1>2 DEF Channel
<1> QED
  BY <1>1, <1>3, <1>4, <1>5, <1>6

\* A query changes no session: same length, same ports, same silence.
LEMMA AskFirstType ==
    ASSUME NEW q \in Seq(Channel)
    PROVE  /\ AskFirst(q) \in Seq(Channel)
           /\ Len(AskFirst(q)) = Len(q)
           /\ \A i \in DOMAIN q : AskFirst(q)[i].port = q[i].port
<1>1. CASE q = <<>>
  BY <1>1 DEF AskFirst
<1>2. CASE q # <<>>
  <2>1. 1 \in DOMAIN q /\ q[1] \in Channel
    BY <1>2
  <2>2. /\ [q[1] EXCEPT !.asks = @ + 1] \in Channel
        /\ [q[1] EXCEPT !.asks = @ + 1].port = q[1].port
    BY <2>1, ChannelUpdateType
  <2>3. AskFirst(q) = [q EXCEPT ![1] = [q[1] EXCEPT !.asks = @ + 1]]
    BY <1>2, <2>1 DEF AskFirst
  <2>4. AskFirst(q) \in Seq(Channel) /\ Len(AskFirst(q)) = Len(q)
    BY <2>1, <2>2, <2>3, UpdateType
  <2>5. \A i \in DOMAIN q : AskFirst(q)[i].port = q[i].port
    BY <2>1, <2>2, <2>3
  <2> QED
    BY <2>4, <2>5
<1> QED
  BY <1>1, <1>2

-----------------------------------------------------------------------------
(* Every action changes the sessions of one handle, except Tick.           *)

\* What an update of one channel keeps.
SameSessions(p, q) ==
    /\ p \in Seq(Channel)
    /\ Len(p) = Len(q)
    /\ \A i \in DOMAIN q : p[i].port = q[i].port

LEMMA UpdateChannel ==
    ASSUME NEW q \in Seq(Channel), NEW i \in DOMAIN q, NEW c \in Channel,
           c.port = q[i].port
    PROVE  SameSessions([q EXCEPT ![i] = c], q)
BY UpdateType DEF SameSessions

LEMMA AckSessions ==
    ASSUME TypeOK, NEW h \in Handle, NEW i \in DOMAIN channels[h], OnHeartbeatAck(h, i)
    PROVE  /\ channels' = [channels EXCEPT ![h] = channels'[h]]
           /\ SameSessions(channels'[h], channels[h])
<1>1. channels[h] \in Seq(Channel) /\ channels[h][i] \in Channel
  BY DEF TypeOK
<1>2. channels' = [channels EXCEPT ![h] =
                     [channels[h] EXCEPT ![i] = [channels[h][i] EXCEPT !.silence = 0]]]
  BY DEF OnHeartbeatAck, TypeOK
<1> QED
  BY <1>1, <1>2, UpdateChannel, ChannelUpdateType DEF TypeOK

LEMMA SettledSessions ==
    ASSUME NEW q \in Seq(Channel), NEW i \in DOMAIN q, q[i].asks > 0
    PROVE  SameSessions(Settled(q, i), q)
<1> DEFINE c == [q[i] EXCEPT !.asks = @ - 1]
<1>1. q[i] \in Channel
  OBVIOUS
<1>2. c \in Channel /\ c.port = q[i].port
  BY <1>1, ChannelUpdateType
<1>3. Settled(q, i) = [q EXCEPT ![i] = c]
  BY DEF Settled
<1> HIDE DEF c
<1> QED
  BY <1>2, <1>3, UpdateChannel

LEMMA AnswerSessions ==
    ASSUME TypeOK, NEW h \in Handle, NEW i \in DOMAIN channels[h], QueryAnswered(h, i)
    PROVE  /\ channels' = [channels EXCEPT ![h] = channels'[h]]
           /\ SameSessions(channels'[h], channels[h])
<1>1. channels[h] \in Seq(Channel) /\ channels[h][i].asks > 0
  BY DEF TypeOK, QueryAnswered
<1>2. channels' = [channels EXCEPT ![h] = Settled(channels[h], i)]
  BY DEF QueryAnswered
<1> QED
  BY <1>1, <1>2, SettledSessions DEF TypeOK

LEMMA RetrySessions ==
    ASSUME NEW h \in Handle, NEW q \in Seq(Channel)
    PROVE  SameSessions(Retry(h, q), q)
<1>1. Retry(h, q) \in {q, AskFirst(q)}
  BY DEF Retry
<1> QED
  BY <1>1, AskFirstType DEF SameSessions

LEMMA TimeoutSessions ==
    ASSUME TypeOK, NEW h \in Handle, NEW i \in DOMAIN channels[h], QueryTimedOut(h, i)
    PROVE  /\ channels' = [channels EXCEPT ![h] = channels'[h]]
           /\ SameSessions(channels'[h], channels[h])
<1> DEFINE q == Settled(channels[h], i)
<1>1. channels[h] \in Seq(Channel) /\ channels[h][i].asks > 0
  BY DEF TypeOK, QueryTimedOut
<1>2. channels' = [channels EXCEPT ![h] = Retry(h, q)]
  BY DEF QueryTimedOut
<1>3. SameSessions(q, channels[h])
  BY <1>1, SettledSessions
<1> HIDE DEF q
<1>4. SameSessions(Retry(h, q), channels[h])
  <2>1. q \in Seq(Channel) /\ DOMAIN q = DOMAIN channels[h]
    BY <1>1, <1>3 DEF SameSessions
  <2>2. SameSessions(Retry(h, q), q)
    BY <2>1, RetrySessions
  <2> QED
    BY <1>3, <2>1, <2>2 DEF SameSessions
<1> QED
  BY <1>2, <1>4 DEF TypeOK

LEMMA TickSessions ==
    ASSUME TypeOK, Tick, NEW h \in Handle
    PROVE  SameSessions(channels'[h], channels[h])
<1> DEFINE older(c) == [c EXCEPT !.silence = Capped(@, HbLimit + 1)]
<1>1. channels[h] \in Seq(Channel) /\ Len(channels[h]) \in Nat
      /\ DOMAIN channels[h] = 1..Len(channels[h])
  BY DEF TypeOK
<1>2. channels'[h] = [i \in 1..Len(channels[h]) |-> older(channels[h][i])]
  BY <1>1 DEF Tick
<1>3. \A c \in Channel : older(c) \in Channel /\ older(c).port = c.port
  BY ChannelUpdateType
<1>4. \A i \in 1..Len(channels[h]) : channels[h][i] \in Channel
  BY <1>1
<1> HIDE DEF older
<1>5. channels'[h] \in [1..Len(channels[h]) -> Channel]
  BY <1>2, <1>3, <1>4
<1>6. channels'[h] \in Seq(Channel) /\ Len(channels'[h]) = Len(channels[h])
  BY <1>1, <1>5
<1> QED
  BY <1>1, <1>2, <1>3, <1>4, <1>6 DEF SameSessions

LEMMA NewChannelType ==
    ASSUME NEW port \in Port, NEW bound \in BOOLEAN
    PROVE  NewChannel(port, bound) \in Channel /\ NewChannel(port, bound).port = port
<1>1. 0 \in 0..HbLimit + 1
  BY ConnectionAssumption
<1> QED
  BY <1>1 DEF Channel, NewChannel

LEMMA FoundSessions ==
    ASSUME TypeOK, NEW h \in Handle, NEW port \in Port, NEW bound \in BOOLEAN,
           DeviceFound(h, port, bound)
    PROVE  /\ channels' = [channels EXCEPT ![h] = channels'[h]]
           /\ SameSessions(channels'[h], Append(channels[h], NewChannel(port, bound)))
<1> DEFINE c == NewChannel(port, bound)
<1>1. c \in Channel
  BY NewChannelType
<1>2. channels' = [channels EXCEPT ![h] = AskFirst(Append(channels[h], c))]
  BY DEF DeviceFound
<1>3. channels[h] \in Seq(Channel)
  BY DEF TypeOK
<1> HIDE DEF c
<1>4. Append(channels[h], c) \in Seq(Channel)
  BY <1>1, <1>3, AppendType
<1>5. SameSessions(AskFirst(Append(channels[h], c)), Append(channels[h], c))
  BY <1>4, AskFirstType DEF SameSessions
<1> QED
  BY <1>2, <1>5 DEF TypeOK, c

-----------------------------------------------------------------------------
(* Type correctness, one lemma per action that changes more than a flag.   *)

LEMMA BroadcastType ==
    ASSUME TypeOK, NEW d \in Device, OnBroadcast(d)
    PROVE  TypeOK'
<1> USE DEF TypeOK
<1>1. portCount' \in 0..MaxAttempts
  <2>1. portCount < MaxAttempts /\ (portCount' = portCount \/ portCount' = portCount + 1)
    BY DEF OnBroadcast, StartHandshake
  <2> QED
    BY <2>1, ConnectionAssumption
<1>2. connecting' \in SUBSET Entry
  <2>1. CASE UNCHANGED connecting
    BY <2>1
  <2>2. CASE connecting' = Unexpired(connecting)
    BY <2>2, UnexpiredType
  <2>3. CASE \E h \in Handle, sent \in BOOLEAN :
               connecting' = Unexpired(connecting) \cup {NewEntry(h, sent)}
    <3>1. PICK h \in Handle, sent \in BOOLEAN :
               connecting' = Unexpired(connecting) \cup {NewEntry(h, sent)}
      BY <2>3
    <3>2. NewEntry(h, sent) \in Entry
      BY NewEntryType DEF OnBroadcast
    <3> QED
      BY <3>1, <3>2, UnexpiredType
  <2> QED
    BY <2>1, <2>2, <2>3 DEF OnBroadcast, StartHandshake
<1>3. \A b \in Device : BroadcastGap[b] \in Nat /\ 0 <= BroadcastGap[b]
  BY ConnectionAssumption
<1>4. /\ sinceSeen' \in [Device -> Nat]
      /\ \A b \in Device : sinceSeen'[b] <= BroadcastGap[b]
  BY <1>3 DEF OnBroadcast, TypeOK
<1> QED
  BY <1>1, <1>2, <1>4 DEF OnBroadcast

LEMMA HandshakeType ==
    ASSUME TypeOK, NEW e \in connecting, NEW ok \in BOOLEAN, NEW bound \in BOOLEAN,
           OnHandshakeAck(e, ok, bound)
    PROVE  TypeOK'
<1>1. e.handle \in Handle /\ e.port \in Port /\ connecting' \in SUBSET Entry
  BY DEF TypeOK, Entry, OnHandshakeAck
<1>2. CASE ok
  <2>1. DeviceFound(e.handle, e.port, bound)
    BY <1>2 DEF OnHandshakeAck
  <2>2. channels' \in [Handle -> Seq(Channel)]
    <3>1. /\ channels' = [channels EXCEPT ![e.handle] = channels'[e.handle]]
          /\ channels'[e.handle] \in Seq(Channel)
      BY <1>1, <2>1, FoundSessions DEF SameSessions
    <3> QED
      BY <1>1, <3>1 DEF TypeOK
  <2>3. Append(threads[e.handle], e.port) \in Seq(Port)
    BY <1>1, AppendType DEF TypeOK
  <2>4. threads' \in [Handle -> Seq(Port)] /\ connected' \in [Handle -> BOOLEAN]
    BY <1>1, <2>1, <2>3 DEF DeviceFound, TypeOK
  <2> QED
    BY <1>1, <2>2, <2>4 DEF OnHandshakeAck, TypeOK
<1>3. CASE ~ok
  BY <1>1, <1>3 DEF OnHandshakeAck, TypeOK
<1> QED
  BY <1>2, <1>3

LEMMA GiveUpType ==
    ASSUME TypeOK, NEW h \in Handle, NEW i \in DOMAIN channels[h], ChannelOnTimer(h, i)
    PROVE  TypeOK'
<1> USE DEF TypeOK
<1>1. channels[h] \in Seq(Channel) /\ channels[h] # <<>>
  OBVIOUS
<1>2. Tail(channels[h]) \in Seq(Channel)
  BY <1>1, TailType
<1>3. StopThread(threads[h]) \in Seq(Port)
  BY TailType DEF StopThread
<1> QED
  BY <1>2, <1>3 DEF ChannelOnTimer

LEMMA TickType ==
    ASSUME TypeOK, Tick
    PROVE  TypeOK'
<1>1. connecting' \in SUBSET Entry
  <2>1. ASSUME NEW e \in Entry
        PROVE  [e EXCEPT !.age = Capped(@, ExpireTicks + 1)] \in Entry
    <3>1. /\ e.age \in 0..ExpireTicks + 1
          /\ e = [handle |-> e.handle, port |-> e.port, age |-> e.age, sent |-> e.sent]
      BY DEF Entry
    <3>2. Capped(e.age, ExpireTicks + 1) \in 0..ExpireTicks + 1
      BY <3>1, CappedType, ConnectionAssumption
    <3> QED
      BY <3>2 DEF Entry
  <2> QED
    BY <2>1 DEF Tick, TypeOK
<1>2. channels' \in [Handle -> Seq(Channel)]
  <2>1. \A h \in Handle : channels'[h] \in Seq(Channel)
    BY TickSessions DEF SameSessions
  <2>2. channels' = [h \in Handle |-> channels'[h]]
    BY DEF Tick
  <2> QED
    BY <2>1, <2>2
<1>3. ASSUME NEW d \in Device
      PROVE  /\ Capped(sinceSeen[d], BroadcastGap[d]) \in Nat
             /\ Capped(sinceSeen[d], BroadcastGap[d]) <= BroadcastGap[d]
  <2>1. BroadcastGap[d] \in Nat /\ sinceSeen[d] \in 0..BroadcastGap[d]
    BY ConnectionAssumption DEF TypeOK
  <2> QED
    BY <2>1, CappedType
<1>4. /\ sinceSeen' \in [Device -> Nat]
      /\ \A d \in Device : sinceSeen'[d] <= BroadcastGap[d]
  BY <1>3 DEF Tick
<1> QED
  BY <1>1, <1>2, <1>4 DEF Tick, TypeOK

LEMMA TypeStep ==
    ASSUME TypeOK, [Next]_vars
    PROVE  TypeOK'
<1>1. CASE \E d \in Device : AddLidarToConnect(d)
  BY <1>1 DEF AddLidarToConnect, TypeOK
<1>2. CASE \E d \in Device : OnBroadcast(d)
  BY <1>2, BroadcastType
<1>3. CASE \E d \in Device : SwitchDevice(d)
  BY <1>3 DEF SwitchDevice, TypeOK
<1>4. CASE DiscoveryOnTimer
  BY <1>4, UnexpiredType DEF DiscoveryOnTimer, TypeOK
<1>5. CASE \E e \in connecting, ok, bound \in BOOLEAN : OnHandshakeAck(e, ok, bound)
  BY <1>5, HandshakeType
<1>6. CASE \E h \in Handle : \E i \in DOMAIN channels[h] : OnHeartbeatAck(h, i)
  BY <1>6, AckSessions DEF SameSessions, OnHeartbeatAck, TypeOK
<1>7. CASE \E h \in Handle : \E i \in DOMAIN channels[h] : QueryAnswered(h, i)
  BY <1>7, AnswerSessions DEF SameSessions, QueryAnswered, TypeOK
<1>8. CASE \E h \in Handle : \E i \in DOMAIN channels[h] : QueryTimedOut(h, i)
  BY <1>8, TimeoutSessions DEF SameSessions, QueryTimedOut, TypeOK
<1>9. CASE \E h \in Handle : \E i \in DOMAIN channels[h] : ChannelOnTimer(h, i)
  BY <1>9, GiveUpType
<1>10. CASE Tick
  BY <1>10, TickType
<1>11. CASE UNCHANGED vars
  BY <1>11 DEF vars, TypeOK
<1> QED
  BY <1>1, <1>2, <1>3, <1>4, <1>5, <1>6, <1>7, <1>8, <1>9, <1>10, <1>11 DEF Next

\* Every variable keeps its type, whatever the devices and the bounds.
THEOREM TypeCorrect == Spec => []TypeOK
<1>1. Init => TypeOK
  <2>1. /\ BroadcastGap \in [Device -> Nat] /\ 0 \in 0..MaxAttempts
        /\ \A d \in Device : BroadcastGap[d] <= BroadcastGap[d]
    BY ConnectionAssumption
  <2> QED
    BY <2>1 DEF Init, TypeOK
<1>2. TypeOK /\ [Next]_vars => TypeOK'
  BY TypeStep
<1> QED
  BY <1>1, <1>2, PTL DEF Spec

-----------------------------------------------------------------------------
(* SessionsPaired is inductive, given the types.                           *)

\* The part of SessionsPaired that is about one handle's two lists.
Paired(ts, cs) == Len(ts) = Len(cs) /\ \A i \in DOMAIN cs : ts[i] = cs[i].port

LEMMA PairedSame ==
    ASSUME NEW ts \in Seq(Port), NEW cs \in Seq(Channel), NEW p,
           Paired(ts, cs), SameSessions(p, cs)
    PROVE  Paired(ts, p) /\ (cs # <<>> => p # <<>>)
BY DEF Paired, SameSessions

LEMMA PairedAppend ==
    ASSUME NEW ts \in Seq(Port), NEW cs \in Seq(Channel), NEW c \in Channel,
           Paired(ts, cs)
    PROVE  Paired(Append(ts, c.port), Append(cs, c)) /\ Append(cs, c) # <<>>
<1>1. c.port \in Port
  BY DEF Channel
<1>2. Len(Append(ts, c.port)) = Len(Append(cs, c)) /\ Len(Append(cs, c)) > 0
  BY <1>1, AppendType DEF Paired
<1>3. \A i \in DOMAIN cs : i \in DOMAIN ts /\ ts[i] = cs[i].port
  BY DEF Paired
<1>4. \A i \in DOMAIN Append(cs, c) : Append(ts, c.port)[i] = Append(cs, c)[i].port
  BY <1>1, <1>3, AppendElements DEF Paired
<1> QED
  BY <1>2, <1>4 DEF Paired

LEMMA PairedTail ==
    ASSUME NEW ts \in Seq(Port), NEW cs \in Seq(Channel), cs # <<>>, Paired(ts, cs)
    PROVE  Paired(StopThread(ts), Tail(cs))
<1>1. ts # <<>> /\ StopThread(ts) = Tail(ts)
  BY DEF Paired, StopThread
<1>2. Len(Tail(ts)) = Len(Tail(cs))
  BY <1>1, TailType DEF Paired
<1>3. \A i \in DOMAIN Tail(cs) : Tail(ts)[i] = Tail(cs)[i].port
  BY <1>1, <1>2, TailType DEF Paired
<1> QED
  BY <1>1, <1>2, <1>3 DEF Paired

LEMMA FoundPaired ==
    ASSUME TypeOK, SessionsPaired, NEW h \in Handle, NEW port \in Port,
           NEW bound \in BOOLEAN, DeviceFound(h, port, bound)
    PROVE  SessionsPaired'
<1> DEFINE c == NewChannel(port, bound)
<1>2. c \in Channel /\ c.port = port
  BY NewChannelType
<1>3. channels[h] \in Seq(Channel) /\ threads[h] \in Seq(Port)
  BY DEF TypeOK
<1>4. /\ channels' = [channels EXCEPT ![h] = channels'[h]]
      /\ SameSessions(channels'[h], Append(channels[h], c))
  BY FoundSessions
<1> HIDE DEF c
<1>5. Paired(threads[h], channels[h])
  BY DEF SessionsPaired, Paired
<1>6. Paired(Append(threads[h], port), Append(channels[h], c)) /\ Append(channels[h], c) # <<>>
  BY <1>2, <1>3, <1>5, PairedAppend
<1>7. Append(threads[h], port) \in Seq(Port) /\ Append(channels[h], c) \in Seq(Channel)
  BY <1>2, <1>3, AppendType
<1>8. Paired(Append(threads[h], port), channels'[h]) /\ channels'[h] # <<>>
  BY <1>4, <1>6, <1>7, PairedSame
<1>9. threads' = [threads EXCEPT ![h] = Append(threads[h], port)]
  BY DEF DeviceFound
<1>10. Paired(threads'[h], channels'[h])
  BY <1>8, <1>9 DEF TypeOK
<1> QED
  BY <1>4, <1>8, <1>9, <1>10 DEF DeviceFound, SessionsPaired, Paired, TypeOK

LEMMA GiveUpPaired ==
    ASSUME TypeOK, SessionsPaired, NEW h \in Handle, NEW i \in DOMAIN channels[h],
           ChannelOnTimer(h, i)
    PROVE  SessionsPaired'
<1>1. channels[h] \in Seq(Channel) /\ channels[h] # <<>> /\ threads[h] \in Seq(Port)
  BY DEF TypeOK
<1>2. Paired(threads[h], channels[h])
  BY DEF SessionsPaired, Paired
<1>3. Paired(StopThread(threads[h]), Tail(channels[h]))
  BY <1>1, <1>2, PairedTail
<1>4. /\ channels' = [channels EXCEPT ![h] = Tail(channels[h])]
      /\ threads' = [threads EXCEPT ![h] = StopThread(threads[h])]
      /\ connected' = [connected EXCEPT ![h] = FALSE]
  BY DEF ChannelOnTimer
<1> QED
  BY <1>3, <1>4 DEF SessionsPaired, Paired, TypeOK

\* An action that updates channels of one handle and no other list.
LEMMA UpdatePaired ==
    ASSUME TypeOK, SessionsPaired, NEW h \in Handle,
           channels' = [channels EXCEPT ![h] = channels'[h]],
           SameSessions(channels'[h], channels[h]),
           UNCHANGED <<threads, connected>>
    PROVE  SessionsPaired'
<1>1. channels[h] \in Seq(Channel) /\ threads[h] \in Seq(Port) /\ Paired(threads[h], channels[h])
  BY DEF TypeOK, SessionsPaired, Paired
<1>2. Paired(threads[h], channels'[h]) /\ (channels[h] # <<>> => channels'[h] # <<>>)
  BY <1>1, PairedSame
<1>3. \A g \in Handle : g = h \/ channels'[g] = channels[g]
  BY DEF TypeOK
<1>4. ASSUME NEW g \in Handle
      PROVE  Paired(threads[g], channels'[g]) /\ (connected[g] => channels'[g] # <<>>)
  BY <1>2, <1>3, <1>4 DEF SessionsPaired, Paired
<1> QED
  BY <1>4 DEF SessionsPaired, Paired

LEMMA TickPaired ==
    ASSUME TypeOK, SessionsPaired, Tick
    PROVE  SessionsPaired'
<1>1. ASSUME NEW h \in Handle
      PROVE  Paired(threads[h], channels'[h]) /\ (channels[h] # <<>> => channels'[h] # <<>>)
  <2>1. /\ channels[h] \in Seq(Channel) /\ threads[h] \in Seq(Port)
        /\ Paired(threads[h], channels[h])
    BY DEF TypeOK, SessionsPaired, Paired
  <2> QED
    BY <2>1, PairedSame, TickSessions
<1> QED
  BY <1>1 DEF Tick, SessionsPaired, Paired

LEMMA PairedStep ==
    ASSUME TypeOK, SessionsPaired, [Next]_vars
    PROVE  SessionsPaired'
<1>1. CASE \E d \in Device : AddLidarToConnect(d)
  BY <1>1 DEF AddLidarToConnect, SessionsPaired, TypeOK
<1>2. CASE UNCHANGED <<channels, threads, connected>>
  BY <1>2 DEF SessionsPaired
<1>3. CASE \E d \in Device : OnBroadcast(d) \/ SwitchDevice(d)
  BY <1>2, <1>3 DEF OnBroadcast, SwitchDevice
<1>4. CASE DiscoveryOnTimer
  BY <1>2, <1>4 DEF DiscoveryOnTimer
<1>5. ASSUME NEW e \in connecting, NEW ok \in BOOLEAN, NEW bound \in BOOLEAN,
           OnHandshakeAck(e, ok, bound)
      PROVE  SessionsPaired'
  <2>1. e.handle \in Handle /\ e.port \in Port
    BY DEF TypeOK, Entry
  <2>2. CASE ok
    BY <1>5, <2>1, <2>2, FoundPaired DEF OnHandshakeAck
  <2>3. CASE ~ok
    BY <1>2, <1>5, <2>3 DEF OnHandshakeAck
  <2> QED
    BY <2>2, <2>3
<1>6. ASSUME NEW h \in Handle, NEW i \in DOMAIN channels[h], OnHeartbeatAck(h, i)
      PROVE  SessionsPaired'
  BY <1>6, AckSessions, UpdatePaired DEF OnHeartbeatAck
<1>7. ASSUME NEW h \in Handle, NEW i \in DOMAIN channels[h], QueryAnswered(h, i)
      PROVE  SessionsPaired'
  BY <1>7, AnswerSessions, UpdatePaired DEF QueryAnswered
<1>8. ASSUME NEW h \in Handle, NEW i \in DOMAIN channels[h], QueryTimedOut(h, i)
      PROVE  SessionsPaired'
  BY <1>8, TimeoutSessions, UpdatePaired DEF QueryTimedOut
<1>9. ASSUME NEW h \in Handle, NEW i \in DOMAIN channels[h], ChannelOnTimer(h, i)
      PROVE  SessionsPaired'
  BY <1>9, GiveUpPaired
<1>10. CASE Tick
  BY <1>10, TickPaired
<1> QED
  BY <1>1, <1>2, <1>3, <1>4, <1>5, <1>6, <1>7, <1>8, <1>9, <1>10 DEF Next, vars

\* The channels and the data threads of a handle stay paired by the session
\* that made them, however broadcasts and acknowledgements interleave.
THEOREM SessionsPairedAlways == Spec => []SessionsPaired
<1>1. Init => SessionsPaired
  BY DEF Init, SessionsPaired
<1>2. SessionsPaired /\ TypeOK /\ [Next]_vars => SessionsPaired'
  BY PairedStep
<1> QED
  BY <1>1, <1>2, TypeCorrect, PTL DEF Spec

-----------------------------------------------------------------------------
(* OneSession is not inductive: that no second handshake starts while one  *)
(* is under way rests on the clocks.  An entry that has not expired is at  *)
(* least as old as the last broadcast of its device, so when the next one  *)
(* comes, more than ExpireTicks later, the entry is swept first.           *)

HandshakesHeld ==
    \A e \in connecting :
        /\ code[e.handle] \in Device
        /\ e.age > ExpireTicks \/ e.age >= sinceSeen[code[e.handle]]

UnknownUnconnected == \A h \in Handle : code[h] = NoDevice => ~connected[h]

OInv == TypeOK /\ OneSession /\ HandshakesHeld /\ UnknownUnconnected

\* OneSession, by its two parts.
OneChannel ==
    \A h \in Handle : Spaced(h) => Len(channels[h]) = (IF connected[h] THEN 1 ELSE 0)

OneHandshake ==
    \A e, f \in connecting :
        e.handle = f.handle /\ Spaced(e.handle) => e = f /\ ~connected[e.handle]

LEMMA OneSessionParts ==
    ASSUME TypeOK
    PROVE  OneSession <=> OneChannel /\ OneHandshake
<1>1. \A e \in connecting : e.handle \in Handle
  BY DEF TypeOK, Entry
<1> QED
  BY <1>1 DEF OneSession, OneChannel, OneHandshake

LEMMA AddOne ==
    ASSUME OInv, NEW d \in Device, AddLidarToConnect(d)
    PROVE  OneChannel' /\ OneHandshake' /\ HandshakesHeld' /\ UnknownUnconnected'
<1> USE OneSessionParts DEF OInv
<1>1. PICK h \in Handle :
         /\ code[h] = NoDevice
         /\ code' = [code EXCEPT ![h] = d]
         /\ connected' = [connected EXCEPT ![h] = FALSE]
         /\ UNCHANGED <<connecting, channels, sinceSeen>>
  BY DEF AddLidarToConnect
<1>2. connected' = connected
  BY <1>1 DEF UnknownUnconnected, TypeOK
<1>3. \A e \in connecting : e.handle \in Handle /\ e.handle # h
  BY <1>1, ConnectionAssumption DEF HandshakesHeld, TypeOK, Entry
<1>4. HandshakesHeld'
  BY <1>1, <1>3 DEF HandshakesHeld, TypeOK
<1>5. UnknownUnconnected'
  BY <1>1, <1>2, ConnectionAssumption DEF UnknownUnconnected, TypeOK
<1>6. \A g \in Handle : Spaced(g)' => Spaced(g)
  BY <1>1, ConnectionAssumption DEF Spaced, TypeOK
<1>7. OneChannel'
  BY <1>1, <1>2, <1>6 DEF OneChannel
<1>8. OneHandshake'
  BY <1>1, <1>2, <1>3, <1>6 DEF OneHandshake
<1> QED
  BY <1>4, <1>5, <1>7, <1>8

LEMMA BroadcastOne ==
    ASSUME OInv, NEW d \in Device, OnBroadcast(d)
    PROVE  OneChannel' /\ OneHandshake' /\ HandshakesHeld' /\ UnknownUnconnected'
<1> USE OneSessionParts DEF OInv
<1>1. /\ UNCHANGED <<code, connected, channels>>
      /\ sinceSeen' = [sinceSeen EXCEPT ![d] = 0]
      /\ sinceSeen[d] >= BroadcastGap[d]
  BY DEF OnBroadcast
<1>2. OneChannel' /\ UnknownUnconnected'
  BY <1>1 DEF OneChannel, UnknownUnconnected, Spaced
<1>3. \A e \in connecting :
         e.handle \in Handle /\ e.age \in Nat /\ code[e.handle] \in Device
  BY ConnectionAssumption DEF HandshakesHeld, TypeOK, Entry
<1>4. ASSUME NEW e \in connecting
      PROVE  e.age > ExpireTicks \/ e.age >= sinceSeen'[code[e.handle]]
  BY <1>1, <1>3 DEF HandshakesHeld, TypeOK
<1>5. ASSUME connecting' \in SUBSET connecting
      PROVE  OneHandshake' /\ HandshakesHeld'
  <2>1. \A e \in connecting' : e \in connecting
    BY <1>5
  <2>2. OneHandshake'
    BY <1>1, <2>1 DEF OneHandshake, Spaced
  <2>3. HandshakesHeld'
    BY <1>1, <1>3, <1>4, <2>1 DEF HandshakesHeld
  <2> QED
    BY <2>2, <2>3
<1>6. ASSUME NEW h \in Handle, NEW sent \in BOOLEAN, Wanted(h, d),
             connecting' = Unexpired(connecting) \cup {NewEntry(h, sent)}
      PROVE  OneHandshake' /\ HandshakesHeld'
  <2>1. code[h] = d /\ ~connected[h]
    BY <1>6 DEF Wanted
  <2>2. ASSUME NEW e \in Unexpired(connecting)
        PROVE  e \in connecting /\ (Spaced(h) => e.handle # h)
    <3>1. e \in connecting /\ ~(e.age > ExpireTicks)
      BY DEF Unexpired
    <3>2. CASE e.handle = h /\ Spaced(h)
      <4>1. e.age >= sinceSeen[d]
        BY <2>1, <3>1, <3>2 DEF HandshakesHeld
      <4>2. /\ e.age \in Nat /\ sinceSeen[d] \in Nat /\ BroadcastGap[d] \in Nat
            /\ ExpireTicks \in Nat
        BY <1>3, <3>1, ConnectionAssumption DEF TypeOK
      <4>3. BroadcastGap[d] > ExpireTicks
        BY <2>1, <3>2 DEF Spaced
      <4> QED
        BY <1>1, <3>1, <4>1, <4>2, <4>3
    <3> QED
      BY <3>1, <3>2
  <2>3. /\ NewEntry(h, sent).handle = h
        /\ NewEntry(h, sent).age > ExpireTicks \/ NewEntry(h, sent).age >= sinceSeen'[d]
    BY <1>1, ConnectionAssumption DEF NewEntry, TypeOK
  <2>4. OneHandshake'
    <3> SUFFICES ASSUME NEW e \in connecting', NEW f \in connecting', e.handle = f.handle,
                        Spaced(e.handle)'
                 PROVE  e = f /\ ~connected[e.handle]
      BY <1>1 DEF OneHandshake
    <3>1. Spaced(e.handle)
      BY <1>1 DEF Spaced
    <3>2. CASE e.handle = h
      BY <1>6, <2>1, <2>2, <3>1, <3>2
    <3>3. CASE e.handle # h
      <4>1. e \in connecting /\ f \in connecting
        BY <1>6, <2>2, <2>3, <3>3
      <4> QED
        BY <3>1, <4>1 DEF OneHandshake
    <3> QED
      BY <3>2, <3>3
  <2>5. HandshakesHeld'
    BY <1>1, <1>3, <1>4, <1>6, <2>1, <2>2, <2>3 DEF HandshakesHeld
  <2> QED
    BY <2>4, <2>5
<1>7. Unexpired(connecting) \in SUBSET connecting
  BY DEF Unexpired
<1> QED
  BY <1>2, <1>5, <1>6, <1>7 DEF OnBroadcast, StartHandshake

LEMMA HandshakeOne ==
    ASSUME OInv, NEW e \in connecting, NEW ok \in BOOLEAN, NEW bound \in BOOLEAN,
           OnHandshakeAck(e, ok, bound)
    PROVE  OneChannel' /\ OneHandshake' /\ HandshakesHeld' /\ UnknownUnconnected'
<1> USE OneSessionParts DEF OInv
<1>1. /\ e.handle \in Handle /\ e.port \in Port /\ code[e.handle] \in Device
      /\ Spaced(e.handle) => ~connected[e.handle]
  BY DEF HandshakesHeld, TypeOK, Entry, OneHandshake
<1>2. connecting' = connecting \ {e} /\ UNCHANGED <<code, sinceSeen>>
  BY DEF OnHandshakeAck
<1>6. \A h : Spaced(h)' <=> Spaced(h)
  BY <1>2 DEF Spaced
<1>3. HandshakesHeld'
  BY <1>2 DEF HandshakesHeld
<1>4. CASE ok
  <2>1. DeviceFound(e.handle, e.port, bound)
    BY <1>4 DEF OnHandshakeAck
  <2>2. connected' = [connected EXCEPT ![e.handle] = TRUE]
    BY <2>1 DEF DeviceFound
  <2>3. OneHandshake'
    BY <1>1, <1>2, <1>6, <2>2 DEF OneHandshake, TypeOK
  <2>4. UnknownUnconnected'
    BY <1>1, <1>2, <2>2, ConnectionAssumption DEF UnknownUnconnected, TypeOK
  <2>5. ASSUME Spaced(e.handle)
        PROVE  Len(channels'[e.handle]) = 1
    <3> DEFINE c == NewChannel(e.port, bound)
    <3>1. c \in Channel
      BY <1>1, NewChannelType
    <3>2. SameSessions(channels'[e.handle], Append(channels[e.handle], c))
      BY <1>1, <2>1, FoundSessions
    <3> HIDE DEF c
    <3>3. channels[e.handle] \in Seq(Channel) /\ Len(channels[e.handle]) = 0
      BY <1>1, <2>5 DEF OneChannel, TypeOK
    <3> QED
      BY <3>1, <3>2, <3>3, AppendType DEF SameSessions
  <2>6. \A g \in Handle : g = e.handle \/ channels'[g] = channels[g]
    BY <1>1, <2>1, FoundSessions DEF TypeOK
  <2>7. OneChannel'
    BY <1>1, <1>6, <2>2, <2>5, <2>6 DEF OneChannel, TypeOK
  <2> QED
    BY <1>3, <2>3, <2>4, <2>7
<1>5. CASE ~ok
  <2>1. UNCHANGED <<connected, channels>>
    BY <1>5 DEF OnHandshakeAck
  <2> QED
    BY <1>2, <1>3, <1>6, <2>1 DEF OneHandshake, OneChannel, UnknownUnconnected
<1> QED
  BY <1>4, <1>5

\* An action that updates channels of one handle and nothing else of OInv.
LEMMA UpdateOne ==
    ASSUME OInv, NEW h \in Handle,
           channels' = [channels EXCEPT ![h] = channels'[h]],
           SameSessions(channels'[h], channels[h]),
           UNCHANGED <<code, connected, connecting, sinceSeen>>
    PROVE  OneChannel' /\ OneHandshake' /\ HandshakesHeld' /\ UnknownUnconnected'
<1> USE OneSessionParts DEF OInv
<1>1. \A g \in Handle : Len(channels'[g]) = Len(channels[g]) /\ connected'[g] = connected[g]
  BY DEF SameSessions, TypeOK
<1>2. OneChannel'
  <2>1. OneChannel
    OBVIOUS
  <2> QED
    BY <1>1, <2>1 DEF OneChannel, Spaced
<1> QED
  BY <1>2 DEF OneHandshake, HandshakesHeld, UnknownUnconnected, Spaced

LEMMA GiveUpOne ==
    ASSUME OInv, NEW h \in Handle, NEW i \in DOMAIN channels[h], ChannelOnTimer(h, i)
    PROVE  /\ OneChannel' /\ OneHandshake' /\ HandshakesHeld' /\ UnknownUnconnected'
           /\ Spaced(h) => connected[h] /\ i = 1 /\ DOMAIN channels[h] = {1}
<1> USE OneSessionParts DEF OInv
<1>1. channels[h] \in Seq(Channel)
  BY DEF TypeOK
<1>2. ASSUME Spaced(h)
      PROVE  connected[h] /\ Len(channels[h]) = 1
  <2>1. OneChannel
    OBVIOUS
  <2>2. Len(channels[h]) = (IF connected[h] THEN 1 ELSE 0)
    BY <1>2, <2>1 DEF OneChannel
  <2>3. Len(channels[h]) # 0
    BY <1>1
  <2> QED
    BY <2>2, <2>3
<1>3. ASSUME Spaced(h)
      PROVE  Len(Tail(channels[h])) = 0 /\ i = 1 /\ DOMAIN channels[h] = {1}
  BY <1>1, <1>2, <1>3, TailType
<1>4. /\ connected' = [connected EXCEPT ![h] = FALSE]
      /\ channels' = [channels EXCEPT ![h] = Tail(channels[h])]
      /\ UNCHANGED <<code, connecting, sinceSeen>>
  BY DEF ChannelOnTimer
<1>5. OneChannel'
  BY <1>3, <1>4 DEF OneChannel, TypeOK, Spaced
<1>6. OneHandshake'
  BY <1>4 DEF OneHandshake, TypeOK, Entry, Spaced
<1>7. HandshakesHeld' /\ UnknownUnconnected'
  BY <1>4 DEF HandshakesHeld, UnknownUnconnected, TypeOK
<1> QED
  BY <1>2, <1>3, <1>5, <1>6, <1>7

LEMMA TickOne ==
    ASSUME OInv, Tick
    PROVE  OneChannel' /\ OneHandshake' /\ HandshakesHeld' /\ UnknownUnconnected'
<1> USE OneSessionParts DEF OInv
<1>1. OneChannel'
  BY TickSessions DEF Tick, OneChannel, SameSessions, Spaced
<1>2. ASSUME NEW e \in connecting'
      PROVE  \E f \in connecting : /\ e = [f EXCEPT !.age = Capped(@, ExpireTicks + 1)]
                                   /\ f \in Entry
                                   /\ e.handle = f.handle
                                   /\ e.age = Capped(f.age, ExpireTicks + 1)
  BY DEF Tick, TypeOK, Entry
<1>3. OneHandshake'
  BY <1>2 DEF OneHandshake, Tick, Spaced
<1>4. ASSUME NEW e \in connecting'
      PROVE  /\ code[e.handle] \in Device
             /\ e.age > ExpireTicks \/ e.age >= sinceSeen'[code[e.handle]]
  <2>1. PICK f \in connecting : /\ f \in Entry
                                /\ e.handle = f.handle
                                /\ e.age = Capped(f.age, ExpireTicks + 1)
    BY <1>2
  <2> DEFINE d == code[f.handle]
  <2>2. /\ d \in Device
        /\ f.age > ExpireTicks \/ f.age >= sinceSeen[d]
    BY DEF HandshakesHeld
  <2>3. /\ f.age \in 0..ExpireTicks + 1 /\ sinceSeen[d] \in Nat
        /\ sinceSeen[d] <= BroadcastGap[d] /\ ExpireTicks \in Nat /\ BroadcastGap[d] \in Nat
    BY <2>1, <2>2, ConnectionAssumption DEF Entry, TypeOK
  <2>4. sinceSeen'[d] = Capped(sinceSeen[d], BroadcastGap[d])
    BY <2>2 DEF Tick
  <2> QED
    BY <2>1, <2>2, <2>3, <2>4 DEF Capped
<1>5. HandshakesHeld' /\ UnknownUnconnected'
  BY <1>4 DEF HandshakesHeld, UnknownUnconnected, Tick
<1> QED
  BY <1>1, <1>3, <1>5

LEMMA OneStep ==
    ASSUME OInv, [Next]_vars
    PROVE  OInv'
<1>1. TypeOK'
  BY TypeStep DEF OInv
<1> DEFINE G == OneChannel' /\ OneHandshake' /\ HandshakesHeld' /\ UnknownUnconnected'
<1>2. ASSUME UNCHANGED <<code, connected, connecting, channels, sinceSeen>> PROVE G
  BY <1>2, OneSessionParts
     DEF OInv, OneChannel, OneHandshake, HandshakesHeld, UnknownUnconnected, Spaced
<1>3. ASSUME NEW d \in Device, AddLidarToConnect(d) PROVE G
  BY <1>3, AddOne
<1>4. ASSUME NEW d \in Device, OnBroadcast(d) PROVE G
  BY <1>4, BroadcastOne
<1>5. ASSUME NEW d \in Device, SwitchDevice(d) PROVE G
  BY <1>2, <1>5 DEF SwitchDevice
<1>6. ASSUME DiscoveryOnTimer PROVE G
  BY <1>6, OneSessionParts DEF DiscoveryOnTimer, Unexpired, OInv, OneChannel,
     OneHandshake, HandshakesHeld, UnknownUnconnected, Spaced
<1>7. ASSUME NEW e \in connecting, NEW ok \in BOOLEAN, NEW bound \in BOOLEAN,
           OnHandshakeAck(e, ok, bound) PROVE G
  BY <1>7, HandshakeOne
<1>8. ASSUME NEW h \in Handle, NEW i \in DOMAIN channels[h], OnHeartbeatAck(h, i) PROVE G
  BY <1>8, AckSessions, UpdateOne DEF OnHeartbeatAck, OInv
<1>9. ASSUME NEW h \in Handle, NEW i \in DOMAIN channels[h], QueryAnswered(h, i) PROVE G
  BY <1>9, AnswerSessions, UpdateOne DEF QueryAnswered, OInv
<1>10. ASSUME NEW h \in Handle, NEW i \in DOMAIN channels[h], QueryTimedOut(h, i) PROVE G
  BY <1>10, TimeoutSessions, UpdateOne DEF QueryTimedOut, OInv
<1>11. ASSUME NEW h \in Handle, NEW i \in DOMAIN channels[h], ChannelOnTimer(h, i) PROVE G
  BY <1>11, GiveUpOne
<1>12. ASSUME Tick PROVE G
  BY <1>12, TickOne
<1>13. G
  BY <1>2, <1>3, <1>4, <1>5, <1>6, <1>7, <1>8, <1>9, <1>10, <1>11, <1>12 DEF Next, vars
<1>14. OneSession'
  <2>1. (OneChannel /\ OneHandshake)'
    BY <1>13
  <2>2. \A e \in connecting' : e.handle \in Handle
    BY <1>1 DEF TypeOK, Entry
  <2> QED
    BY <2>1, <2>2 DEF OneSession, OneChannel, OneHandshake
<1> QED
  BY <1>1, <1>13, <1>14 DEF OInv

LEMMA OneInit == Init => OInv
<1>1. /\ BroadcastGap \in [Device -> Nat] /\ 0 \in 0..MaxAttempts
      /\ \A d \in Device : BroadcastGap[d] <= BroadcastGap[d]
  BY ConnectionAssumption
<1> QED
  BY <1>1 DEF Init, OInv, TypeOK, OneSession, HandshakesHeld, UnknownUnconnected

\* As long as the broadcasts of a device are processed further apart than a
\* handshake lives, its handle has one session, and no second is being set up,
\* whatever the other devices do.
THEOREM OneSessionSpaced == Spec => []OneSession
<1>1. OInv /\ [Next]_vars => OInv'
  BY OneStep
<1>2. OInv => OneSession
  BY DEF OInv
<1> QED
  BY <1>1, <1>2, OneInit, PTL DEF Spec

\* In that case a device is removed only when its channel has been silent for
\* longer than the limit.
THEOREM RemovedWasSilentSpaced == Spec => RemovedWasSilent
<1> USE DEF RemovedSilent
<1> DEFINE A == \A h \in Handle : Spaced(h) => RemovedSilent(h)
<1>1. ASSUME OInv, [Next]_vars
      PROVE  [A]_vars
  <2>1. ASSUME NEW h \in Handle, NEW i \in DOMAIN channels[h], ChannelOnTimer(h, i)
        PROVE  A
    <3>1. Spaced(h) =>
            i = 1 /\ DOMAIN channels[h] = {1} /\ channels[h][1].silence > HbLimit
      BY <1>1, <2>1, GiveUpOne DEF ChannelOnTimer, TooSilent
    <3>2. \A g \in Handle : g = h \/ connected'[g] = connected[g]
      BY <1>1, <2>1 DEF ChannelOnTimer, OInv, TypeOK
    <3> QED
      BY <3>1, <3>2
  <2>2. ASSUME NEW d \in Device, AddLidarToConnect(d)
        PROVE  A
    BY <1>1, <2>2 DEF AddLidarToConnect, OInv, UnknownUnconnected, TypeOK
  <2>3. ASSUME NEW e \in connecting, NEW ok \in BOOLEAN, NEW bound \in BOOLEAN,
           OnHandshakeAck(e, ok, bound)
        PROVE  A
    BY <1>1, <2>3 DEF OnHandshakeAck, DeviceFound, OInv, TypeOK
  <2>4. ASSUME UNCHANGED connected
        PROVE  A
    BY <2>4
  <2>5. ASSUME NEW h \in Handle, NEW i \in DOMAIN channels[h],
               OnHeartbeatAck(h, i) \/ QueryAnswered(h, i) \/ QueryTimedOut(h, i)
        PROVE  A
    BY <2>4, <2>5 DEF OnHeartbeatAck, QueryAnswered, QueryTimedOut
  <2>6. ASSUME NEW d \in Device, OnBroadcast(d) \/ SwitchDevice(d)
        PROVE  A
    BY <2>4, <2>6 DEF OnBroadcast, SwitchDevice
  <2>7. ASSUME DiscoveryOnTimer \/ Tick
        PROVE  A
    BY <2>4, <2>7 DEF DiscoveryOnTimer, Tick
  <2> HIDE DEF A
  <2> QED
    BY <1>1, <2>1, <2>2, <2>3, <2>5, <2>6, <2>7 DEF Next
<1>2. OInv /\ [Next]_vars => OInv'
  BY OneStep
<1> QED
  BY <1>1, <1>2, OneInit, PTL DEF Spec, RemovedWasSilent

\* A handle has a channel exactly while it is connected.
LEMMA ChannelIfConnected ==
    ASSUME OInv, NEW h \in Handle, Spaced(h)
    PROVE  connected[h] \in BOOLEAN /\ (connected[h] <=> channels[h] # <<>>)
<1>1. connected[h] \in BOOLEAN /\ channels[h] \in Seq(Channel)
  BY DEF OInv, TypeOK
<1>2. channels[h] = <<>> <=> Len(channels[h]) = 0
  BY <1>1
<1>3. Len(channels[h]) = IF connected[h] THEN 1 ELSE 0
  BY DEF OInv, OneSession
<1> QED
  BY <1>1, <1>2, <1>3

\* Only an answer makes the program hear of a connection, and it comes over a
\* channel of the handle.
LEMMA ToldWhileConnected ==
    ASSUME OInv, [Next]_vars, NEW h \in Handle, Spaced(h),
           told'[h] = "connect", told[h] # "connect"
    PROVE  connected[h]
<1>1. ASSUME NEW g \in Handle, NEW i \in DOMAIN channels[g], QueryAnswered(g, i)
      PROVE  connected[h]
  <2>1. g = h
    BY <1>1 DEF QueryAnswered, OInv, TypeOK
  <2>2. channels[h] # <<>>
    BY <2>1
  <2> QED
    BY <2>2, ChannelIfConnected
<1>2. ASSUME NEW g \in Handle, NEW i \in DOMAIN channels[g], ChannelOnTimer(g, i)
      PROVE  FALSE
  BY <1>2 DEF ChannelOnTimer, OInv, TypeOK
<1>3. ASSUME NEW g \in Handle, NEW i \in DOMAIN channels[g],
             OnHeartbeatAck(g, i) \/ QueryTimedOut(g, i)
      PROVE  FALSE
  BY <1>3 DEF OnHeartbeatAck, QueryTimedOut
<1>4. ASSUME NEW d \in Device, AddLidarToConnect(d) \/ OnBroadcast(d) \/ SwitchDevice(d)
      PROVE  FALSE
  BY <1>4 DEF AddLidarToConnect, OnBroadcast, SwitchDevice
<1>5. ASSUME NEW e \in connecting, NEW ok \in BOOLEAN, NEW bound \in BOOLEAN,
             OnHandshakeAck(e, ok, bound)
      PROVE  FALSE
  BY <1>5 DEF OnHandshakeAck
<1>6. ASSUME DiscoveryOnTimer \/ Tick \/ UNCHANGED vars
      PROVE  FALSE
  BY <1>6 DEF DiscoveryOnTimer, Tick, vars
<1> QED
  BY <1>1, <1>2, <1>3, <1>4, <1>5, <1>6 DEF Next

\* A handle gets its device once, and is neither connected nor served then.
LEMMA CodeKept ==
    ASSUME OInv, [Next]_vars
    PROVE  code' = code \/ (connected' = connected /\ channels' = channels)
<1>1. ASSUME NEW d \in Device, AddLidarToConnect(d)
      PROVE  connected' = connected /\ channels' = channels
  BY <1>1 DEF AddLidarToConnect, OInv, UnknownUnconnected, TypeOK
<1>2. ASSUME NEW d \in Device, OnBroadcast(d) \/ SwitchDevice(d) PROVE code' = code
  BY <1>2 DEF OnBroadcast, SwitchDevice
<1>3. ASSUME NEW e \in connecting, NEW ok \in BOOLEAN, NEW bound \in BOOLEAN,
             OnHandshakeAck(e, ok, bound)
      PROVE  code' = code
  BY <1>3 DEF OnHandshakeAck
<1>4. ASSUME NEW g \in Handle, NEW i \in DOMAIN channels[g],
             \/ OnHeartbeatAck(g, i) \/ QueryAnswered(g, i) \/ QueryTimedOut(g, i)
             \/ ChannelOnTimer(g, i)
      PROVE  code' = code
  BY <1>4 DEF OnHeartbeatAck, QueryAnswered, QueryTimedOut, ChannelOnTimer
<1>5. ASSUME DiscoveryOnTimer \/ Tick \/ UNCHANGED vars PROVE code' = code
  BY <1>5 DEF DiscoveryOnTimer, Tick, vars
<1> QED
  BY <1>1, <1>2, <1>3, <1>4, <1>5 DEF Next

\* In that case, too, the program is told of a connection only while there is
\* one, and a device ceases to be connected exactly when its last channel goes.
THEOREM ToldTheTruthSpaced == Spec => ToldTheTruth
<1> DEFINE A == \A h \in Handle : Spaced(h) =>
                   /\ told'[h] = "connect" /\ told[h] # "connect" => connected[h]
                   /\ connected[h] /\ ~connected'[h] <=> channels[h] # <<>> /\ channels'[h] = <<>>
<1>1. OInv /\ [Next]_vars => OInv'
  BY OneStep
<1>2. ASSUME OInv, [Next]_vars
      PROVE  [A]_vars
  <2> SUFFICES ASSUME NEW h \in Handle, Spaced(h)
               PROVE  /\ told'[h] = "connect" /\ told[h] # "connect" => connected[h]
                      /\ connected[h] /\ ~connected'[h] <=> channels[h] # <<>> /\ channels'[h] = <<>>
    OBVIOUS
  <2>1. told'[h] = "connect" /\ told[h] # "connect" => connected[h]
    BY <1>2, ToldWhileConnected
  <2>2. connected[h] <=> channels[h] # <<>>
    BY <1>2, ChannelIfConnected
  <2>3. OInv'
    BY <1>1, <1>2
  <2>4. connected'[h] \in BOOLEAN /\ channels'[h] \in Seq(Channel)
    BY <2>3 DEF OInv, TypeOK, Channel, Port, Handle
  <2>7. CASE connected' = connected /\ channels' = channels
    BY <2>1, <2>7
  <2>8. CASE code' = code
    <3>1. Spaced(h)'
      BY <2>8 DEF Spaced
    <3>2. Len(channels'[h]) = IF connected'[h] THEN 1 ELSE 0
      BY <2>3, <3>1 DEF OInv, OneSession, Handle
    <3>3. connected'[h] <=> channels'[h] # <<>>
      BY <2>4, <3>2
    <3> QED
      BY <2>1, <2>2, <3>3
  <2> QED
    BY <1>2, <2>7, <2>8, CodeKept
<1> QED
  BY <1>1, <1>2, OneInit, PTL DEF Spec, ToldTheTruth
=============================================================================
