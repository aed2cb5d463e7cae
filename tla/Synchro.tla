-------------------------------- MODULE Synchro --------------------------------
(***************************************************************************)
(* sample_cc/lidar_utc_sync/synchro.cpp: a thread reads a serial line and  *)
(* looks for GPRMC sentences - "$GPRMC" or "$GNRMC", a body, an asterisk   *)
(* and two digits of checksum.  Bytes matter only in groups: the head, the *)
(* body and the check of a sentence, and noise of some length.  Taken for  *)
(* granted: noise holds no head, and a checksum is right only over one     *)
(* head, one body and nothing else.  The line is external.                 *)
(***************************************************************************)
EXTENDS Naturals

CONSTANTS
  BufLen,     \* size of rmc_buff_
  BodyLen,    \* length of a sentence's body
  NoiseSizes  \* bound: lengths of damaged groups and of noise

VARIABLES
  port,    \* fd_ is open
  quit,    \* is_quite_
  thread,  \* listener_ runs
  held,    \* rmc_buff_: nothing, a head, a head with its body, anything else
  len,     \* cur_len_ (while hunting for a head: 0)
  due,     \* the group of the sentence that comes next on the line
  intact,  \* the groups of this sentence that came before it arrived
  missed   \* intact sentences not delivered, since one was or the line was disturbed

synchroVars == <<port, quit, thread, held, len, due, intact, missed>>

Groups == {"head", "body", "check"}
HeadLen == 6
GroupLen == [head |-> HeadLen, body |-> BodyLen, check |-> 3]
SentenceLen == HeadLen + BodyLen + 3

Init ==
  /\ port = FALSE /\ quit = FALSE /\ thread = FALSE
  /\ held = "nothing" /\ len = 0
  /\ due \in Groups /\ intact = FALSE /\ missed = 0

(***************************************************************************)
(* Start and Stop, called by the program's main thread.                    *)
(***************************************************************************)

(* Open, Setup and a thread; the buffer keeps what it has. *)
Start ==
  /\ ~port /\ ~thread
  /\ port' = TRUE /\ quit' = FALSE /\ thread' = TRUE
  /\ UNCHANGED <<held, len, due, intact, missed>>

(* Stop, up to the join ... *)
Quit ==
  /\ port /\ ~quit
  /\ quit' = TRUE
  /\ UNCHANGED <<port, thread, held, len, due, intact, missed>>

(* ... the test in IOLoop: Read returns within ten seconds (VTIME) ...     *)
Ends ==
  /\ thread /\ quit
  /\ thread' = FALSE
  /\ UNCHANGED <<port, quit, held, len, due, intact, missed>>

(* ... and the rest of Stop, which flushes and closes the port. *)
Close ==
  /\ port /\ quit /\ ~thread
  /\ port' = FALSE
  /\ UNCHANGED <<quit, thread, held, len, due, intact, missed>>

(***************************************************************************)
(* ParseGps, called by Decode for each byte of what Read returns.          *)
(***************************************************************************)
Clear == held' = "nothing" /\ len' = 0

(* What the buffer holds when n bytes of a group join it. *)
Holding(group, n) ==
  CASE held = "head" /\ group = "body" -> "sentence"
    [] held = "head" /\ n = 0 -> "head"
    [] OTHER -> "other"

\* Mutant: a full buffer is not cleared.
ParseGps_Full(group, n) ==
  IF held = "nothing"
  THEN IF group = "head" THEN held' = "head" /\ len' = n ELSE UNCHANGED <<held, len>>
  ELSE IF len + n > BufLen
       THEN UNCHANGED <<held, len>>
       ELSE held' = Holding(group, n) /\ len' = len + n

(* n bytes of a group arrive.  While no head is held, six bytes slide by   *)
(* until they are one.  Then everything is kept, behind a wrong checksum   *)
(* too, until the buffer is full: the byte that finds it full is lost, and *)
(* with it the group it belongs to.                                        *)
ParseGps(group, n) ==
  IF held = "nothing"
  THEN IF group = "head" THEN held' = "head" /\ len' = n ELSE UNCHANGED <<held, len>>
  ELSE IF len + n > BufLen
       THEN Clear
       ELSE held' = Holding(group, n) /\ len' = len + n

(* The checksum is right: Decode calls the program and clears the buffer. *)
Delivers(group, n) == group = "check" /\ held = "sentence" /\ len + n <= BufLen

Decode(group, n) == IF Delivers(group, n) THEN Clear ELSE ParseGps(group, n)

(***************************************************************************)
(* The line.                                                               *)
(***************************************************************************)
Following == [head |-> "body", body |-> "check", check |-> "head"]
Reading == thread /\ port

(* A group of the sentence arrives whole. *)
Arrives ==
  /\ Reading
  /\ Decode(due, GroupLen[due])
  /\ due' = Following[due]
  /\ intact' = (due = "head" \/ intact)
  /\ missed' = IF Delivers(due, GroupLen[due]) THEN 0
               ELSE IF due = "check" /\ intact THEN missed + 1 ELSE missed
  /\ UNCHANGED <<port, quit, thread>>

(* A group is damaged, or lost, as all are while nobody reads. *)
Damaged ==
  /\ \E n \in IF Reading THEN {k \in NoiseSizes : k <= GroupLen[due]} ELSE {0} :
       Decode("noise", n)
  /\ due' = Following[due]
  /\ intact' = FALSE /\ missed' = 0
  /\ UNCHANGED <<port, quit, thread>>

(* Line ends and other sentences, between two sentences. *)
Noise ==
  /\ Reading /\ due = "head"
  /\ \E n \in NoiseSizes : Decode("noise", n)
  /\ UNCHANGED <<port, quit, thread, due, intact, missed>>

Next == Start \/ Quit \/ Ends \/ Close \/ Arrives \/ Damaged \/ Noise

Spec == Init /\ [][Next]_synchroVars

(***************************************************************************)
(* Properties                                                              *)
(***************************************************************************)

(* The decoder recovers: after a disturbance - a damaged sentence, a start *)
(* in the middle of one - it misses as many intact sentences as fit into   *)
(* the buffer behind a head, and the one that finds it full, and then      *)
(* delivers.                                                               *)
LossBounded == missed <= (BufLen - HeadLen) \div SentenceLen + 1
===============================================================================
