---------------------------- MODULE CommandPromise ----------------------------
(***************************************************************************)
(* What a program may rely on when it issues a command to a device: the    *)
(* abstract specification that CommandChannel implements.  There are no    *)
(* sequence numbers, datagrams, queues or clocks here, only the fate of    *)
(* each command and whether the link to the device is up.                  *)
(*                                                                         *)
(* A command is accepted while the link is up and refused afterwards.  An  *)
(* accepted one waits until it gets its final report; it may meanwhile be  *)
(* reported as not sent ("failed") without ceasing to wait.  The only      *)
(* event that leaves a command without any report is the loss of the link. *)
(***************************************************************************)
CONSTANT Cmd

VARIABLES phase, link

pvars == <<phase, link>>

Waiting == {c \in Cmd : phase[c] \in {"pending", "failed"}}

PInit ==
    /\ phase = [c \in Cmd |-> "idle"]
    /\ link = TRUE

Issue(c) ==
    /\ phase[c] = "idle"
    /\ phase' = [phase EXCEPT ![c] = IF link THEN "pending" ELSE "refused"]
    /\ UNCHANGED link

NotSent(c) ==
    /\ link
    /\ phase[c] = "pending"
    /\ phase' = [phase EXCEPT ![c] = "failed"]
    /\ UNCHANGED link

\* An answer reports one command, a timeout all that are overdue.
Settle(S) ==
    /\ link
    /\ phase' = [c \in Cmd |-> IF c \in S THEN "reported" ELSE phase[c]]
    /\ UNCHANGED link

\* What waits when the link is lost is settled in that step or never.
LinkLost(S) ==
    /\ link
    /\ link' = FALSE
    /\ phase' = [c \in Cmd |-> IF c \in S \/ phase[c] = "failed" THEN "reported"
                               ELSE IF c \in Waiting THEN "lost"
                               ELSE phase[c]]

PNext ==
    \/ \E c \in Cmd : Issue(c) \/ NotSent(c)
    \/ \E S \in SUBSET Waiting : Settle(S) \/ LinkLost(S)

PSpec == PInit /\ [][PNext]_pvars
=============================================================================
