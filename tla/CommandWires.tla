----------------------------- MODULE CommandWires -----------------------------
(***************************************************************************)
(* CommandChannel over two wires, of which a behaviour has one: a wire     *)
(* that loses what it likes and a device that may die, or a reliable wire, *)
(* with a limit of silence that is as tight as such a wire allows.         *)
(***************************************************************************)
EXTENDS Naturals, Sequences, FiniteSets

CONSTANTS Cmd, NoCmd, SeqMax, CmdTimeout, HbPeriod, MaxStall, LossyHbLimit, PacketLife

VARIABLES wire, seq, queue, due, commands, age, open, silence, beat, stall, calls,
          reports, requests, replies, executed, alive

ASSUME WiresAssumption ==
  /\ NoCmd \notin Cmd
  /\ SeqMax \in Nat \ {0}
  /\ CmdTimeout \in Nat /\ HbPeriod \in Nat /\ LossyHbLimit \in Nat
  /\ MaxStall \in Nat /\ PacketLife \in Nat

Lossy == INSTANCE CommandChannel WITH Faulty <- TRUE, HbLimit <- LossyHbLimit, PacketLife <- 0
Reliable == INSTANCE CommandChannel
              WITH Faulty <- FALSE, HbLimit <- HbPeriod + MaxStall + 2 * PacketLife

vars == <<wire, Lossy!vars>>
Over(w) == wire = w /\ UNCHANGED wire

Init == \/ wire = "lossy" /\ Lossy!Init
        \/ wire = "reliable" /\ Reliable!Init

Next == \/ Over("lossy") /\ Lossy!Next
        \/ Over("reliable") /\ Reliable!Next

Spec ==
  /\ Init /\ [][Next]_vars
  /\ WF_vars(Over("lossy") /\ (Lossy!Send \/ Lossy!DropSend))
  /\ WF_vars(Over("lossy") /\ Lossy!OnTimer)
  /\ WF_vars(Over("lossy") /\ Lossy!Tick)

(***************************************************************************)
(* The properties of CommandChannel, over the wire they are about.         *)
(***************************************************************************)

(* Whatever the wire does, a command that was accepted is called back      *)
(* unless its channel goes. *)
EveryCommandSettles == (wire = "lossy") => Lossy!EveryCommandSettles

(* A device that is dead is given up. *)
DeadDeviceDropped == (wire = "lossy") => Lossy!DeadDeviceDropped

(* A device that answers in time is never given up. *)
AnsweredDeviceKept == wire = "reliable" => Reliable!AnsweredDeviceKept
===============================================================================
