----------------------------- MODULE MCConnection -----------------------------
(* Instances of Connection for TLC. *)
EXTENDS Connection

CONSTANT d1

\* Broadcasts at any distance; or spaced for d1 only, two ticks apart.
Hurried == [d \in Device |-> 0]
OneSpaced == [d \in Device |-> IF d = d1 THEN 2 ELSE 0]
=============================================================================
