------------------------------- MODULE MCIOLoop -------------------------------
(* Instances of IOLoop for TLC. *)
EXTENDS IOLoop

\* The names of the handles are not told apart: channel 1 has the first.
LoopInit == Init /\ handle[1] = CHOOSE h \in Handle : TRUE
LoopSpec == LoopInit /\ [][Next]_vars /\ LoopFairness
=============================================================================
