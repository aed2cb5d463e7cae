--------------------------- MODULE MCCommandChannel ---------------------------
(* Instances of CommandChannel for TLC. *)
EXTENDS CommandChannel, TLC

\* The commands are interchangeable: nothing distinguishes them in the code.
CmdSymmetry == Permutations(Cmd)
=============================================================================
