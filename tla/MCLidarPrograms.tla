--------------------------- MODULE MCLidarPrograms ---------------------------
(* An instance of LidarPrograms for TLC: two devices of different types. *)
EXTENDS LidarPrograms, TLC

CONSTANTS h1, h2

OneTypeEach == h1 :> "Mid40" @@ h2 :> "Horizon"

Lines == {[codes |-> {}, param |-> FALSE], [codes |-> {h1}, param |-> FALSE],
          [codes |-> {h1}, param |-> TRUE]}
=============================================================================
