---------------------------- MODULE MCHubPrograms ----------------------------
(* An instance of HubPrograms for TLC: two LiDARs of different types. *)
EXTENDS HubPrograms, TLC

CONSTANTS u1, u2

OneTypeEach == u1 :> "Mid40" @@ u2 :> "Horizon"
=============================================================================
