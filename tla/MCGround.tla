------------------------------ MODULE MCGround ------------------------------
(* The ground link, instantiated for TLC. *)
EXTENDS Ground
=============================================================================
