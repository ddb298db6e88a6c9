----------------------------- MODULE MCFreerun -----------------------------
(* A free run for TLC. *)
EXTENDS Freerun
=============================================================================
