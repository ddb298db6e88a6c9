----------------------------- MODULE MCLockstep -----------------------------
(* Lockstep runs of few ticks, see the configurations. *)
EXTENDS Lockstep
=============================================================================
