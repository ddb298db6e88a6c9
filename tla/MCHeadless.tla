----------------------------- MODULE MCHeadless -----------------------------
(* The reference run of every scenario of four ticks. *)
EXTENDS Headless
=============================================================================
