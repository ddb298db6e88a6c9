-------------------------- MODULE MCTelemetryDrain --------------------------
(* The telemetry path on small rings, see the configurations. *)
EXTENDS TelemetryDrain
=============================================================================
