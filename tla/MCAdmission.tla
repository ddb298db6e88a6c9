---------------------------- MODULE MCAdmission ----------------------------
(* Admission on small inputs, see the configurations. *)
EXTENDS AdmissionCycles
=============================================================================
