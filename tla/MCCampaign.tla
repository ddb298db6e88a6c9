----------------------------- MODULE MCCampaign -----------------------------
(* The campaign runner, instantiated for TLC. *)
EXTENDS Campaign, TLC

CasesAlike == Permutations(Cases)
=============================================================================
