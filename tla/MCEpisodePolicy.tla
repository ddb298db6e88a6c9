-------------------------- MODULE MCEpisodePolicy --------------------------
(* The episode policy on small inputs, see the configurations. *)
EXTENDS EpisodePolicy

LateAndEarly == {-1, 0, 2}
LateOrEarly == {-1, 2}
=============================================================================
