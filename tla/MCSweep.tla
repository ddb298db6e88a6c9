------------------------------ MODULE MCSweep ------------------------------
(* The sweep, instantiated for TLC. *)
EXTENDS Sweep

Args(only, repeat, interleave, qualified, peer_cpu) ==
    [only |-> only, phases |-> 1, repeat |-> repeat, interleave |-> interleave,
     cpu |-> TRUE, peer_cpu |-> peer_cpu, qualified |-> qualified]

\* Harness and closed-loop rows in one session, repeated rows of either kind, a
\* short L8 row without a declared peer CPU, a qualified one without, which is
\* refused, all levels without an isolated CPU, and the phase grid.
SweepInvocations ==
    {Args({7, 8}, 1, FALSE, TRUE, TRUE), Args({8}, 2, TRUE, TRUE, TRUE),
     Args({5}, 2, FALSE, TRUE, FALSE), Args({8}, 1, FALSE, FALSE, FALSE),
     Args({8}, 1, FALSE, TRUE, FALSE),
     [Args(Levels, 1, FALSE, FALSE, FALSE) EXCEPT !.cpu = FALSE],
     [Args({8}, 3, TRUE, TRUE, TRUE) EXCEPT !.phases = 3]}
=============================================================================
