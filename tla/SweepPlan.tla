------------------------------ MODULE SweepPlan ------------------------------
(***************************************************************************)
(* What scripts/sweep.py plans: one row per selected level, phase and      *)
(* repeat, in order.  A level is its number.  An invocation is a record of *)
(* its options: only (the levels of --only, or all), phases (1, or 3 for   *)
(* the grid 200,400,800), repeat, interleave, cpu and peer_cpu (TRUE when  *)
(* given) and qualified (cycles are at least the qualified window's).      *)
(***************************************************************************)
EXTENDS Integers, FiniteSets, SequencesExt

Levels == 0 .. 8
NeedsCpu == 4    \* the first level with {cpu} among its flags

\* The prefix of levels that can run: everything above a skipped level would
\* differ from its predecessor by more than one change.
plan_levels(cpu) == {l \in Levels : cpu \/ l < NeedsCpu}

\* The options plan_runs refuses.
PlanProblem(args) ==
    LET l8 == 8 \in args.only /\ 8 \in plan_levels(args.cpu)
        grid == args.phases > 1
    IN  \/ args.repeat <= 0
        \/ ~(args.only \subseteq Levels)
        \/ grid /\ ~(args.only = {8} /\ args.repeat = 3 /\ args.interleave)
        \/ l8 /\ ~args.peer_cpu /\ (grid \/ args.qualified)
        \/ args.peer_cpu /\ ~l8
        \/ args.only \cap plan_levels(args.cpu) = {}

Label(level, phase, repeat, args) ==
    <<level, IF args.phases > 1 THEN phase ELSE 0, IF args.repeat > 1 THEN repeat ELSE 0>>

Row(level, phase, repeat, args) ==
    [level |-> level, repeat |-> repeat, label |-> Label(level, phase, repeat, args),
     flags |-> {l \in Levels : l <= level},     \* every level's flags up to this one
     qualified |-> args.qualified, peer_cpu |-> level = 8 /\ args.peer_cpu]

\* The levels in the order of the LEVELS table.
InOrder(levels) ==
    [i \in 1 .. Cardinality(levels) |->
        CHOOSE l \in levels : Cardinality({k \in levels : k < l}) = i - 1]

\* Repeats are the outer loop when interleaved, the inner one otherwise.
plan_runs(args) ==
    LET selected == InOrder(args.only \cap plan_levels(args.cpu))
        phases(level) == IF level = 8 THEN args.phases ELSE 1
        rows(level, repeat) == [p \in 1 .. phases(level) |-> Row(level, p, repeat, args)]
        overLevels(repeat) ==
            FlattenSeq([i \in 1 .. Len(selected) |-> rows(selected[i], repeat)])
        overRepeats(level) ==
            FlattenSeq([p \in 1 .. phases(level) |->
                           [r \in 1 .. args.repeat |-> Row(level, p, r, args)]])
    IN  IF args.interleave
        THEN FlattenSeq([r \in 1 .. args.repeat |-> overLevels(r)])
        ELSE FlattenSeq([i \in 1 .. Len(selected) |-> overRepeats(selected[i])])
=============================================================================
