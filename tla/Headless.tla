------------------------------ MODULE Headless ------------------------------
(***************************************************************************)
(* sim/run_headless.py: the reference run of a scenario, in one process    *)
(* and without I/O.  One action is one pass of its loop.  The random link  *)
(* losses, the scenario's commands and the plant are choices of the        *)
(* environment; the truth is abstracted to the class of its attitude.      *)
(***************************************************************************)
EXTENDS EpisodeRef

CONSTANTS Ticks,         \* the scenario's tick count
          CmdDelay,      \* ticks from a request to its effective tick, 50
          DelayTicks,    \* depth of the actuator delay line, 0 or 1
          AutoArm,
          Lossy,         \* whether the scenario's links lose anything
          Requests,      \* opcodes the scenario may request
          Truths         \* classes the plant may reach

ASSUME HeadlessAssumption ==
    /\ Ticks \in Nat \ {0} /\ CmdDelay \in Nat \ {0} /\ DelayTicks \in {0, 1}
    /\ AutoArm \in BOOLEAN /\ Lossy \in BOOLEAN /\ Requests \subseteq Opcodes
    /\ Truths \subseteq {"settled", "off", "diverged", "nonfinite"}

VARIABLES tick, truth, state, held,
          pending_reason,  \* the loss of control found by the last plant step
          command_seq,
          delay, applied,  \* the delay line and the actuator's output
          row,             \* the trace's last row
          sim_reason       \* why the loop ended, or "none"

vars == <<tick, truth, state, held, pending_reason, command_seq, delay, applied, row, sim_reason>>

\* An absent element of the delay line; a present one is an output of Episode.
Absent == -2

\* link.draw_drop with the scenario's forced drops.
Draws == IF Lossy THEN BOOLEAN ELSE {FALSE}

\* _Delay.push_pop and actuator.step.
Arriving(line, value) == Head(Append(line, value))
Shifted(line, value) == Tail(Append(line, value))
Actuate(act, arriving) == IF arriving = Absent THEN act ELSE arriving

\* The reason flagged with this tick's sample.
Flagged(t, pending) ==
    IF pending # "none" THEN pending ELSE IF t = Ticks - 1 THEN "horizon" ELSE "none"

\* Loss of control, as the loop tests the truth after the plant's step.
LossOfControl(class) ==
    CASE class = "nonfinite" -> "nonfinite" [] class = "diverged" -> "angle" [] OTHER -> "none"

Row(t, class, sampled, arriving, act) ==
    [tick |-> t, truth |-> class, has_sample |-> sampled,
     applied |-> arriving # Absent, cmd_applied |-> act]
NoRow == Row(NoTick, "none", FALSE, Absent, NoTick)

Request(opcode, seq, t) ==
    IF opcode = "NONE" THEN NoCommand
    ELSE [cmd_seq |-> seq, opcode |-> opcode, effective_tick |-> t + CmdDelay]

NextSeq(opcode, seq) == IF opcode = "NONE" THEN seq ELSE (seq + 1) % SeqMod

Init ==
    /\ tick = 0 /\ truth \in Truths \ {"nonfinite"}
    /\ state = initial(AutoArm) /\ held = NoHeld /\ pending_reason = "none"
    /\ command_seq = 0 /\ delay = [i \in 1 .. DelayTicks |-> Absent] /\ applied = NoTick
    /\ row = NoRow /\ sim_reason = "none"

\* What the policy sees of this tick: the sample, held until a newer one
\* comes, the scenario's command and the reason flagged with the sample.
Input(sampled, opcode) ==
    LET obs == IF sampled THEN [tick |-> tick, class |-> truth] ELSE held
    IN  [tick |-> tick, held |-> obs, fresh |-> sampled,
         staleness |-> IF obs = NoHeld THEN tick + 1 ELSE tick - obs.tick,
         command |-> Request(opcode, NextSeq(opcode, command_seq), tick),
         horizon_reached |-> FALSE, sim_reason |-> Flagged(tick, pending_reason),
         stop_reason |-> "NONE"]

\* The rest of the tick, given what the policy answered: the actuator, then
\* the plant unless the episode is over.
Advance(in, out, down_drop, nextTruth) ==
    LET value == IF down_drop THEN Absent ELSE out.delta
        arriving == Arriving(delay, value)
        over == IF in.sim_reason # "none" THEN in.sim_reason
                ELSE IF out.state.terminal # NoTerminal THEN "vehicle" ELSE "none"
    IN  /\ held' = in.held /\ state' = out.state
        /\ delay' = Shifted(delay, value) /\ applied' = Actuate(applied, arriving)
        /\ row' = Row(tick, truth, in.fresh, arriving, Actuate(applied, arriving))
        /\ sim_reason' = over
        /\ IF over = "none"
           THEN tick' = tick + 1 /\ truth' = nextTruth /\ pending_reason' = LossOfControl(nextTruth)
           ELSE UNCHANGED <<tick, truth, pending_reason>>

Tick(up_drop, down_drop, opcode, nextTruth) ==
    /\ sim_reason = "none"
    /\ command_seq' = NextSeq(opcode, command_seq)
    /\ \E in \in {Input(~up_drop /\ truth # "nonfinite", opcode)} :
           \E out \in {RefStep(state, in)} : Advance(in, out, down_drop, nextTruth)

Over == sim_reason # "none" /\ UNCHANGED vars

Next ==
    \/ \E up_drop, down_drop \in Draws, opcode \in Requests \union {"NONE"}, t \in Truths :
           Tick(up_drop, down_drop, opcode, t)
    \/ Over
Spec == Init /\ [][Next]_vars

-----------------------------------------------------------------------------
\* The pairs of simulator and vehicle reasons that reconcile.py accepts.
Paired(sim, reason, staleness) ==
    \/ <<sim, reason>> \in {<<"horizon", "STABILIZED">>, <<"horizon", "NOT_SETTLED">>,
                            <<"angle", "DIVERGED">>, <<"nonfinite", "DIVERGED">>,
                            <<"vehicle", "DIVERGED">>, <<"vehicle", "GROUND_ABORT">>,
                            <<"vehicle", "SENSOR_LOST">>}
    \/ sim = "horizon" /\ reason = "SENSOR_LOST" /\ staleness >= StaleLimit

\* When the loop ends the vehicle's policy has ended too, with a reason that
\* reconcile.py pairs with the simulator's (main reads terminal.reason of the
\* last row without a test for None).
EndsPaired ==
    sim_reason # "none" =>
        /\ state.mode = "TERMINATED"
        /\ Paired(sim_reason, state.terminal.reason,
                  IF held = NoHeld THEN tick + 1 ELSE tick - held.tick)
=============================================================================
