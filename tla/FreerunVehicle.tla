--------------------------- MODULE FreerunVehicle ---------------------------
(***************************************************************************)
(* The free-running vehicle of src/freerun.cpp: what run_freerun does with *)
(* one cycle's datagrams, with the result of its send, and what it keeps   *)
(* and reports.  Runtime is a record here too.  Admission and the episode  *)
(* policy are the modules of those names; commands are not supported in    *)
(* free-run.                                                               *)
(***************************************************************************)
EXTENDS Episode, Admission

CONSTANTS Cycles,   \* cfg.cycles, after the warm-up
          Copies,   \* cfg.terminal_copies
          AutoArm

ASSUME VehicleAssumption ==
    Cycles \in Nat \ {0} /\ Copies \in Nat \ {0} /\ AutoArm \in BOOLEAN

Total == Cycles + Warmup
Rungs == {"fresh", "coast", "neutral", "lost"}
WindowFields == Rungs \union {"sent", "failed", "served"}

\* sim_seen is "none" without an envelope; controls is the recording.
NewRuntime ==
    [tick_base |-> 0, admission |-> NewAdmission(0), state |-> initial(AutoArm),
     controls |-> <<>>, episode_window |-> Zero(WindowFields),
     recorded_window |-> Zero(WindowFields), discarded |-> 0, sim_seen |-> "none",
     terminal_received_recorded |-> 0, terminal_cycle |-> 0, first_terminal_tx_ok |-> FALSE,
     term_attempts |-> 0, term_sent |-> 0, term_failed |-> 0, failure |-> "NONE"]

\* Origin acquired from the carried datagram.
Acquired(r, carry) ==
    [r EXCEPT !.tick_base = carry.tick, !.admission = NewAdmission(carry.tick)]

Recording(r) == Len(r.controls) >= Warmup    \* past the warm-up

\* The admission (a set of one) after the datagrams of a batch, in their order.
ReceiveAll(opened, frames) ==
    LET after[i \in 0 .. Len(frames)] ==
            IF i = 0 THEN {opened} ELSE {receive(a, frames[i]) : a \in after[i - 1]}
    IN  after[Len(frames)]

Now(r) == r.tick_base + Len(r.controls)      \* this cycle's tick

\* From the batch to the policy: one cycle of the admission.
Admitted(r, a) ==
    LET envelopes == a.terminals["received_raw"] - r.admission.terminals["received_raw"]
    IN  [r EXCEPT
            !.admission = a,
            !.terminal_received_recorded = IF Recording(r) THEN @ + envelopes ELSE @,
            !.sim_seen = IF a.latch = NoFrame THEN @ ELSE a.latch.reason]
Admissions(r, frames) ==
    {Admitted(r, finish_cycle(a)) : a \in ReceiveAll(begin_cycle(r.admission, Now(r)), frames)}

\* What the policy is given.
Held(r) ==
    LET f == r.admission.held
    IN  IF f = NoFrame THEN NoHeld ELSE [tick |-> f.tick, class |-> f.body]
PolicyInput(r, stop) ==
    [tick |-> Now(r), held |-> Held(r), fresh |-> r.admission.fresh,
     staleness |-> staleness(r.admission), command |-> NoCommand,
     horizon_reached |-> Len(r.controls) + 1 = Total, sim_reason |-> r.sim_seen,
     stop_reason |-> IF stop THEN "SIGNAL" ELSE "NONE"]

Rung(fresh, age) ==
    IF age >= StaleLimit THEN "lost" ELSE IF fresh THEN "fresh"
    ELSE IF age <= CoastLimit THEN "coast" ELSE "neutral"

\* Mutant: the terminal reply counts as an ordinary one.
WindowRecordAll(w, rung, over, success, fresh) ==
    [k \in WindowFields |-> w[k] +
        (IF \/ k = rung
            \/ k = "sent" /\ success
            \/ k = "failed" /\ ~success
            \/ k = "served" /\ fresh /\ success
         THEN 1 ELSE 0)]

\* Window::record.
WindowRecord(w, rung, over, success, fresh) ==
    [k \in WindowFields |-> w[k] +
        (IF \/ k = rung
            \/ k = "sent" /\ ~over /\ success
            \/ k = "failed" /\ ~over /\ ~success
            \/ k = "served" /\ fresh /\ success
         THEN 1 ELSE 0)]

\* The control record of the cycle.
Control(r, state, success) ==
    LET a == r.admission
    IN  [tick |-> Now(r), sensor_tick |-> a.held.tick, fresh |-> a.fresh,
         staleness |-> staleness(a), rx_count |-> a.rx_count, old |-> a.counts["old"],
         superseded |-> a.counts["superseded"],
         other |-> a.counts["nonfinite"] + a.counts["skew_excess"],
         state |-> state.mode, reason |-> state.terminal.reason, sent |-> success]

\* The rest of the cycle, once the policy has taken the episode to state: the
\* reply's send and the record.
Served(r, state, success) ==
    LET a == r.admission
        over == state.mode = "TERMINATED"
        rung == Rung(a.fresh, staleness(a))
        one == IF over THEN 1 ELSE 0
    IN  [r EXCEPT
            !.state = state,
            !.controls = Append(@, Control(r, state, success)),
            !.episode_window = WindowRecord(@, rung, over, success, a.fresh),
            !.recorded_window = IF Recording(r)
                                THEN WindowRecord(@, rung, over, success, a.fresh) ELSE @,
            !.discarded = IF Recording(r) THEN @ + a.discard_count ELSE @,
            !.terminal_cycle = one, !.term_attempts = one,
            !.first_terminal_tx_ok = over /\ success,
            !.term_sent = IF success THEN one ELSE 0,
            !.term_failed = IF success THEN 0 ELSE one]

Over(r) == r.state.mode = "TERMINATED"

\* One pass of resend_terminal.
Resent(r, success) ==
    [r EXCEPT !.term_attempts = @ + 1,
              !.term_sent = @ + (IF success THEN 1 ELSE 0),
              !.term_failed = @ + (IF success THEN 0 ELSE 1)]

\* The reason run reports, and its exit code.
VehicleReason(r) ==
    IF r.failure # "NONE" THEN r.failure
    ELSE IF Over(r) THEN r.state.terminal.reason ELSE "INTERNAL"
VehicleCode(r, output_ok, stop, rt_ok, acquired) ==
    IF ~output_ok THEN 4
    ELSE IF stop THEN 3
    ELSE IF ~rt_ok THEN 2
    ELSE IF r.admission.integrity \/ ~identities_hold(r.admission) THEN 6
    ELSE IF ~acquired \/ r.failure # "NONE" \/ r.term_sent = 0 THEN 5
    ELSE 0
=============================================================================
