----------------------------- MODULE FreerunSim -----------------------------
(***************************************************************************)
(* The free-running simulator of sim/freerun.py: its Model, as a record,   *)
(* and what a pass of its loops does to it.  The plant, the random losses  *)
(* and the scenario's gusts and forced drops are choices of the            *)
(* environment, so the delay line and the actuator, whose outputs only     *)
(* reach the plant and the trace, are left out.                            *)
(***************************************************************************)
EXTENDS Sequences, Admission

CONSTANTS Ticks,    \* spec.ticks
          Lossy,    \* whether the scenario's links lose anything
          Truths    \* classes the plant may reach

ASSUME SimAssumption ==
    /\ Ticks \in Nat \ {0, 1} /\ Lossy \in BOOLEAN
    /\ Truths \subseteq {"settled", "off", "diverged", "nonfinite"}

UpFields == {"generated", "intentionally_lost", "transmitted", "sensor_tx_fail"}
DownFields == {"received", "intentionally_lost", "actuator_selected", "superseded", "malformed"}
TermFields == {"up_attempts", "up_intentionally_lost", "up_tx_fail", "up_transmitted",
               "down_received_raw", "down_intentionally_lost", "down_survived"}

\* inputs holds the ticks of the samples recorded, terminal_logged whether the
\* envelope is; source is termination_source.
NewModel(class) ==
    [truth |-> class, reason |-> "none", vehicle_seen |-> "NONE", source |-> "none",
     up |-> Zero(UpFields), down |-> Zero(DownFields), term |-> Zero(TermFields),
     last_received_tick |-> -1, inputs |-> {}, terminal_logged |-> FALSE,
     envelope |-> NoFrame]

Draws == IF Lossy THEN BOOLEAN ELSE {FALSE}
Plus(c, field, by) == [c EXCEPT ![field] = @ + by]
Largest(S) == CHOOSE x \in S : \A y \in S : y <= x

\* Replies of the vehicle; one that does not decode is not sound.
Reply(t, state, reason) == [tick |-> t, state |-> state, reason |-> reason, sound |-> TRUE]

\* receive: the packets of one drain, with the losses drawn for them.
SimReceive(m, packets, drop) ==
    LET sound == {i \in DOMAIN packets : packets[i].sound}
        ends == {i \in sound : packets[i].state = "TERMINATED"}
        normal == sound \ ends
        lost == {i \in sound : drop[i]}
        survivors == Cardinality(normal \ lost)
        seen == IF ends \subseteq lost THEN m.vehicle_seen
                ELSE packets[Largest(ends \ lost)].reason
        selected == IF seen = "NONE" /\ survivors > 0 THEN 1 ELSE 0
        ticks == {packets[i].tick : i \in normal} \union {m.last_received_tick}
    IN  [m EXCEPT
            !.vehicle_seen = seen,
            !.reason = IF seen # "NONE" /\ @ = "none" THEN "vehicle" ELSE @,
            !.last_received_tick = Largest(ticks),
            !.term["down_received_raw"] = @ + Cardinality(ends),
            !.term["down_intentionally_lost"] = @ + Cardinality(ends \intersect lost),
            !.term["down_survived"] = @ + Cardinality(ends \ lost),
            !.down["malformed"] = @ + (Len(packets) - Cardinality(sound)),
            !.down["received"] = @ + Cardinality(normal),
            !.down["intentionally_lost"] = @ + Cardinality(normal \intersect lost),
            !.down["actuator_selected"] = @ + selected,
            !.down["superseded"] = @ + (survivors - selected)]

\* advance: the plant's step, and what it finds.
advance(m, k, class) ==
    LET reason == CASE class = "nonfinite" -> "nonfinite" [] class = "diverged" -> "angle"
                    [] OTHER -> IF k + 1 = Ticks - 1 THEN "horizon" ELSE "none"
    IN  [m EXCEPT !.truth = class, !.reason = reason,
                  !.source = IF reason = "none" THEN @ ELSE "local"]

\* Mutant: every copy of the envelope is encoded anew.
FrameToOfferAnew(m, tick, over) ==
    [tick |-> tick, use |-> "valid", reason |-> IF over THEN m.reason ELSE "none",
     body |-> IF over /\ m.envelope # NoFrame THEN "restamped" ELSE m.truth]

\* The frame an offer sends: the envelope is encoded once, its copies are cached.
FrameToOffer(m, tick, over) ==
    IF over /\ m.envelope # NoFrame THEN m.envelope
    ELSE [tick |-> tick, use |-> "valid", reason |-> IF over THEN m.reason ELSE "none",
          body |-> m.truth]

\* offer: how is "lost" (modelled loss), "failed" or "sent".
offer(m, tick, over, how) ==
    LET f == FrameToOffer(m, tick, over)
        field == IF over
                 THEN [lost |-> "up_intentionally_lost", failed |-> "up_tx_fail",
                       sent |-> "up_transmitted"][how]
                 ELSE [lost |-> "intentionally_lost", failed |-> "sensor_tx_fail",
                       sent |-> "transmitted"][how]
        counted == IF over
                   THEN [m EXCEPT !.envelope = f, !.term = Plus(Plus(@, "up_attempts", 1), field, 1)]
                   ELSE [m EXCEPT !.up = Plus(Plus(@, "generated", 1), field, 1)]
    IN  IF how # "sent" THEN counted
        ELSE IF over THEN [counted EXCEPT !.terminal_logged = TRUE]
        ELSE [counted EXCEPT !.inputs = @ \union {tick}]
=============================================================================
