--------------------------- MODULE FreerunReport ---------------------------
(***************************************************************************)
(* The judgement of a free run, from the vehicle's Runtime r and the       *)
(* simulator's Model m: validate of scripts/latency.py and                 *)
(* reconcile_freerun of scripts/reconcile.py.  Checks of wall-clock        *)
(* distributions are left out; of the timestamps only the order that       *)
(* terminal_order and terminal_residual derive from them is kept.          *)
(***************************************************************************)
EXTENDS FreerunVehicle, FreerunSim

\* Records that pass a test, and the sum of a count over the records (as the
\* number of pairs of a record and one of the things it counts).
CountOf(rows, test(_)) == Cardinality({i \in DOMAIN rows : test(rows[i])})
SumOver(rows, op(_)) == Cardinality(UNION {{i} \X (1 .. op(rows[i])) : i \in DOMAIN rows})

\* One window's counters against the records of its cycles.
WindowMatches(c, w, envelopes, rows) ==
    /\ \A k \in Rungs : w[k] = CountOf(rows, LAMBDA x : Rung(x.fresh, x.staleness) = k)
    /\ c["consumed"] = CountOf(rows, LAMBDA x : x.fresh)
    /\ w["served"] = CountOf(rows, LAMBDA x : x.fresh /\ x.sent)
    /\ w["sent"] = CountOf(rows, LAMBDA x : x.state # "TERMINATED" /\ x.sent)
    /\ w["failed"] = CountOf(rows, LAMBDA x : x.state # "TERMINATED" /\ ~x.sent)
    /\ c["old"] = SumOver(rows, LAMBDA x : x.old)
    /\ c["superseded"] = SumOver(rows, LAMBDA x : x.superseded)
    /\ c["nonfinite"] + c["skew_excess"] = SumOver(rows, LAMBDA x : x.other)
    /\ SumOver(rows, LAMBDA x : x.rx_count) = c["received"] + c["malformed"] + envelopes

\* The age and the tick of the held sample follow from the records before.
HistoryMatches(rows) ==
    LET held[n \in 0 .. Len(rows)] ==
            IF n = 0 THEN -1 ELSE IF rows[n].fresh THEN rows[n].sensor_tick ELSE held[n - 1]
    IN  \A n \in DOMAIN rows :
            /\ rows[n].fresh => rows[n].sensor_tick \in held[n - 1] + 1 .. rows[n].tick
            /\ rows[n].sensor_tick = held[n]
            /\ rows[n].staleness = IF held[n] = -1 THEN n ELSE rows[n].tick - held[n]

RecordedRows(r) == SubSeq(r.controls, Warmup + 1, Len(r.controls))

validate(r) ==
    LET a == r.admission
        rows == r.controls
        total == Len(rows)
        ended == CountOf(rows, LAMBDA x : x.state = "TERMINATED")
    IN  /\ IF total > Warmup
           THEN a.warmup_occupancy >= 0 /\ Closes(a.recorded, a.warmup_occupancy, future_parked(a))
           ELSE /\ a.warmup_occupancy = -1
                /\ \A k \in CountFields : a.recorded[k] = 0
                /\ \A k \in WindowFields : r.recorded_window[k] = 0
        /\ Closes(a.episode, 0, future_parked(a))
        /\ r.terminal_cycle = ended /\ ended <= 1
        /\ r.term_attempts = r.term_sent + r.term_failed
        /\ IF ended = 1
           THEN /\ r.term_attempts >= 1 /\ r.first_terminal_tx_ok = rows[total].sent
                /\ r.term_sent > 0 \/ ~r.first_terminal_tx_ok
                /\ r.term_failed > 0 \/ r.first_terminal_tx_ok
           ELSE r.term_attempts = 0
        /\ \A n \in DOMAIN rows : /\ rows[n].tick = r.tick_base + n - 1
                                  /\ rows[n].rx_count <= IF n = 1 THEN RxMax + 1 ELSE RxMax
        /\ HistoryMatches(rows)
        /\ WindowMatches(a.episode, r.episode_window, a.terminals["received_raw"], rows)
        /\ WindowMatches(a.recorded, r.recorded_window, r.terminal_received_recorded, RecordedRows(r))
        /\ r.discarded = a.recorded["old"] + a.recorded["superseded"]
                         + a.recorded["nonfinite"] + a.recorded["skew_excess"]

-----------------------------------------------------------------------------
Within(r, ticks, last) == {t \in ticks : r.tick_base <= t /\ t <= last}
SentTicks(r) ==
    {r.controls[i].tick : i \in {j \in DOMAIN r.controls :
        r.controls[j].state # "TERMINATED" /\ r.controls[j].sent}}

\* Mutant: the window's samples are not counted.
uplink_receiptUncounted(r, m) ==
    LET last == r.admission.last_normal_tick
    IN  IF r.admission.episode["received"] = 0 THEN last = -1 ELSE last \in m.inputs

\* uplink: samples the vehicle received, and samples sent in the window that
\* begins with its first tick and ends with the last one received.
uplink_receipt(r, m) ==
    LET last == r.admission.last_normal_tick
        received == r.admission.episode["received"]
    IN  /\ IF received = 0 THEN last = -1 ELSE last \in m.inputs
        /\ Cardinality(Within(r, m.inputs, last)) = received

\* downlink: the same of the ordinary replies.
downlink_receipt(r, m) ==
    LET last == m.last_received_tick
    IN  /\ IF m.down["received"] = 0 THEN last = -1 ELSE last \in SentTicks(r)
        /\ Cardinality(Within(r, SentTicks(r), last)) = m.down["received"]

\* Without one ordinary reply received the two windows cannot be compared.
OverlapEstablished(r, m) == m.last_received_tick # -1 \/ SentTicks(r) = {}

SimCloses(m) ==
    /\ m.up["generated"] = m.up["intentionally_lost"] + m.up["transmitted"] + m.up["sensor_tx_fail"]
    /\ Cardinality(m.inputs) = m.up["transmitted"]
    /\ m.terminal_logged = (m.term["up_transmitted"] > 0)
    /\ m.down["received"] = m.down["actuator_selected"] + m.down["intentionally_lost"]
                            + m.down["superseded"]
    /\ m.term["up_attempts"] = m.term["up_intentionally_lost"] + m.term["up_tx_fail"]
                               + m.term["up_transmitted"]
    /\ m.term["down_received_raw"] = m.term["down_intentionally_lost"] + m.term["down_survived"]
    /\ (m.vehicle_seen # "NONE") = (m.term["down_survived"] > 0)

LinkSound(r, m) ==
    /\ \A k \in {"malformed", "conflict", "skew_excess", "future_expired"} :
           r.admission.episode[k] = 0
    /\ \A k \in {"conflict", "illegal_reason", "future_expired", "skew_excess"} :
           r.admission.terminals[k] = 0
    /\ m.down["malformed"] = 0

\* The reasons the simulator and the vehicle may end one run with.
PairedReasons ==
    ({"horizon", "vehicle"} \X {"STABILIZED", "NOT_SETTLED", "SENSOR_LOST"})
    \union ({"angle", "nonfinite"} \X {"DIVERGED", "SENSOR_LOST"})
    \union {<<"vehicle", "DIVERGED">>, <<"vehicle", "GROUND_ABORT">>}

ObservationsAgree(r, m) ==
    /\ r.sim_seen # "none" => r.sim_seen = m.reason /\ r.admission.terminals["received_raw"] > 0
    /\ m.vehicle_seen # "NONE" => m.vehicle_seen = VehicleReason(r)

TerminalRecorded(r) ==
    /\ r.controls # <<>>
    /\ LET c == r.controls[Len(r.controls)]
       IN  /\ c.state = "TERMINATED" /\ c.reason = VehicleReason(r)
           /\ c.tick = r.state.terminal.tick

\* terminal_order: what one side observed decides; otherwise the clocks do, if
\* they can tell (clock is "none" when the two intervals overlap).
Contradictory(r, m) == m.source = "vehicle" /\ r.sim_seen # "none"
terminal_order(r, m, clock) ==
    IF m.source = "vehicle" THEN "vehicle_first"
    ELSE IF r.sim_seen # "none" THEN "sim_first"
    ELSE IF Over(r) /\ m.source = "local" THEN clock ELSE "none"

UpRequired(order) == order = "sim_first"
DownRequired(r, order) ==
    order = "vehicle_first" \/ (order = "sim_first" /\ r.admission.terminals["received_raw"] > 0)
LegsComplete(r, m, order) ==
    /\ order # "none"
    /\ UpRequired(order) => r.admission.terminals["received_raw"] > 0
    /\ DownRequired(r, order) => m.term["down_survived"] > 0

\* terminal_residual: no copy arrived of all that were sent while the receiver
\* was open (up_open and down_open: the last send preceded its close).
Unexplained(r, m, order, up_open, down_open) ==
    \/ /\ UpRequired(order) /\ up_open
       /\ m.term["up_transmitted"] > 0 /\ r.admission.terminals["received_raw"] = 0
    \/ /\ DownRequired(r, order) /\ down_open
       /\ r.term_sent > m.term["down_received_raw"] /\ m.term["down_survived"] = 0

NoEvidence == {"PEER_LOST", "SIGNAL", "INTERNAL"}

eligible(r, m, order, up_open, down_open) ==
    /\ validate(r) /\ SimCloses(m)
    /\ uplink_receipt(r, m) /\ OverlapEstablished(r, m) /\ downlink_receipt(r, m)
    /\ LinkSound(r, m)
    /\ ~Contradictory(r, m) /\ order # "none"
    /\ r.admission.terminals["received_raw"] <= m.term["up_transmitted"]
    /\ m.term["down_received_raw"] <= r.term_sent
    /\ ~Unexplained(r, m, order, up_open, down_open)
    /\ ObservationsAgree(r, m) /\ TerminalRecorded(r)
    /\ VehicleReason(r) \notin NoEvidence
    /\ <<m.reason, VehicleReason(r)>> \in PairedReasons
=============================================================================
