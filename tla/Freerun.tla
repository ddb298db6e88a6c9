------------------------------ MODULE Freerun ------------------------------
(***************************************************************************)
(* A free run: the simulator (sim/freerun.py) and the vehicle              *)
(* (src/freerun.cpp) on two schedules of their own, the sockets between    *)
(* them and the script that judges the run (scripts/run_scenario.py).      *)
(*                                                                         *)
(* Neither schedule waits for the other, so the two interleave freely,     *)
(* which includes a process delayed for several periods.  A loopback       *)
(* socket keeps the order of its datagrams.  What goes wrong is bounded by *)
(* MaxFaults and recorded in faults.                                       *)
(***************************************************************************)
EXTENDS FreerunReport

CONSTANTS Grace,      \* GRACE_TICKS, periods the simulator waits for an answer, 16
          MaxFaults   \* bound: faults in a behaviour

ASSUME FreerunAssumption == Grace \in Nat \ {0} /\ MaxFaults \in Nat /\ SkewMax <= MaxSkew

VARIABLES
    \* the simulator: k is the body's number, offset the pass of the loop after
    \* the terminal tick (0 in the body)
    spc, model, k, offset, stopped, scode,
    \* the vehicle
    vpc, r, carry, acquired, rt_ok, stop, vcode,
    \* the sockets: datagrams under way and pending ECONNREFUSED errors
    uplink, downlink, sim_refused, veh_refused,
    \* the runner
    rpc, rcode,
    faults,     \* history: the faults so far
    damaged,    \* history: ticks of samples the network lost or corrupted
    decided,    \* history: which side ended its episode first
    up_open, down_open  \* history: the last terminal send found its receiver open

sim == <<spc, model, k, offset, scode>>
vehicle == <<vpc, r, carry, acquired, rt_ok, vcode>>
signals == <<stopped, stop>>
net == <<uplink, downlink, sim_refused, veh_refused>>
runner == <<rpc, rcode>>
history == <<damaged, decided, up_open, down_open>>
vars == <<sim, vehicle, signals, net, runner, faults, history>>

Killed == -9
Fault(kind) == Len(faults) < MaxFaults /\ faults' = Append(faults, kind)
NoFault == UNCHANGED faults

\* recv_batch and drain: at most RxMax datagrams; the others stay in the socket.
Batch(queue) == SubSeq(queue, 1, IF Len(queue) < RxMax THEN Len(queue) ELSE RxMax)
Rest(queue) == SubSeq(queue, Len(Batch(queue)) + 1, Len(queue))

Init ==
    /\ spc = "prologue" /\ k = 0 /\ offset = 0 /\ scode = 0
    /\ \E class \in Truths \ {"nonfinite"} : model = NewModel(class)
    /\ vpc = "acquire" /\ r = NewRuntime /\ carry = NoFrame /\ acquired = FALSE
    /\ rt_ok = TRUE /\ vcode = 0 /\ stopped = FALSE /\ stop = FALSE
    /\ uplink = <<>> /\ downlink = <<>> /\ sim_refused = FALSE /\ veh_refused = FALSE
    /\ rpc = "sim" /\ rcode = 0 /\ faults = <<>>
    /\ damaged = {} /\ decided = "none" /\ up_open = FALSE /\ down_open = FALSE

-----------------------------------------------------------------------------
(* The simulator, execute of sim/freerun.py. *)
SimEnds(m, code) ==
    /\ spc' = "done" /\ scode' = code
    /\ model' = [m EXCEPT !.reason = IF @ = "none" THEN "peer_lost" ELSE @]
    /\ downlink' = <<>> /\ UNCHANGED <<k, offset>>

Decides(who) == decided' = IF decided = "none" THEN who ELSE decided

\* The datagram leaves: for the vehicle, or for a port that is closed.
SendUp(f) ==
    IF vpc = "exited" THEN sim_refused' = TRUE /\ UNCHANGED uplink
    ELSE uplink' = Append(uplink, f) /\ UNCHANGED sim_refused

\* offer of the frame of tick, with the loss drawn for it and the send's result.
Offers(tick, over, draws) ==
    \E how \in {"lost", "failed", "sent"} :
        /\ how = "lost" => TRUE \in draws
        /\ model' = offer(model, tick, over, how)
        /\ CASE how = "lost" -> UNCHANGED <<uplink, sim_refused>> /\ NoFault
             [] how = "failed" -> /\ UNCHANGED uplink /\ sim_refused' = FALSE
                                  /\ IF sim_refused THEN NoFault ELSE Fault("sensor")
             [] how = "sent" -> /\ ~sim_refused /\ NoFault
                                /\ SendUp(FrameToOffer(model, tick, over))
        /\ up_open' = IF over /\ how # "lost" THEN vpc \in {"acquire", "wake", "serve"}
                      ELSE up_open

\* The first frame is never lost by the model; a failed send ends the run.
Prologue ==
    /\ spc = "prologue"
    /\ \E m \in {offer(model, 0, FALSE, how) : how \in {"failed", "sent"}} :
          \/ /\ m.up["transmitted"] = 0 /\ Fault("sensor") /\ SimEnds(m, 1)
             /\ UNCHANGED <<uplink, sim_refused>>
          \/ /\ m.up["transmitted"] = 1 /\ NoFault /\ model' = m /\ spc' = "drain"
             /\ SendUp(FrameToOffer(model, 0, FALSE))
             /\ UNCHANGED <<k, offset, scode, downlink>>
    /\ UNCHANGED <<vehicle, signals, veh_refused, runner, history>>

\* sleep_until raises once a signal came; a pending error escapes from drain.
Interrupted ==
    /\ spc = "drain" /\ (stopped \/ sim_refused)
    /\ SimEnds(model, IF stopped THEN 3 ELSE 1)
    /\ sim_refused' = FALSE
    /\ UNCHANGED <<vehicle, signals, uplink, veh_refused, runner, faults, history>>

\* What the packets of a pass may come to, by the losses drawn.
Drains == {SimReceive(model, Batch(downlink), drop) : drop \in [DOMAIN Batch(downlink) -> Draws]}

\* A body: the vehicle's ending stops the plant, otherwise it advances.
Body ==
    /\ spc = "drain" /\ ~stopped /\ ~sim_refused /\ offset = 0
    /\ \E m \in Drains :
          \/ /\ m.vehicle_seen # "NONE"
             /\ SimEnds([m EXCEPT !.source = "vehicle"], 0) /\ UNCHANGED decided
          \/ /\ m.vehicle_seen = "NONE"
             /\ \E class \in Truths : model' = advance(m, k, class)
             /\ IF model'.reason = "none" THEN UNCHANGED decided ELSE Decides("sim_first")
             /\ downlink' = Rest(downlink) /\ spc' = "offer"
             /\ UNCHANGED <<k, offset, scode>>
    /\ UNCHANGED <<vehicle, signals, uplink, sim_refused, veh_refused, runner, faults,
                   damaged, up_open, down_open>>

\* The last pass of the loop after the terminal tick.
LastPass == offset + 1 = Copies + Grace

\* A pass after the terminal tick: an answer ends the run; a copy is due while
\* the budget lasts.
After ==
    /\ spc = "drain" /\ ~stopped /\ ~sim_refused /\ offset > 0
    /\ \E m \in Drains :
          \/ m.vehicle_seen # "NONE" /\ SimEnds(m, 0)
          \/ m.vehicle_seen = "NONE" /\ LastPass /\ SimEnds(m, 3)
          \/ /\ m.vehicle_seen = "NONE" /\ ~LastPass
             /\ model' = m /\ downlink' = Rest(downlink)
             /\ IF offset < Copies THEN spc' = "offer" /\ UNCHANGED offset
                ELSE spc' = "drain" /\ offset' = offset + 1
             /\ UNCHANGED <<k, scode>>
    /\ UNCHANGED <<vehicle, signals, uplink, sim_refused, veh_refused, runner, faults, history>>

\* The pass's frame: the next sample, or the envelope of the terminal tick.
Offer ==
    LET over == model.reason # "none"
    IN  /\ spc = "offer"
        /\ Offers(k + 1, over, Draws)
        /\ spc' = "drain"
        /\ IF over THEN offset' = offset + 1 /\ UNCHANGED k ELSE k' = k + 1 /\ UNCHANGED offset
        /\ UNCHANGED <<scode, vehicle, signals, downlink, veh_refused, runner,
                       damaged, decided, down_open>>

\* The kill_at hook, at the top of a body.
SimKilled ==
    /\ spc = "drain" /\ offset = 0 /\ Fault("kill")
    /\ spc' = "done" /\ scode' = Killed /\ downlink' = <<>>
    /\ UNCHANGED <<model, k, offset, vehicle, signals, uplink, sim_refused, veh_refused,
                   runner, history>>

Sim == Prologue \/ Interrupted \/ Body \/ After \/ Offer

-----------------------------------------------------------------------------
(* The vehicle, run and run_freerun of src/freerun.cpp. *)

\* The first datagram gives the origin, if it is a sample; there is no second try.
Acquire ==
    /\ vpc = "acquire" /\ uplink # <<>>
    /\ uplink' = Tail(uplink)
    /\ IF Head(uplink) = Malformed THEN vpc' = "after" /\ UNCHANGED <<r, carry, acquired>>
       ELSE /\ vpc' = "wake" /\ r' = Acquired(r, Head(uplink)) /\ carry' = Head(uplink)
            /\ acquired' = TRUE
    /\ UNCHANGED <<sim, rt_ok, vcode, signals, downlink, sim_refused, veh_refused, runner,
                   faults, history>>

\* Mutant: the wait for the first datagram has no limit.
AcquireWaits == vpc = "acquire" /\ uplink = <<>> /\ UNCHANGED vars

\* No datagram for five seconds, or the real-time set-up fails.
AcquireFails ==
    /\ vpc = "acquire"
    /\ \/ uplink = <<>> /\ spc = "done" /\ NoFault /\ UNCHANGED rt_ok
       \/ uplink = <<>> /\ spc # "done" /\ Fault("origin") /\ UNCHANGED rt_ok
       \/ Fault("rt") /\ rt_ok' = FALSE
    /\ vpc' = "after"
    /\ UNCHANGED <<sim, r, carry, acquired, vcode, signals, net, runner, history>>

\* Mutant: the datagram that gave the origin is forgotten.
CarriedForgotten == <<>>

\* Cycle zero also takes the datagram that gave the origin.
Carried == IF Len(r.controls) = 0 THEN <<carry>> ELSE <<>>

\* A cycle wakes and takes a batch; a pending error takes its place.
Wake ==
    /\ vpc = "wake" /\ vpc' = "serve"
    /\ r' \in Admissions(r, Carried \o (IF veh_refused THEN <<>> ELSE Batch(uplink)))
    /\ uplink' = IF veh_refused THEN uplink ELSE Rest(uplink)
    /\ veh_refused' = FALSE
    /\ UNCHANGED <<sim, carry, acquired, rt_ok, vcode, signals, downlink, sim_refused, runner,
                   faults, history>>

\* clock_nanosleep fails: the loop, or the resending, is left.
SleepFails ==
    /\ vpc \in {"wake", "resend"} /\ Fault("sleep") /\ vpc' = "after"
    /\ r' = IF vpc = "wake" THEN [r EXCEPT !.failure = "INTERNAL"] ELSE r
    /\ UNCHANGED <<sim, carry, acquired, rt_ok, vcode, signals, net, runner, history>>

\* A send of the reply m: refused by a pending error, failed, or under way.
Replies(m, success) ==
    /\ IF success
       THEN /\ ~veh_refused /\ NoFault
            /\ IF spc = "done" THEN veh_refused' = TRUE /\ UNCHANGED downlink
               ELSE downlink' = Append(downlink, m) /\ UNCHANGED veh_refused
       ELSE /\ UNCHANGED downlink /\ veh_refused' = FALSE
            /\ IF veh_refused THEN NoFault ELSE Fault("reply")
    /\ UNCHANGED <<uplink, sim_refused>>

ReplyOf(rt) == Reply(Now(rt) - 1, rt.state.mode, rt.state.terminal.reason)

\* The policy, the reply and the record of the cycle.
Serve ==
    /\ vpc = "serve"
    /\ \E success \in BOOLEAN, state \in {step(r.state, PolicyInput(r, stop)).state} :
          r' = Served(r, state, success) /\ Replies(ReplyOf(r'), success)
    /\ vpc' = IF ~Over(r') THEN "wake" ELSE IF Copies > 1 THEN "resend" ELSE "after"
    /\ IF Over(r') THEN Decides("vehicle_first") /\ down_open' = (spc # "done")
       ELSE UNCHANGED <<decided, down_open>>
    /\ UNCHANGED <<sim, carry, acquired, rt_ok, vcode, signals, runner, damaged, up_open>>

\* resend_terminal: the same reply, once a period, until the budget or a stop.
Resend ==
    /\ vpc = "resend"
    /\ IF stop
       THEN vpc' = "after" /\ UNCHANGED <<r, net, faults, down_open>>
       ELSE /\ \E success \in BOOLEAN : r' = Resent(r, success) /\ Replies(ReplyOf(r), success)
            /\ vpc' = IF r'.term_attempts < Copies THEN "resend" ELSE "after"
            /\ down_open' = (spc # "done")
    /\ UNCHANGED <<sim, carry, acquired, rt_ok, vcode, signals, runner, damaged, decided, up_open>>

\* The drain stops, the socket closes, the summary is written.
Exit ==
    /\ vpc = "after" /\ vpc' = "exited"
    /\ r' = [r EXCEPT !.failure = IF ~rt_ok THEN "INTERNAL" ELSE IF acquired THEN @
                                  ELSE IF stop THEN "SIGNAL" ELSE "PEER_LOST"]
    /\ \/ vcode' = VehicleCode(r', TRUE, stop, rt_ok, acquired) /\ NoFault
       \/ vcode' = VehicleCode(r', FALSE, stop, rt_ok, acquired) /\ Fault("record")
    /\ uplink' = <<>>
    /\ UNCHANGED <<sim, carry, acquired, rt_ok, signals, downlink, sim_refused, veh_refused,
                   runner, history>>

Vehicle ==
    \/ Acquire \/ Wake \/ Serve \/ Resend \/ Exit
    \/ uplink = <<>> /\ spc = "done" /\ AcquireFails

-----------------------------------------------------------------------------
(* Faults from outside. *)
Without(queue, i) == SubSeq(queue, 1, i - 1) \o SubSeq(queue, i + 1, Len(queue))
Damage(f) == damaged' = IF f = Malformed \/ IsTerminal(f) THEN damaged ELSE damaged \union {f.tick}

Lose ==
    /\ Fault("lost")
    /\ \/ \E i \in DOMAIN uplink :
              uplink' = Without(uplink, i) /\ Damage(uplink[i]) /\ UNCHANGED downlink
       \/ \E i \in DOMAIN downlink :
              downlink' = Without(downlink, i) /\ UNCHANGED <<uplink, damaged>>
    /\ UNCHANGED <<sim, vehicle, signals, sim_refused, veh_refused, runner,
                   decided, up_open, down_open>>

Corrupt ==
    /\ Fault("corrupt")
    /\ \/ \E i \in DOMAIN uplink :
              /\ uplink[i] # Malformed /\ uplink' = [uplink EXCEPT ![i] = Malformed]
              /\ Damage(uplink[i]) /\ UNCHANGED downlink
       \/ \E i \in DOMAIN downlink :
              /\ downlink[i].sound /\ downlink' = [downlink EXCEPT ![i].sound = FALSE]
              /\ UNCHANGED <<uplink, damaged>>
    /\ UNCHANGED <<sim, vehicle, signals, sim_refused, veh_refused, runner,
                   decided, up_open, down_open>>

\* SIGTERM to the vehicle interrupts the wait for the first datagram, or comes
\* just before it.
RaiseStop ==
    /\ stop' = TRUE
    /\ vpc' \in IF vpc = "acquire" THEN {"acquire", "after"} ELSE {vpc}

Signal ==
    /\ vpc # "exited" /\ ~stop /\ Fault("signal") /\ RaiseStop
    /\ UNCHANGED <<sim, r, carry, acquired, rt_ok, vcode, stopped, net, runner, history>>

SimSignal ==
    /\ spc # "done" /\ ~stopped /\ Fault("sim_signal") /\ stopped' = TRUE
    /\ UNCHANGED <<sim, vehicle, stop, net, runner, history>>

-----------------------------------------------------------------------------
(* The runner, run_free_case of scripts/run_scenario.py. *)
SimEnded ==
    /\ rpc = "sim" /\ spc = "done" /\ rpc' = "vehicle"
    /\ UNCHANGED <<sim, vehicle, signals, net, rcode, faults, history>>

VehicleEnded ==
    /\ rpc = "vehicle" /\ vpc = "exited" /\ rpc' = "report"
    /\ rcode' = IF scode # 0 THEN 3 ELSE IF vcode # 0 THEN 2 ELSE 0
    /\ UNCHANGED <<sim, vehicle, signals, net, faults, history>>

\* A wait expires: the simulator is told to stop, if it still runs.
WaitExpires ==
    /\ Fault("slow")
    /\ \/ rpc = "sim" /\ spc # "done"
       \/ rpc = "vehicle" /\ vpc # "exited"
    /\ rpc' = "stop" /\ rcode' = (IF vpc = "exited" THEN 2 ELSE 3)
    /\ stopped' = TRUE
    /\ UNCHANGED <<sim, vehicle, stop, net, history>>

\* stop_process of the vehicle, after the simulator's.
StopVehicle ==
    /\ rpc = "stop" /\ spc = "done" /\ rpc' = "stopping"
    /\ IF vpc = "exited" THEN UNCHANGED <<vpc, stop>> ELSE RaiseStop
    /\ UNCHANGED <<sim, r, carry, acquired, rt_ok, vcode, stopped, net, rcode, faults, history>>

Stopped ==
    /\ rpc = "stopping" /\ vpc = "exited" /\ rpc' = "report"
    /\ UNCHANGED <<sim, vehicle, signals, net, rcode, faults, history>>

\* The code the runner reports; order is what terminal_order makes of the clocks.
Judged(code, order) ==
    LET reason == VehicleReason(r)
    IN  IF ~eligible(r, model, order, up_open, down_open) /\ reason \notin NoEvidence THEN 8
        ELSE IF code # 0 THEN code
        ELSE IF ~LegsComplete(r, model, order) \/ model.vehicle_seen = "NONE" THEN 3
        ELSE 0

\* The reports are reconciled when both are complete.
Judge ==
    /\ rpc = "report" /\ rpc' = "done"
    /\ IF scode = Killed THEN UNCHANGED rcode
       ELSE IF vcode = 4 THEN rcode' \in {rcode, 8}
       ELSE \E clock \in {decided, "none"} :
                rcode' = Judged(rcode, terminal_order(r, model, clock))
    /\ UNCHANGED <<sim, vehicle, signals, net, faults, history>>

Runner == SimEnded \/ VehicleEnded \/ StopVehicle \/ Stopped \/ Judge

Finished == rpc = "done" /\ UNCHANGED vars
Next ==
    \/ Sim \/ SimKilled \/ SimSignal
    \/ Acquire \/ AcquireFails \/ Wake \/ SleepFails \/ Serve \/ Resend \/ Exit \/ Signal
    \/ Lose \/ Corrupt \/ Runner \/ WaitExpires \/ Finished

\* Both processes go on, and so does the runner.
Spec == Init /\ [][Next]_vars /\ WF_vars(Sim) /\ WF_vars(Vehicle) /\ WF_vars(Runner)

-----------------------------------------------------------------------------
(* Properties. *)

\* Whatever the schedules and the first tick received, the admission gives the
\* policy the observations its contract in src/episode.hpp asks for: a fresh one
\* is newer than the one held before and not from the future, a stale one is
\* older than the cycle.
PolicyContract ==
    vpc = "serve" =>
        LET in == PolicyInput(r, stop)
            before == IF r.controls = <<>> THEN NoTick ELSE r.controls[Len(r.controls)].sensor_tick
        IN  /\ in.fresh => in.held.tick \in before + 1 .. in.tick
            /\ ~in.fresh => in.held.tick = before /\ before < in.tick

\* The vehicle never accuses the simulator of what it does not do: of the causes
\* that fail the vehicle's integrity only corruption and a simulator too far
\* ahead occur; no frame conflicts with another one of its tick, no parked frame
\* expires.
NoFalseConflict ==
    LET a == r.admission
    IN  a.integrity => a.episode["malformed"] + a.episode["skew_excess"]
                       + a.terminals["skew_excess"] > 0

\* The two sides tell one story of the end: at most one ended because of the
\* other, so that terminal_order of reconcile.py never meets contradictory
\* causes; a reason one has seen of the other is the one the other reports; and
\* when both report success, the reasons are a pair that reconcile.py accepts
\* and the simulator knows the vehicle's.
EndsAgree ==
    /\ ~Contradictory(r, model)
    /\ ObservationsAgree(r, model)
    /\ /\ spc = "done" /\ vpc = "exited" /\ scode = 0 /\ vcode = 0
       /\ r.sim_seen # "none" \/ model.source = "vehicle"
       => /\ <<model.reason, VehicleReason(r)>> \in PairedReasons
          /\ model.vehicle_seen = VehicleReason(r)

\* However the run went, the vehicle's summary and its recording agree: the
\* counters of both windows equal the sums over the records (scripts/latency.py).
MeasurementValid == vpc = "exited" => validate(r)

\* Delays alone are never reported as a fault of the link: without faults, and
\* with both exit codes 0, every receipt check of reconcile_freerun holds.
DelaysAreNotLosses ==
    /\ spc = "done" /\ vpc = "exited" /\ scode = 0 /\ vcode = 0 /\ faults = <<>>
    => /\ uplink_receipt(r, model) /\ downlink_receipt(r, model)
       /\ SimCloses(model) /\ LinkSound(r, model)

\* A run judged 0 lost no sample between the first and the last tick that the
\* vehicle received.
LossIsReported ==
    rpc = "done" /\ rcode = 0 => Within(r, damaged, r.admission.last_normal_tick) = {}

\* Every run ends, whichever datagram is lost and whoever dies.
RunEnds == <>(rpc = "done")
=============================================================================
