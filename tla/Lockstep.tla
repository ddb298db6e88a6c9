------------------------------ MODULE Lockstep ------------------------------
(***************************************************************************)
(* A lockstep run: the simulator process (sim/run_sim.py), the vehicle     *)
(* process (src/lockstep.cpp), the UDP sockets between them and the script *)
(* that supervises both (scripts/run_scenario.py) and reconciles their     *)
(* reports (scripts/reconcile.py).                                         *)
(*                                                                         *)
(* A datagram on its way may be overtaken, lost or corrupted; a deadline   *)
(* may expire at any time, so every retry and late answer happens.  What   *)
(* goes wrong is bounded by MaxFaults and recorded in faults.              *)
(***************************************************************************)
EXTENDS Episode, FiniteSets, Bags, Functions

CONSTANTS Ticks, CmdDelay, DelayTicks, AutoArm, Lossy, Requests, Truths,  \* as in Headless
          Attempts,   \* sends of one sample before the simulator gives up, 26
          MaxFaults,  \* bound: faults in a behaviour
          SlowHost    \* TRUE: the runner's waits may expire on a live process

ASSUME LockstepAssumption ==
    /\ Ticks \in Nat \ {0} /\ CmdDelay \in Nat \ {0} /\ DelayTicks \in {0, 1}
    /\ AutoArm \in BOOLEAN /\ Lossy \in BOOLEAN /\ Requests \subseteq Opcodes
    /\ Truths \subseteq {"settled", "off", "diverged", "nonfinite"}
    /\ Attempts \in Nat \ {0} /\ MaxFaults \in Nat /\ SlowHost \in BOOLEAN

VARIABLES
    \* the simulator
    spc, tick, truth, pending_reason, command_seq, frame, down_drop, attempt, logged,
    delay, applied, row, last_reply, final_reason, vehicle_seen, scode,
    up_tx, down_rx,
    \* the vehicle: Session's members, and the exit code of run
    vpc, session, vcode, up_rx, down_tx, events,
    rt_ok, stop_requested,
    interrupted,      \* a signal came while recvmsg was blocked
    \* the sockets: datagrams under way and pending ECONNREFUSED errors
    uplink, downlink, sim_refused, veh_refused,
    \* the runner
    rpc, rcode,
    faults,           \* history: the faults so far
    \* history, kept when the simulator accepts a reply: the vehicle's state, the
    \* last usable sample sent, and whether sample, record and reply matched
    agreed, sampled, matched

simCounts == <<up_tx, down_rx>>
simTick == <<tick, truth, pending_reason, delay, applied, row, last_reply, final_reason,
             vehicle_seen, agreed, sampled, matched>>
simSend == <<command_seq, frame, down_drop, attempt, logged>>
sim == <<spc, simTick, simSend, scode, simCounts>>
vehCounts == <<up_rx, down_tx, events>>
vehicle == <<vpc, session, vcode, vehCounts, rt_ok, interrupted>>
net == <<uplink, downlink, sim_refused, veh_refused>>
runner == <<rpc, rcode>>
vars == <<sim, vehicle, stop_requested, net, runner, faults>>

Absent == -2       \* an absent element of the delay line
Killed == -9       \* exit code of a process ended by a signal
NoReason == "none"

-----------------------------------------------------------------------------
(* Counters. *)
SendFields == {"generated", "original_attempts", "retry_attempts", "not_attempted",
               "send_attempts", "send_pending", "tx_fail", "transmitted",
               "first_transmitted", "additional_copies", "never_transmitted"}
UpRxFields == {"received_raw", "malformed", "received", "logical_received",
               "discarded_duplicate", "rejected_received", "admitted", "sample_invalid",
               "sample_nonfinite", "discarded_old", "discarded_tick_conflict", "skipped_tick"}
DownRxFields == {"received_raw", "malformed", "received", "logical_received",
                 "discarded_duplicate", "rejected_received", "modeled_command_loss",
                 "forwarded_to_delay", "test_discarded", "discarded_old"}
EventFields == {"episode_transitions", "pid_calls", "record_attempts", "records_pushed",
                "ring_drops", "record_pending"}

Zero(fields) == [k \in fields |-> 0]
One(test) == IF test THEN 1 ELSE 0
Up(c, fields) == [k \in DOMAIN c |-> c[k] + One(k \in fields)]
Down(c, fields) == [k \in DOMAIN c |-> c[k] - One(k \in fields)]

Generate(c) == Up(c, {"generated", "not_attempted", "never_transmitted"})

\* begin_send of the vehicle, and the same lines of the simulator's attempt.
BeginSend(c, original) ==
    IF original
    THEN Down(Up(c, {"send_attempts", "send_pending", "original_attempts"}), {"not_attempted"})
    ELSE Up(c, {"send_attempts", "send_pending", "retry_attempts"})

\* Mutant: a failed send is not counted.
FinishSendQuiet(c, success, again) ==
    LET done == Down(c, {"send_pending"})
    IN  IF ~success THEN done
        ELSE IF again THEN Up(done, {"transmitted", "additional_copies"})
        ELSE Down(Up(done, {"transmitted", "first_transmitted"}), {"never_transmitted"})

\* finish_send: again is TRUE when an earlier copy was transmitted.
FinishSend(c, success, again) ==
    LET done == Down(c, {"send_pending"})
    IN  IF ~success THEN Up(done, {"tx_fail"})
        ELSE IF again THEN Up(done, {"transmitted", "additional_copies"})
        ELSE Down(Up(done, {"transmitted", "first_transmitted"}), {"never_transmitted"})

-----------------------------------------------------------------------------
(* Datagrams.  sound is FALSE once the bytes no longer decode. *)
Sample(t, valid, class, opcode, seq, reason) ==
    [tick |-> t, valid |-> valid, class |-> class, opcode |-> opcode, cmd_seq |-> seq,
     sim_reason |-> reason, sound |-> TRUE]
NoFrame == Sample(NoTick, FALSE, "none", "NONE", 0, NoReason)

Reply(t, cycle, delta, mode, reason, ack, staleness) ==
    [tick |-> t, veh_tick |-> cycle, delta |-> delta, mode |-> mode, reason |-> reason,
     ack |-> ack, staleness |-> staleness, sound |-> TRUE]
NoReply == Reply(NoTick, NoTick, NoTick, "INIT", "NONE", "NONE", 0)

\* The fields of the control record that reconcile.py compares.
Record(t, held, fresh, reply) ==
    [tick |-> t, sensor_tick |-> held.tick, fresh |-> fresh, cmd |-> reply.delta,
     state |-> reply.mode, reason |-> reply.reason, ack |-> reply.ack,
     staleness |-> reply.staleness]
NoRecord == Record(NoTick, NoHeld, FALSE, NoReply)

Put(bag, m) == bag (+) SetToBag({m})
Take(bag, m) == bag (-) SetToBag({m})

Fault(kind) == Len(faults) < MaxFaults /\ faults' = Append(faults, kind)

Init ==
    /\ spc = "tick" /\ tick = 0 /\ truth \in Truths \ {"nonfinite"}
    /\ pending_reason = NoReason /\ command_seq = 0 /\ frame = NoFrame /\ down_drop = FALSE
    /\ attempt = 0 /\ logged = FALSE /\ delay = [i \in 1 .. DelayTicks |-> Absent]
    /\ applied = NoTick /\ last_reply = NoReply /\ final_reason = "peer_lost"
    /\ row = [tick |-> NoTick, truth |-> "none", has_sample |-> FALSE, applied |-> FALSE,
              cmd_applied |-> NoTick]
    /\ vehicle_seen = NoReason /\ scode = 0
    /\ up_tx = Zero(SendFields) /\ down_rx = Zero(DownRxFields)
    /\ vpc = "top" /\ vcode = 0
    /\ session = [state |-> initial(AutoArm), held |-> NoHeld, sim_seen |-> NoReason,
                  fault |-> NoTerminal, newest_answered |-> NoTick, last_payload |-> NoFrame,
                  reply |-> NoReply, record |-> NoRecord,
                  reply_transmitted |-> FALSE, integrity |-> FALSE]
    /\ up_rx = Zero(UpRxFields) /\ down_tx = Zero(SendFields \union {"original_tx_fail"})
    /\ events = Zero(EventFields)
    /\ rt_ok \in BOOLEAN /\ stop_requested = FALSE /\ interrupted = FALSE
    /\ uplink = EmptyBag /\ downlink = EmptyBag /\ sim_refused = FALSE /\ veh_refused = FALSE
    /\ rpc = "sim" /\ rcode = 0 /\ faults = <<>>
    /\ agreed = initial(AutoArm) /\ sampled = NoHeld /\ matched = TRUE

-----------------------------------------------------------------------------
(* The simulator, execute of sim/run_sim.py. *)

\* The top of the loop: draw the losses, build the tick's one sample.
BuildSample(up_drop, drop_reply, opcode) ==
    /\ spc = "tick"
    /\ command_seq' = IF opcode = "NONE" THEN command_seq ELSE (command_seq + 1) % SeqMod
    /\ frame' = Sample(tick, ~up_drop, IF up_drop THEN "none" ELSE truth, opcode,
                       IF opcode = "NONE" THEN 0 ELSE command_seq',
                       IF pending_reason # NoReason THEN pending_reason
                       ELSE IF tick = Ticks - 1 THEN "horizon" ELSE NoReason)
    /\ down_drop' = drop_reply /\ attempt' = 0 /\ logged' = FALSE
    /\ up_tx' = Generate(up_tx)
    /\ spc' = "send"
    /\ UNCHANGED <<simTick, scode, down_rx, vehicle, stop_requested, net, runner, faults>>

\* One physical attempt.  An error left by an earlier datagram to a closed
\* port fails it; so may the kernel (or --test-fail-sensor).
SendSample ==
    /\ spc = "send"
    /\ \E success \in BOOLEAN :
        /\ \/ success /\ ~sim_refused /\ UNCHANGED faults
           \/ ~success /\ sim_refused /\ UNCHANGED faults
           \/ ~success /\ ~sim_refused /\ Fault("fail_sensor")
        /\ up_tx' = FinishSend(BeginSend(up_tx, attempt = 0), success, logged)
        /\ logged' = (logged \/ success)
        /\ uplink' = IF success /\ vpc # "exited" THEN Put(uplink, frame) ELSE uplink
        /\ sim_refused' = (success /\ vpc = "exited")
    /\ spc' = "wait"
    /\ UNCHANGED <<simTick, command_seq, frame, down_drop, attempt, scode, down_rx, vehicle,
                   stop_requested, downlink, veh_refused, runner>>

\* The process ends with an error; its sockets close.
SimFails ==
    /\ spc' = "done" /\ scode' = 1
    /\ UNCHANGED <<simTick, simSend, up_tx>>

\* The 0.2 s deadline: the next attempt with the same bytes, or TimeoutError.
Timeout ==
    /\ spc = "wait"
    /\ \/ /\ attempt + 1 < Attempts
          /\ attempt' = attempt + 1 /\ spc' = "send"
          /\ UNCHANGED <<simTick, command_seq, frame, down_drop, logged, scode, up_tx>>
       \/ attempt + 1 = Attempts /\ SimFails
    /\ UNCHANGED <<down_rx, vehicle, stop_requested, net, runner, faults>>

\* recv reports the pending ECONNREFUSED before any datagram.
RecvRefused ==
    /\ spc = "wait" /\ sim_refused
    /\ SimFails /\ sim_refused' = FALSE
    /\ UNCHANGED <<down_rx, vehicle, stop_requested, uplink, downlink, veh_refused, runner, faults>>

\* Mutant: the test hook drops a reply without counting its receipt.
RecvOtherUncounted(m) ==
    /\ spc = "wait" /\ ~sim_refused
    /\ m.sound /\ Fault("drop_actuator")
    /\ downlink' = Take(downlink, m)
    /\ UNCHANGED <<spc, simTick, simSend, scode, simCounts, vehicle, stop_requested, uplink,
                   sim_refused, veh_refused, runner>>

\* A datagram that is not this tick's reply: counted, and the wait goes on.
RecvOther(m) ==
    /\ spc = "wait" /\ ~sim_refused
    /\ \/ /\ ~m.sound
          /\ down_rx' = Up(down_rx, {"received_raw", "malformed"})
          /\ UNCHANGED faults
       \/ /\ m.sound /\ Fault("drop_actuator")
          /\ down_rx' = Up(down_rx, {"received_raw", "received", "test_discarded",
                                     "rejected_received"})
       \/ /\ m.sound /\ m.tick # tick
          /\ down_rx' = Up(down_rx, {"received_raw", "received"} \union
                            IF m = last_reply THEN {"discarded_duplicate"}
                            ELSE {"rejected_received", "discarded_old"})
          /\ UNCHANGED faults
    /\ downlink' = Take(downlink, m)
    /\ UNCHANGED <<spc, simTick, simSend, scode, up_tx, vehicle, stop_requested, uplink,
                   sim_refused, veh_refused, runner>>

\* What reconcile.py compares of a tick: the sample, the control record, the
\* reply.  obs is the observation it expects the vehicle to hold.
Matches(obs, fresh, record, reply) ==
    /\ record.tick = tick /\ reply.tick = tick /\ reply.veh_tick = tick
    /\ record.sensor_tick = obs.tick /\ record.fresh = fresh
    /\ record.staleness = IF obs = NoHeld THEN tick + 1 ELSE tick - obs.tick
    /\ reply.staleness = record.staleness /\ reply.mode = record.state
    /\ reply.reason = record.reason /\ reply.delta = record.cmd /\ reply.ack = record.ack

\* Mutant: the delay line is bypassed.
ArrivedAtOnce(line, value) == value

\* delay.append and delay.popleft.
Arrived(line, value) == Head(Append(line, value))

\* This tick's reply: the rest of the tick, and of the run if it was the last.
\* A reply of another cycle raises ValueError.
RecvReply(m, nextTruth) ==
    LET value == IF down_drop THEN Absent ELSE m.delta
        arriving == Arrived(delay, value)
        act == IF arriving = Absent THEN applied ELSE arriving
        fresh == frame.valid /\ frame.class # "nonfinite"
        obs == IF fresh THEN [tick |-> tick, class |-> frame.class] ELSE sampled
        over == frame.sim_reason # NoReason \/ m.mode = "TERMINATED"
        receipt == {"received_raw", "received"}
    IN  /\ spc = "wait" /\ ~sim_refused /\ m.sound /\ m.tick = tick
        /\ downlink' = Take(downlink, m)
        /\ IF m.veh_tick # tick
           THEN SimFails /\ down_rx' = Up(down_rx, receipt \union {"rejected_received"})
           ELSE /\ down_rx' = Up(down_rx, receipt \union {"logical_received",
                                 IF down_drop THEN "modeled_command_loss" ELSE "forwarded_to_delay"})
                /\ last_reply' = m /\ delay' = Tail(Append(delay, value)) /\ applied' = act
                /\ row' = [tick |-> tick, truth |-> truth, has_sample |-> fresh,
                           applied |-> arriving # Absent, cmd_applied |-> act]
                /\ vehicle_seen' = IF m.mode = "TERMINATED" THEN m.reason ELSE vehicle_seen
                /\ final_reason' = IF frame.sim_reason # NoReason THEN frame.sim_reason
                                   ELSE IF over THEN "vehicle" ELSE final_reason
                /\ agreed' = session.state /\ sampled' = obs
                /\ matched' = (matched /\ Matches(obs, fresh, session.record, m))
                /\ frame' = NoFrame
                /\ spc' = IF over THEN "done" ELSE "tick"
                /\ IF over THEN UNCHANGED <<tick, truth, pending_reason>>
                   ELSE /\ tick' = tick + 1 /\ truth' = nextTruth
                        /\ pending_reason' = CASE nextTruth = "nonfinite" -> "nonfinite"
                                                [] nextTruth = "diverged" -> "angle"
                                                [] OTHER -> NoReason
                /\ UNCHANGED <<command_seq, down_drop, attempt, logged, scode, up_tx>>
        /\ UNCHANGED <<vehicle, stop_requested, uplink, sim_refused, veh_refused, runner, faults>>

\* --test-kill-at, at the top of a tick: no report is written.
SimKilled ==
    /\ spc = "tick" /\ Fault("kill_at")
    /\ spc' = "done" /\ scode' = Killed
    /\ UNCHANGED <<simTick, simSend, simCounts, vehicle, stop_requested, net, runner>>

Sim ==
    \/ \E up_drop, drop_reply \in IF Lossy THEN BOOLEAN ELSE {FALSE}, opcode \in Requests \union {"NONE"} :
           BuildSample(up_drop, drop_reply, opcode)
    \/ SendSample \/ Timeout \/ RecvRefused
    \/ \E m \in BagToSet(downlink) : RecvOther(m)
    \/ \E m \in BagToSet(downlink), t \in Truths : RecvReply(m, t)

-----------------------------------------------------------------------------
(* The vehicle: lockstep::Session and the loop of lockstep::run. *)

\* Mutant: a repeated sample is taken for a new one.
DispositionNoCache(m) ==
    LET newest == session.newest_answered
    IN  IF ~m.sound THEN "malformed"
        ELSE IF newest # NoTick /\ m.tick < newest THEN "old"
        ELSE IF m.tick > newest + 1 THEN "skipped"
        ELSE "new"

\* What Session::receive makes of a datagram.
Disposition(m) ==
    LET newest == session.newest_answered
    IN  IF ~m.sound THEN "malformed"
        ELSE IF newest # NoTick /\ m.tick = newest
             THEN IF m = session.last_payload THEN "cached" ELSE "conflict"
        ELSE IF newest # NoTick /\ m.tick < newest THEN "old"
        ELSE IF (newest = NoTick /\ m.tick # 0) \/ (newest # NoTick /\ m.tick # newest + 1)
             THEN "skipped"
        ELSE "new"

Usable(m) == m.valid /\ m.class # "nonfinite"

Receipt(m) ==
    CASE Disposition(m) = "malformed" -> {"received_raw", "malformed"}
      [] Disposition(m) = "cached" -> {"received_raw", "received", "discarded_duplicate"}
      [] Disposition(m) = "conflict" ->
           {"received_raw", "received", "rejected_received", "discarded_tick_conflict"}
      [] Disposition(m) = "old" -> {"received_raw", "received", "rejected_received", "discarded_old"}
      [] Disposition(m) = "skipped" -> {"received_raw", "received", "rejected_received", "skipped_tick"}
      [] Disposition(m) = "new" ->
           {"received_raw", "received", "logical_received",
            IF Usable(m) THEN "admitted" ELSE IF m.valid THEN "sample_nonfinite" ELSE "sample_invalid"}

\* project_ack: the first applied acknowledgement, or else the first one.
project_ack(acks) ==
    LET applying == {i \in DOMAIN acks : acks[i].status \in {"APPLIED", "APPLIED_LATE"}}
    IN  IF acks = <<>> THEN "NONE"
        ELSE IF applying = {} THEN acks[1].status
        ELSE acks[CHOOSE i \in applying : \A j \in applying : i <= j].status

\* The inputs of the cycle that a new sample starts.
CycleInput(m) ==
    LET held == IF Usable(m) THEN [tick |-> m.tick, class |-> m.class] ELSE session.held
    IN  [tick |-> m.tick, held |-> held, fresh |-> Usable(m),
         staleness |-> IF held = NoHeld THEN up_rx.logical_received + 1 ELSE m.tick - held.tick,
         command |-> IF m.opcode = "NONE" THEN NoCommand
                     ELSE [cmd_seq |-> m.cmd_seq, opcode |-> m.opcode,
                           effective_tick |-> m.tick + CmdDelay],
         horizon_reached |-> FALSE, sim_reason |-> m.sim_reason, stop_reason |-> "NONE"]

\* Mutant: the simulator's terminal flag is not remembered.
AnsweredUnseen(m, in, result) ==
    LET st == result.state
        reply == Reply(m.tick, up_rx.logical_received, result.delta, st.mode,
                       st.terminal.reason, project_ack(result.acks), in.staleness)
    IN  [session EXCEPT
            !.state = st, !.held = in.held,
            !.newest_answered = m.tick, !.last_payload = m, !.reply = reply,
            !.record = Record(m.tick, in.held, in.fresh, reply),
            !.reply_transmitted = FALSE]

\* Session after a new sample and its policy step: reply and record are built
\* here, once.
Answered(m, in, result) ==
    LET st == result.state
        reply == Reply(m.tick, up_rx.logical_received, result.delta, st.mode,
                       st.terminal.reason, project_ack(result.acks), in.staleness)
    IN  [session EXCEPT
            !.state = st, !.held = in.held,
            !.sim_seen = IF m.sim_reason # NoReason THEN m.sim_reason ELSE @,
            !.newest_answered = m.tick, !.last_payload = m, !.reply = reply,
            !.record = Record(m.tick, in.held, in.fresh, reply),
            !.reply_transmitted = FALSE]

\* Session::receive and the loop's reaction to it.
ReceiveNew(m) ==
    /\ Disposition(m) = "new"
    /\ \E in \in {CycleInput(m)} : \E result \in {step(session.state, in)} :
        /\ session' = Answered(m, in, result)
        /\ events' = Up(events, {"episode_transitions", "record_pending"} \union
                        IF in.fresh /\ result.state.mode = "FLYING" THEN {"pid_calls"} ELSE {})
    /\ down_tx' = Generate(down_tx)
    /\ vpc' = "reply"

\* Session::stop: an earlier result stands.
Stopped(why) ==
    IF session.state.terminal # NoTerminal \/ session.fault # NoTerminal THEN session
    ELSE [session EXCEPT !.fault = [reason |-> why,
             tick |-> IF session.newest_answered = NoTick THEN 0 ELSE session.newest_answered]]

ReceiveOther(m) ==
    LET skipped == [reason |-> IF session.newest_answered = NoTick THEN "PEER_LOST" ELSE "INTERNAL",
                    tick |-> m.tick]
    IN  /\ Disposition(m) # "new"
        /\ session' = CASE Disposition(m) \in {"malformed", "conflict"} ->
                               [session EXCEPT !.integrity = TRUE]
                        [] Disposition(m) = "skipped" -> [session EXCEPT !.fault = skipped]
                        [] OTHER -> session
        /\ vpc' = CASE Disposition(m) = "cached" -> "reply_cached"
                    [] Disposition(m) = "skipped" -> "after"
                    [] OTHER -> "top"
        /\ UNCHANGED <<events, down_tx>>

Receive(m) ==
    /\ vpc = "recv" /\ ~veh_refused
    /\ uplink' = Take(uplink, m)
    /\ up_rx' = Up(up_rx, Receipt(m))
    /\ interrupted' = FALSE
    /\ ReceiveNew(m) \/ ReceiveOther(m)
    /\ UNCHANGED <<sim, vcode, rt_ok, stop_requested, downlink, sim_refused, veh_refused,
                   runner, faults>>

\* The loop's test of g_stop; recvmsg then blocks without a timeout.
LoopTop ==
    /\ vpc = "top"
    /\ vpc' = IF rt_ok /\ ~stop_requested THEN "recv" ELSE "after"
    /\ UNCHANGED <<sim, session, vcode, vehCounts, rt_ok, interrupted, stop_requested, net,
                   runner, faults>>

\* recvmsg fails: EINTR after a stop, a refused reply, or (with connect) any
\* other error.
ReceiveFails ==
    /\ vpc = "recv"
    /\ \/ (interrupted \/ veh_refused) /\ UNCHANGED faults
       \/ ~(interrupted \/ veh_refused) /\ Fault("recv")
    /\ session' = Stopped(IF stop_requested THEN "SIGNAL" ELSE "PEER_LOST")
    /\ interrupted' = FALSE /\ veh_refused' = FALSE /\ vpc' = "after"
    /\ UNCHANGED <<sim, vcode, vehCounts, rt_ok, stop_requested, uplink, downlink, sim_refused,
                   runner>>

\* Send the reply; for a new one also push the record, then leave the loop
\* once the episode has a reason.
SendReply ==
    LET original == vpc = "reply"
    IN  /\ vpc \in {"reply", "reply_cached"}
        /\ \E success, pushed \in BOOLEAN :
            /\ success => ~veh_refused
            /\ original \/ pushed
            /\ \/ (success \/ veh_refused) /\ pushed /\ UNCHANGED faults
               \/ /\ ~success /\ ~veh_refused /\ pushed
                  /\ Fault(IF original THEN "original_reply" ELSE "reply")
               \/ (success \/ veh_refused) /\ ~pushed /\ Fault("ring")
            /\ LET sent == FinishSend(BeginSend(down_tx, original), success, session.reply_transmitted)
               IN  down_tx' = IF original /\ ~success THEN Up(sent, {"original_tx_fail"}) ELSE sent
            /\ session' = [session EXCEPT !.reply_transmitted = @ \/ success]
            /\ downlink' = IF success /\ spc # "done" THEN Put(downlink, session.reply) ELSE downlink
            /\ veh_refused' = (success /\ spc = "done")
            /\ events' = IF ~original THEN events
                         ELSE Down(Up(events, {"record_attempts",
                                               IF pushed THEN "records_pushed" ELSE "ring_drops"}),
                                   {"record_pending"})
        /\ vpc' = IF original /\ session.state.terminal # NoTerminal THEN "after" ELSE "top"
        /\ UNCHANGED <<sim, vcode, up_rx, rt_ok, interrupted, stop_requested, uplink, sim_refused,
                       runner>>

Reason(s) == IF s.fault # NoTerminal THEN s.fault.reason ELSE s.state.terminal.reason
ReasonTick(s) == IF s.fault # NoTerminal THEN s.fault.tick ELSE s.state.terminal.tick

ExitCode(s, write_failed) ==
    IF write_failed THEN 4
    ELSE IF stop_requested THEN 3
    ELSE IF ~rt_ok THEN 2
    ELSE IF s.integrity THEN 6
    ELSE IF \/ Reason(s) \in {"PEER_LOST", "INTERNAL", "NONE"}
            \/ events.ring_drops # 0 \/ down_tx.original_tx_fail # 0 THEN 5
    ELSE 0

\* After the loop: the drain stops, the socket closes, the summary is written.
Exit ==
    /\ vpc = "after"
    /\ session' = IF stop_requested THEN Stopped("SIGNAL")
                  ELSE IF ~rt_ok THEN Stopped("INTERNAL") ELSE session
    /\ \/ vcode' = ExitCode(session', FALSE) /\ UNCHANGED faults
       \/ vcode' = ExitCode(session', TRUE) /\ Fault("write")
    /\ vpc' = "exited" /\ interrupted' = FALSE
    /\ UNCHANGED <<sim, vehCounts, rt_ok, stop_requested, net, runner>>

Vehicle ==
    \/ LoopTop \/ ReceiveFails \/ SendReply \/ Exit
    \/ \E m \in BagToSet(uplink) : Receive(m)

-----------------------------------------------------------------------------
(* The network. *)
Lose ==
    /\ \/ \E m \in BagToSet(uplink) : uplink' = Take(uplink, m) /\ UNCHANGED downlink
       \/ \E m \in BagToSet(downlink) : downlink' = Take(downlink, m) /\ UNCHANGED uplink
    /\ Fault("lost")
    /\ UNCHANGED <<sim, vehicle, stop_requested, sim_refused, veh_refused, runner>>

Garbled(m) == [m EXCEPT !.sound = FALSE]
Corrupt ==
    /\ \/ \E m \in BagToSet(uplink) :
              m.sound /\ uplink' = Put(Take(uplink, m), Garbled(m)) /\ UNCHANGED downlink
       \/ \E m \in BagToSet(downlink) :
              m.sound /\ downlink' = Put(Take(downlink, m), Garbled(m)) /\ UNCHANGED uplink
    /\ Fault("corrupt")
    /\ UNCHANGED <<sim, vehicle, stop_requested, sim_refused, veh_refused, runner>>

-----------------------------------------------------------------------------
(* scripts/reconcile.py on the two processes' reports. *)
SenderCloses(c) ==
    /\ c.generated = c.original_attempts + c.not_attempted
    /\ c.send_attempts = c.original_attempts + c.retry_attempts
    /\ c.send_attempts = c.tx_fail + c.transmitted + c.send_pending
    /\ c.transmitted = c.first_transmitted + c.additional_copies
    /\ c.generated = c.first_transmitted + c.never_transmitted

ReceiverCloses(c, disposed) ==
    /\ c.received_raw = c.malformed + c.received
    /\ c.received = c.logical_received + c.discarded_duplicate + c.rejected_received
    /\ c.logical_received = disposed

Closed ==
    /\ SenderCloses(up_tx) /\ SenderCloses(down_tx)
    /\ ReceiverCloses(up_rx, up_rx.admitted + up_rx.sample_invalid + up_rx.sample_nonfinite)
    /\ ReceiverCloses(down_rx, down_rx.modeled_command_loss + down_rx.forwarded_to_delay)

\* Mutant: transmissions and receipts are not compared.
CompleteUncompared(tx, rx) ==
    rx.malformed = 0 /\ tx.not_attempted = 0 /\ tx.never_transmitted = 0 /\ tx.send_pending = 0

Complete(tx, rx) ==
    /\ tx.transmitted = rx.received_raw /\ rx.malformed = 0
    /\ tx.not_attempted = 0 /\ tx.never_transmitted = 0 /\ tx.send_pending = 0

RecordsClose ==
    /\ events.episode_transitions = events.record_attempts + events.record_pending
    /\ events.record_attempts = events.records_pushed + events.ring_drops
    /\ events.pid_calls <= up_rx.admitted

\* The pairs of simulator and vehicle reasons that count as one ending.
Paired(simReason, reason, staleness) ==
    \/ <<simReason, reason>> \in {<<"horizon", "STABILIZED">>, <<"horizon", "NOT_SETTLED">>,
                                  <<"angle", "DIVERGED">>, <<"nonfinite", "DIVERGED">>,
                                  <<"vehicle", "DIVERGED">>, <<"vehicle", "GROUND_ABORT">>,
                                  <<"vehicle", "SENSOR_LOST">>}
    \/ simReason = "horizon" /\ reason = "SENSOR_LOST" /\ staleness >= StaleLimit

TerminalsAgree ==
    /\ Paired(final_reason, Reason(session), session.record.staleness)
    /\ session.record.state = "TERMINATED" /\ session.record.reason = Reason(session)
    /\ ReasonTick(session) = session.record.tick
    /\ session.sim_seen = IF final_reason = "vehicle" THEN NoReason ELSE final_reason
    /\ vehicle_seen = Reason(session)

Eligible ==
    /\ vcode # Killed /\ scode # Killed   \* both reports exist
    /\ Closed /\ Complete(up_tx, up_rx) /\ Complete(down_tx, down_rx)
    /\ down_tx.original_tx_fail = 0
    /\ RecordsClose /\ events.record_pending = 0 /\ events.ring_drops = 0
    /\ LET count == up_rx.logical_received
       IN  /\ count > 0 /\ events.episode_transitions = count
           /\ up_tx.generated = count /\ up_tx.first_transmitted = count
           /\ down_tx.generated = count /\ down_rx.logical_received = count
           /\ events.records_pushed = count
    /\ matched
    /\ TerminalsAgree

-----------------------------------------------------------------------------
(* The runner, run_case of scripts/run_scenario.py. *)

\* The simulator ended: a clean one is followed by the vehicle's own exit.
SimEnded ==
    /\ rpc = "sim" /\ spc = "done"
    /\ rcode' = IF scode = 0 THEN 0 ELSE 3
    /\ rpc' = IF scode = 0 THEN "vehicle" ELSE "stop"
    /\ UNCHANGED <<sim, vehicle, stop_requested, net, faults>>

VehicleEnded ==
    /\ rpc = "vehicle" /\ vpc = "exited"
    /\ rcode' = IF vcode = 0 THEN 0 ELSE 2
    /\ rpc' = "report"
    /\ UNCHANGED <<sim, vehicle, stop_requested, net, faults>>

\* A wait expires; what still runs is stopped, the simulator first.
WaitExpires ==
    /\ SlowHost /\ Fault("slow")
    /\ \/ /\ rpc = "sim" /\ spc # "done"
          /\ spc' = "done" /\ scode' = Killed
          /\ rcode' = IF vpc = "exited" THEN 2 ELSE 3
       \/ /\ rpc = "vehicle" /\ vpc # "exited"
          /\ rcode' = 3
          /\ UNCHANGED <<spc, scode>>
    /\ rpc' = "stop"
    /\ UNCHANGED <<simTick, simSend, simCounts, vehicle, stop_requested, net>>

\* SIGTERM reaches the vehicle.  Inside recvmsg it interrupts a blocked call,
\* but not one that has yet to block.
RaiseStop ==
    /\ stop_requested' = TRUE
    /\ interrupted' \in {interrupted, vpc = "recv"}

\* stop_process: SIGTERM first.
StopProcess ==
    /\ rpc = "stop"
    /\ \/ /\ vpc = "exited" /\ rpc' = "report"
          /\ UNCHANGED <<stop_requested, interrupted>>
       \/ /\ vpc # "exited" /\ rpc' = "kill"
          /\ RaiseStop
    /\ UNCHANGED <<sim, vpc, session, vcode, vehCounts, rt_ok, net, rcode, faults>>

\* The vehicle waits for a datagram that nobody will send.
Blocked == vpc = "recv" /\ ~interrupted /\ ~veh_refused /\ uplink = EmptyBag

\* Mutant: the runner waits for the vehicle without a limit.
KillNever ==
    /\ rpc = "kill"
    /\ \/ vpc = "exited" /\ rpc' = "report"
       \/ vpc # "exited" /\ UNCHANGED rpc
    /\ UNCHANGED <<sim, vehicle, stop_requested, net, rcode, faults>>

\* SIGKILL, when the vehicle has not ended within the wait.
Kill ==
    /\ rpc = "kill"
    /\ \/ vpc = "exited" /\ UNCHANGED <<vpc, vcode>>
       \/ vpc # "exited" /\ (SlowHost \/ Blocked) /\ vpc' = "exited" /\ vcode' = Killed
    /\ rpc' = "report" /\ interrupted' = FALSE
    /\ UNCHANGED <<sim, session, vehCounts, rt_ok, stop_requested, net, rcode, faults>>

Reconcile ==
    /\ rpc = "report"
    /\ rcode' = IF rcode = 0 /\ ~Eligible THEN 8 ELSE rcode
    /\ rpc' = "done"
    /\ UNCHANGED <<sim, vehicle, stop_requested, net, faults>>

Runner == SimEnded \/ VehicleEnded \/ StopProcess \/ Kill \/ Reconcile

\* A signal from outside the run.
Signal ==
    /\ vpc # "exited" /\ ~stop_requested /\ Fault("signal") /\ RaiseStop
    /\ UNCHANGED <<sim, vpc, session, vcode, vehCounts, rt_ok, net, runner>>

Finished == rpc = "done" /\ UNCHANGED vars
Next == Sim \/ SimKilled \/ Vehicle \/ Lose \/ Corrupt \/ Runner \/ WaitExpires \/ Signal \/ Finished

\* Processes that can run do run, and their clocks go on.
Spec == Init /\ [][Next]_vars /\ WF_vars(Sim) /\ WF_vars(Vehicle) /\ WF_vars(Runner)

-----------------------------------------------------------------------------
(* Properties. *)

\* One transaction completes before the next tick begins, whatever is retried,
\* lost or overtaken: the vehicle has answered exactly the ticks accepted by the
\* simulator and at most the current one, steps the policy once for each, and
\* neither side ever meets a skipped tick, a conflicting sample or a reply of
\* another cycle.
OneTransaction ==
    /\ session.newest_answered + 1 = events.episode_transitions
    /\ session.newest_answered \in {tick - 1, tick}
    /\ spc = "tick" => session.newest_answered = tick - 1
    /\ up_rx.skipped_tick = 0 /\ up_rx.discarded_tick_conflict = 0
    /\ down_rx.rejected_received = down_rx.test_discarded + down_rx.discarded_old

\* The counter identities that reconcile.py tests at the end hold throughout.
CountersClose == Closed /\ RecordsClose

\* When both processes report success, they agree on how the episode ended, and
\* every tick's sample, record and reply matched.
SuccessMeansAgreement ==
    spc = "done" /\ vpc = "exited" /\ scode = 0 /\ vcode = 0 => TerminalsAgree /\ matched

\* The sends that failed by themselves, not by the refusal of an earlier one.
Failed == {i \in DOMAIN faults : faults[i] = "fail_sensor"}

\* Retries alone make a run ineligible in two cases only.  Take a run with no
\* fault but failed sends of samples and dropped replies, whose simulator ends
\* well: it is eligible, unless a copy stayed unread in a closing socket, or the
\* simulator retried after the vehicle's exit and a further send met the refusal.
RetriesAreHarmless ==
    /\ rpc = "done" /\ scode = 0 /\ rt_ok
    /\ Range(faults) \subseteq {"fail_sensor", "drop_actuator"}
    => (rcode = 0 <=> /\ uplink = EmptyBag /\ downlink = EmptyBag
                      /\ up_tx.tx_fail = Cardinality(Failed))

\* An eligible run lost nothing: any fault that removes or damages a datagram or
\* a record, keeps the first copy of a reply from being sent, or stops a process,
\* keeps the runner from reporting 0 (a failed repeat of a reply is the exception:
\* the copies sent are all accounted for).
FaultsAreReported ==
    rpc = "done" /\ rcode = 0 =>
        Range(faults) \subseteq {"fail_sensor", "drop_actuator", "reply"}

\* Every run ends: neither process waits for ever on the other.
RunEnds == <>(rpc = "done")

\* A stop request makes the vehicle end by itself and write its summary
\* (tests/functional/test_lockstep.py expects vehicle_exit 3 of a stopped run).
StopIsOrderly == stop_requested => vcode # Killed

\* Seen at the simulator's accepted replies, a lockstep run is a reference run:
\* the two processes, with every retry and fault, take only the steps of
\* run_headless.
Reference == INSTANCE Headless WITH
    state <- agreed, held <- sampled,
    command_seq <- IF frame.opcode = "NONE" THEN command_seq ELSE (command_seq - 1) % SeqMod,
    sim_reason <- IF final_reason = "peer_lost" THEN "none" ELSE final_reason
ImplementsHeadless == Reference!Init /\ [][Reference!Next]_(Reference!vars)
=============================================================================
