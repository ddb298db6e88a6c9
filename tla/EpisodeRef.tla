---------------------------- MODULE EpisodeRef -----------------------------
(***************************************************************************)
(* The simulator's own copy of the episode policy, step of sim/episode.py, *)
(* in its structure: locals threaded through instead of a mutated state,   *)
(* and an _apply that returns the terminal result it leaves behind.        *)
(***************************************************************************)
EXTENDS Episode

_prefix(command, last) ==
    LET gap == (command.cmd_seq - last.cmd_seq) % SeqMod
    IN  IF command.opcode \notin {"ARM", "LAUNCH", "ABORT"} THEN "REJECTED_OPCODE"
        ELSE IF last = NoCommand THEN "none"
        ELSE IF command.cmd_seq = last.cmd_seq
             THEN IF /\ command.opcode = last.opcode
                     /\ command.effective_tick = last.effective_tick
                  THEN "DUPLICATE" ELSE "REJECTED_IDENTITY"
        ELSE IF ~(1 <= gap /\ gap < SeqMod \div 2) THEN "REJECTED_STALE" ELSE "none"

\* The mode, the terminal result and the acknowledgement after a command.
_apply(mode, command, tick) ==
    LET to == [o \in Opcodes |-> CASE o = "ARM" -> "ARMED"
                                   [] o = "LAUNCH" -> "FLYING"
                                   [] o = "ABORT" -> "TERMINATED"]
        from == [o \in Opcodes |-> CASE o = "ARM" -> {"INIT"}
                                     [] o = "LAUNCH" -> {"ARMED"}
                                     [] o = "ABORT" -> {"ARMED", "FLYING"}]
        o == command.opcode
        abort == o = "ABORT"
        reason == IF abort THEN "GROUND_ABORT" ELSE "NONE"
        status == IF command.effective_tick = tick THEN "APPLIED" ELSE "APPLIED_LATE"
    IN  IF mode \notin from[o]
        THEN [mode |-> mode, terminal |-> NoTerminal,
              ack |-> Ack(command, "REJECTED_STATE", 0, mode, "NONE")]
        ELSE [mode |-> to[o],
              terminal |-> IF abort THEN [reason |-> reason, tick |-> tick] ELSE NoTerminal,
              ack |-> Ack(command, status, tick, to[o], reason)]

\* Mutant: the simulator's horizon does not end the vehicle's episode.
_reasonNoHorizon(count, in) ==
    IF in.sim_reason \in {"angle", "nonfinite"} \/ (in.fresh /\ in.held.class = "diverged")
    THEN "DIVERGED"
    ELSE IF in.staleness >= StaleLimit THEN "SENSOR_LOST" ELSE "NONE"

_reason(count, in) ==
    IF in.sim_reason \notin {"none", "horizon", "angle", "nonfinite"} THEN "INTERNAL"
    ELSE IF in.stop_reason # "NONE" THEN in.stop_reason
    ELSE IF in.sim_reason \in {"angle", "nonfinite"} THEN "DIVERGED"
    ELSE IF in.fresh /\ in.held.class = "diverged" THEN "DIVERGED"
    ELSE IF in.staleness >= StaleLimit THEN "SENSOR_LOST"
    ELSE IF in.horizon_reached \/ in.sim_reason = "horizon"
         THEN IF count = SettleTarget THEN "STABILIZED" ELSE "NOT_SETTLED"
    ELSE "NONE"

\* The acks that are not None, in arrival-then-pending order.
_acks(arrival, pending) ==
    (IF arrival.status = "none" THEN <<>> ELSE <<arrival>>)
    \o (IF pending.status = "none" THEN <<>> ELSE <<pending>>)
_noAck == Ack(NoCommand, "none", 0, "INIT", "NONE")

\* What the locals hold after the arriving command was looked at.
_arrive(state, in) ==
    LET c == in.command
        pending == state.pending
        early == _prefix(c, state.last_accepted)
        busy == early = "none" /\ pending # NoCommand
        preempts == busy /\ c.opcode = "ABORT" /\ pending.opcode # "ABORT"
        status == IF busy /\ ~preempts THEN "REJECTED_PENDING" ELSE early
        now == _apply(state.mode, c, in.tick)
        kept == [mode |-> state.mode, terminal |-> NoTerminal, last |-> state.last_accepted,
                 pending |-> pending, arrival_ack |-> _noAck, pending_ack |-> _noAck]
        taken == [kept EXCEPT
                    !.last = c,
                    !.pending = IF preempts THEN NoCommand ELSE @,
                    !.pending_ack = IF preempts THEN Ack(pending, "PREEMPTED", 0, state.mode, "NONE")
                                    ELSE @]
    IN  IF c = NoCommand THEN kept
        ELSE IF status # "none"
        THEN [kept EXCEPT !.arrival_ack = Ack(c, status, 0, state.mode, "NONE")]
        ELSE IF c.effective_tick > in.tick
        THEN [taken EXCEPT !.pending = c, !.arrival_ack = Ack(c, "QUEUED", 0, state.mode, "NONE")]
        ELSE [taken EXCEPT !.mode = now.mode, !.terminal = now.terminal, !.arrival_ack = now.ack]

_due(local, in) ==
    LET due == _apply(local.mode, local.pending, in.tick)
    IN  IF local.pending = NoCommand \/ local.pending.effective_tick > in.tick THEN local
        ELSE [local EXCEPT !.pending = NoCommand, !.mode = due.mode,
                           !.terminal = due.terminal, !.pending_ack = due.ack]

RefStep(state, in) ==
    LET count == IF in.held.class # "settled" THEN 0
                 ELSE IF state.settle_count + 1 < SettleTarget
                      THEN state.settle_count + 1 ELSE SettleTarget
        reason == _reason(count, in)
        early == _prefix(in.command, state.last_accepted)
        status == IF early = "none" THEN "REJECTED_STATE" ELSE early
        arrival == IF in.command = NoCommand THEN _noAck
                   ELSE Ack(in.command, status, 0, "TERMINATED", reason)
        pending == IF state.pending = NoCommand THEN _noAck
                   ELSE Ack(state.pending, "REJECTED_STATE", 0, "TERMINATED", reason)
        local == _due(_arrive(state, in), in)
        armed == IF state.auto_arm /\ in.fresh /\ local.mode = "INIT" THEN "ARMED" ELSE local.mode
        mode == IF local.terminal # NoTerminal THEN local.mode
                ELSE IF state.auto_arm /\ in.fresh /\ armed = "ARMED" THEN "FLYING" ELSE armed
        flies == local.terminal = NoTerminal /\ mode = "FLYING"
    IN  IF state.mode = "TERMINATED"
        THEN [state |-> state, delta |-> NoTick, acks |-> <<>>]
        ELSE IF reason # "NONE"
        THEN [state |-> [mode |-> "TERMINATED", pid |-> state.pid, settle_count |-> count,
                         pending |-> NoCommand, last_accepted |-> state.last_accepted,
                         terminal |-> [reason |-> reason, tick |-> in.tick],
                         auto_arm |-> state.auto_arm],
              delta |-> NoTick, acks |-> _acks(arrival, pending)]
        ELSE [state |-> [mode |-> mode, pid |-> IF flies /\ in.fresh THEN in.held.tick ELSE state.pid,
                         settle_count |-> count, pending |-> local.pending,
                         last_accepted |-> local.last, terminal |-> local.terminal,
                         auto_arm |-> state.auto_arm],
              delta |-> IF ~flies THEN NoTick
                        ELSE IF in.fresh THEN in.held.tick
                        ELSE IF in.staleness <= CoastLimit THEN state.pid ELSE NoTick,
              acks |-> _acks(local.arrival_ack, local.pending_ack)]
=============================================================================
