------------------------------ MODULE Episode ------------------------------
(***************************************************************************)
(* The vehicle's episode policy, episode::step of src/episode.cpp: a pure  *)
(* function from a state and one cycle's inputs to the next state, the     *)
(* requested output and at most two acknowledgements.                      *)
(*                                                                         *)
(* Observations are abstracted to the class that the policy's comparisons  *)
(* tell apart.  The PID state is abstracted to the tick of the observation *)
(* it last stepped on, and an output is named by that tick: NoTick is +0.0.*)
(* Absent optionals are the records NoCommand, NoTerminal and NoHeld.      *)
(***************************************************************************)
EXTENDS Integers, Sequences

CONSTANTS SettleTarget,  \* cycles in the band for STABILIZED, 1000 in the code
          CoastLimit,    \* greatest staleness that repeats last_delta, 8
          StaleLimit,    \* staleness that ends the episode, 21
          SeqMod         \* the modulus of cmd_seq, 2^32

ASSUME EpisodeAssumption ==
    /\ SettleTarget \in Nat \ {0} /\ CoastLimit \in Nat
    /\ StaleLimit \in Nat /\ CoastLimit < StaleLimit
    /\ SeqMod \in Nat /\ SeqMod % 2 = 0 /\ SeqMod > 0

Modes == {"INIT", "ARMED", "FLYING", "TERMINATED"}
Opcodes == {"ARM", "LAUNCH", "ABORT"}
Reasons == {"NONE", "STABILIZED", "DIVERGED", "GROUND_ABORT", "SENSOR_LOST",
            "PEER_LOST", "SIGNAL", "NOT_SETTLED", "INTERNAL"}
\* A sim_reason is "none", "horizon", "angle", "nonfinite", or "other" for a
\* terminal flag with any other value.

NoTick == -1
NoCommand == [cmd_seq |-> 0, opcode |-> "NONE", effective_tick |-> 0]
NoTerminal == [reason |-> "NONE", tick |-> 0]
NoHeld == [tick |-> NoTick, class |-> "none"]

initial(auto_arm) ==
    [mode |-> "INIT", pid |-> NoTick, settle_count |-> 0, pending |-> NoCommand,
     last_accepted |-> NoCommand, terminal |-> NoTerminal, auto_arm |-> auto_arm]

Ack(c, status, applied_tick, mode, reason) ==
    [cmd_seq |-> c.cmd_seq, status |-> status, applied_tick |-> applied_tick,
     state |-> mode, reason |-> reason]

-----------------------------------------------------------------------------
\* Mutant: half the sequence space too far counts as newer.
prefixHalf(c, last) ==
    LET gap == (c.cmd_seq - last.cmd_seq) % SeqMod
    IN  IF c.opcode \notin Opcodes THEN "REJECTED_OPCODE"
        ELSE IF last = NoCommand THEN "none"
        ELSE IF gap = 0 THEN IF c = last THEN "DUPLICATE" ELSE "REJECTED_IDENTITY"
        ELSE IF gap > SeqMod \div 2 THEN "REJECTED_STALE" ELSE "none"

\* prefix: the status that refuses a command before its state is looked at,
\* or "none".
prefix(c, last) ==
    LET gap == (c.cmd_seq - last.cmd_seq) % SeqMod
    IN  IF c.opcode \notin Opcodes THEN "REJECTED_OPCODE"
        ELSE IF last = NoCommand THEN "none"
        ELSE IF gap = 0 THEN IF c = last THEN "DUPLICATE" ELSE "REJECTED_IDENTITY"
        ELSE IF gap >= SeqMod \div 2 THEN "REJECTED_STALE" ELSE "none"

\* The mode a command leads to from mode, or "none" when it may not apply.
Applied(mode, opcode) ==
    CASE opcode = "ARM" /\ mode = "INIT" -> "ARMED"
      [] opcode = "LAUNCH" /\ mode = "ARMED" -> "FLYING"
      [] opcode = "ABORT" /\ mode \in {"ARMED", "FLYING"} -> "TERMINATED"
      [] OTHER -> "none"

\* apply: the state after the command and the acknowledgement of it.
apply(next, c, tick) ==
    LET mode == Applied(next.mode, c.opcode)
        reason == IF mode = "TERMINATED" THEN "GROUND_ABORT" ELSE "NONE"
        status == IF c.effective_tick = tick THEN "APPLIED" ELSE "APPLIED_LATE"
    IN  IF mode = "none"
        THEN [state |-> next, ack |-> Ack(c, "REJECTED_STATE", 0, next.mode, "NONE")]
        ELSE [state |-> [next EXCEPT
                            !.mode = mode,
                            !.terminal = IF mode = "TERMINATED"
                                         THEN [reason |-> reason, tick |-> tick] ELSE @],
              ack |-> Ack(c, status, tick, mode, reason)]

\* Consecutive cycles whose held observation, fresh or not, lies in the band.
SettleCount(count, held) ==
    IF held.class # "settled" THEN 0
    ELSE IF count < SettleTarget THEN count + 1 ELSE count

\* Mutant: a loss of control that the simulator reports is not looked at.
StopReasonBlind(count, in) ==
    IF in.sim_reason = "other" THEN "INTERNAL"
    ELSE IF in.stop_reason # "NONE" THEN in.stop_reason
    ELSE IF in.fresh /\ in.held.class = "diverged" THEN "DIVERGED"
    ELSE IF in.staleness >= StaleLimit THEN "SENSOR_LOST"
    ELSE IF in.horizon_reached \/ in.sim_reason # "none"
         THEN IF count = SettleTarget THEN "STABILIZED" ELSE "NOT_SETTLED"
    ELSE "NONE"

\* The reason this cycle ends the episode, in the code's order of priority.
StopReason(count, in) ==
    IF in.sim_reason = "other" THEN "INTERNAL"
    ELSE IF in.stop_reason # "NONE" THEN in.stop_reason
    ELSE IF in.sim_reason \in {"angle", "nonfinite"} THEN "DIVERGED"
    ELSE IF in.fresh /\ in.held.class = "diverged" THEN "DIVERGED"
    ELSE IF in.staleness >= StaleLimit THEN "SENSOR_LOST"
    ELSE IF in.horizon_reached \/ in.sim_reason = "horizon"
         THEN IF count = SettleTarget THEN "STABILIZED" ELSE "NOT_SETTLED"
    ELSE "NONE"

\* The cycle ends the episode: both commands are acknowledged as refused.
Terminate(next, in, reason) ==
    LET refused == prefix(in.command, next.last_accepted)
        status == IF refused = "none" THEN "REJECTED_STATE" ELSE refused
        arrival == IF in.command = NoCommand THEN <<>>
                   ELSE <<Ack(in.command, status, 0, "TERMINATED", reason)>>
        pending == IF next.pending = NoCommand THEN <<>>
                   ELSE <<Ack(next.pending, "REJECTED_STATE", 0, "TERMINATED", reason)>>
    IN  [state |-> [next EXCEPT !.mode = "TERMINATED", !.pending = NoCommand,
                                !.terminal = [reason |-> reason, tick |-> in.tick]],
         delta |-> NoTick, acks |-> arrival \o pending]

\* Mutant: every accepted command displaces the pending one.
PreemptsAll(c, pending) == c.opcode \in Opcodes

\* An ABORT displaces a pending command that is not an ABORT itself.
Preempts(c, pending) == c.opcode = "ABORT" /\ pending.opcode # "ABORT"

\* The arriving command: refused, preempting, queued or applied at once.
\* The result carries the arrival's and the displaced command's acks.
Arrive(next, in) ==
    LET c == in.command
        refused == prefix(c, next.last_accepted)
        status == IF refused = "none" /\ next.pending # NoCommand /\ ~Preempts(c, next.pending)
                  THEN "REJECTED_PENDING" ELSE refused
        displaced == IF next.pending = NoCommand THEN <<>>
                     ELSE <<Ack(next.pending, "PREEMPTED", 0, next.mode, "NONE")>>
        accepted == [next EXCEPT !.pending = NoCommand, !.last_accepted = c]
        now == apply(accepted, c, in.tick)
    IN  IF c = NoCommand
        THEN [state |-> next, arrival |-> <<>>, pending |-> <<>>]
        ELSE IF status # "none"
        THEN [state |-> next, pending |-> <<>>,
              arrival |-> <<Ack(c, status, 0, next.mode, "NONE")>>]
        ELSE IF c.effective_tick > in.tick
        THEN [state |-> [accepted EXCEPT !.pending = c], pending |-> displaced,
              arrival |-> <<Ack(c, "QUEUED", 0, next.mode, "NONE")>>]
        ELSE [state |-> now.state, arrival |-> <<now.ack>>, pending |-> displaced]

\* Mutant: a command is applied one cycle after its tick.
ApplyDueLate(arrived, in) ==
    LET next == arrived.state
        due == apply([next EXCEPT !.pending = NoCommand], next.pending, in.tick)
    IN  IF next.pending # NoCommand /\ next.pending.effective_tick < in.tick
        THEN [state |-> due.state, acks |-> arrived.arrival \o <<due.ack>>]
        ELSE [state |-> next, acks |-> arrived.arrival \o arrived.pending]

\* A pending command whose tick has come is applied.
ApplyDue(arrived, in) ==
    LET next == arrived.state
        due == apply([next EXCEPT !.pending = NoCommand], next.pending, in.tick)
    IN  IF next.pending # NoCommand /\ next.pending.effective_tick <= in.tick
        THEN [state |-> due.state, acks |-> arrived.arrival \o <<due.ack>>]
        ELSE [state |-> next, acks |-> arrived.arrival \o arrived.pending]

\* Mutant: the last output is repeated until the sensor is given up.
Coasts(staleness) == staleness < StaleLimit

\* The last output may be repeated.
MayCoast(staleness) == staleness <= CoastLimit

\* auto_arm, then the output: a PID step on a fresh observation, the last
\* output while the observation is young enough, +0.0 otherwise.
Fly(next, in) ==
    LET mode == IF next.auto_arm /\ in.fresh /\ next.mode \in {"INIT", "ARMED"}
                THEN "FLYING" ELSE next.mode
        flown == [next EXCEPT !.mode = mode]
    IN  IF next.terminal # NoTerminal THEN [state |-> next, delta |-> NoTick]
        ELSE IF mode = "FLYING" /\ in.fresh
        THEN [state |-> [flown EXCEPT !.pid = in.held.tick], delta |-> in.held.tick]
        ELSE IF mode = "FLYING" /\ MayCoast(in.staleness)
        THEN [state |-> flown, delta |-> next.pid]
        ELSE [state |-> flown, delta |-> NoTick]

step(state, in) ==
    LET count == SettleCount(state.settle_count, in.held)
        next == [state EXCEPT !.settle_count = count]
        reason == StopReason(count, in)
        commanded == ApplyDue(Arrive([next EXCEPT !.terminal = NoTerminal], in), in)
        flown == Fly(commanded.state, in)
    IN  IF state.mode = "TERMINATED" THEN [state |-> state, delta |-> NoTick, acks |-> <<>>]
        ELSE IF reason # "NONE" THEN Terminate(next, in, reason)
        ELSE [state |-> flown.state, delta |-> flown.delta, acks |-> commanded.acks]
=============================================================================
