--------------------------- MODULE HeadlessProofs ---------------------------
(***************************************************************************)
(* Proofs about Headless: the loop ends within the scenario's ticks, the   *)
(* policy ends with it, and with a reason that goes with the simulator's.  *)
(***************************************************************************)
EXTENDS Headless, TLAPS

Alive == {"INIT", "ARMED", "FLYING"}

Waiting(c) == c = NoCommand \/ c.opcode \in Opcodes

\* A policy that goes on, or was just aborted from the ground.
Going(mode, terminal, pending) ==
    mode \in Alive /\ terminal = NoTerminal /\ Waiting(pending)
Aborted(mode, terminal, pending, t) ==
    /\ mode = "TERMINATED" /\ pending = NoCommand
    /\ terminal.reason = "GROUND_ABORT" /\ terminal.tick = t

-----------------------------------------------------------------------------
(* The policy. *)

\* A command leaves a mode to go on in, or ends the episode.
LEMMA ApplyEnds ==
    ASSUME NEW mode \in Alive, NEW c, c.opcode \in Opcodes, NEW t
    PROVE  LET q == _apply(mode, c, t)
           IN  Going(q.mode, q.terminal, NoCommand) \/ Aborted(q.mode, q.terminal, NoCommand, t)
<1> DEFINE o == c.opcode
           q == _apply(mode, c, t)
           how == IF c.effective_tick = t THEN "APPLIED" ELSE "APPLIED_LATE"
           why == IF o = "ABORT" THEN "GROUND_ABORT" ELSE "NONE"
           to == [p \in Opcodes |-> CASE p = "ARM" -> "ARMED"
                                      [] p = "LAUNCH" -> "FLYING"
                                      [] p = "ABORT" -> "TERMINATED"]
           from == [p \in Opcodes |-> CASE p = "ARM" -> {"INIT"}
                                        [] p = "LAUNCH" -> {"ARMED"}
                                        [] p = "ABORT" -> {"ARMED", "FLYING"}]
<1>1. to[o] = CASE o = "ARM" -> "ARMED" [] o = "LAUNCH" -> "FLYING" [] o = "ABORT" -> "TERMINATED"
  OBVIOUS
<1>2. q = IF mode \notin from[o]
          THEN [mode |-> mode, terminal |-> NoTerminal,
                ack |-> Ack(c, "REJECTED_STATE", 0, mode, "NONE")]
          ELSE [mode |-> to[o], terminal |-> IF o = "ABORT" THEN [reason |-> why, tick |-> t] ELSE NoTerminal,
                ack |-> Ack(c, how, t, to[o], why)]
  BY DEF _apply
<1> HIDE DEF to, from, q
<1>3. CASE mode \notin from[o]
  BY <1>2, <1>3 DEF Going, Waiting, q
<1>4. CASE mode \in from[o] /\ o = "ABORT"
  BY <1>1, <1>2, <1>4 DEF Aborted, q
<1>5. CASE mode \in from[o] /\ o # "ABORT"
  BY <1>1, <1>2, <1>5 DEF Going, Waiting, Alive, Opcodes, q
<1> QED
  BY <1>3, <1>4, <1>5

\* The locals are a record of these.
Locals(l) ==
    /\ l = [i \in DOMAIN l |-> l[i]]
    /\ DOMAIN l = {"mode", "terminal", "last", "pending", "arrival_ack", "pending_ack"}

\* After the arriving command: a command that ends the episode at once leaves
\* none pending, since it preempted the one that was.
LEMMA ArriveEnds ==
    ASSUME NEW s, s.mode \in Alive, Waiting(s.pending), NEW in
    PROVE  LET l == _arrive(s, in)
           IN  /\ Locals(l)
               /\ Going(l.mode, l.terminal, l.pending) \/ Aborted(l.mode, l.terminal, l.pending, in.tick)
<1> DEFINE c == in.command
           t == in.tick
           refused == _prefix(c, s.last_accepted)
           busy == refused = "none" /\ s.pending # NoCommand
           preempts == busy /\ c.opcode = "ABORT" /\ s.pending.opcode # "ABORT"
           status == IF busy /\ ~preempts THEN "REJECTED_PENDING" ELSE refused
           now == _apply(s.mode, c, t)
           kept == [mode |-> s.mode, terminal |-> NoTerminal, last |-> s.last_accepted,
                    pending |-> s.pending, arrival_ack |-> _noAck, pending_ack |-> _noAck]
           left == IF preempts THEN NoCommand ELSE s.pending
           pack == IF preempts THEN Ack(s.pending, "PREEMPTED", 0, s.mode, "NONE") ELSE _noAck
           taken == [kept EXCEPT !.last = c, !.pending = left, !.pending_ack = pack]
           x == Ack(c, status, 0, s.mode, "NONE")
           y == Ack(c, "QUEUED", 0, s.mode, "NONE")
           l == _arrive(s, in)
           l1 == [kept EXCEPT !.arrival_ack = x]
           l2 == [taken EXCEPT !.pending = c, !.arrival_ack = y]
           l3 == [taken EXCEPT !.mode = now.mode, !.terminal = now.terminal, !.arrival_ack = now.ack]
<1>1. l = IF c = NoCommand THEN kept ELSE IF status # "none" THEN l1
          ELSE IF c.effective_tick > t THEN l2 ELSE l3
  BY DEF _arrive
<1>2. /\ kept.mode = s.mode /\ kept.terminal = NoTerminal /\ kept.pending = s.pending
      /\ l1.mode = s.mode /\ l1.terminal = NoTerminal /\ l1.pending = s.pending
      /\ Locals(kept) /\ Locals(l1)
  <2> HIDE DEF x
  <2> QED
    BY DEF Locals
<1>3. l2.mode = s.mode /\ l2.terminal = NoTerminal /\ l2.pending = c /\ Locals(l2)
  <2> HIDE DEF pack, left, y, now
  <2> QED
    BY DEF Locals
<1>4. l3.mode = now.mode /\ l3.terminal = now.terminal /\ l3.pending = left /\ Locals(l3)
  <2> HIDE DEF pack, left, y, now
  <2> QED
    BY DEF Locals
<1>5. status = "none" => c.opcode \in Opcodes /\ left = NoCommand
  <2>1. refused = "none" => c.opcode \in Opcodes
    BY DEF _prefix, Opcodes
  <2> HIDE DEF refused
  <2> QED
    BY <2>1
<1> HIDE DEF l, status, kept, l1, l2, l3, left
<1>6. CASE c = NoCommand \/ status # "none"
  BY <1>1, <1>2, <1>6 DEF Going, l
<1>7. CASE c # NoCommand /\ status = "none" /\ c.effective_tick > t
  BY <1>1, <1>3, <1>5, <1>7 DEF Going, Waiting, l
<1>8. CASE c # NoCommand /\ status = "none" /\ ~(c.effective_tick > t)
  <2>1. Going(now.mode, now.terminal, NoCommand) \/ Aborted(now.mode, now.terminal, NoCommand, t)
    BY <1>5, <1>8, ApplyEnds
  <2> HIDE DEF now
  <2> QED
    BY <1>1, <1>4, <1>5, <1>8, <2>1 DEF l
<1> QED
  BY <1>6, <1>7, <1>8

\* After the pending command, if it was due.
LEMMA DueEnds ==
    ASSUME NEW l, Locals(l), NEW in,
           Going(l.mode, l.terminal, l.pending) \/ Aborted(l.mode, l.terminal, l.pending, in.tick)
    PROVE  LET d == _due(l, in)
           IN  Going(d.mode, d.terminal, d.pending) \/ Aborted(d.mode, d.terminal, d.pending, in.tick)
<1> DEFINE due == _apply(l.mode, l.pending, in.tick)
           d == _due(l, in)
           m == [l EXCEPT !.pending = NoCommand, !.mode = due.mode,
                          !.terminal = due.terminal, !.pending_ack = due.ack]
<1>1. d = IF l.pending = NoCommand \/ l.pending.effective_tick > in.tick THEN l ELSE m
  BY DEF _due
<1>2. m.mode = due.mode /\ m.terminal = due.terminal /\ m.pending = NoCommand
  <2> HIDE DEF due
  <2> QED
    BY DEF Locals
<1> HIDE DEF d, m
<1>3. CASE l.pending = NoCommand \/ l.pending.effective_tick > in.tick
  BY <1>1, <1>3 DEF d
<1>4. CASE ~(l.pending = NoCommand \/ l.pending.effective_tick > in.tick)
  <2>1. l.mode \in Alive /\ l.pending.opcode \in Opcodes
    BY <1>4 DEF Going, Aborted, Waiting
  <2>2. Going(due.mode, due.terminal, NoCommand) \/ Aborted(due.mode, due.terminal, NoCommand, in.tick)
    BY <2>1, ApplyEnds
  <2> HIDE DEF due
  <2> QED
    BY <1>1, <1>2, <1>4, <2>2 DEF d
<1> QED
  BY <1>3, <1>4

\* A cycle ends with the reason the policy found, or goes on, or was aborted.
LEMMA StepEnds ==
    ASSUME NEW s, s.mode \in Alive, Waiting(s.pending), NEW in
    PROVE  LET o == RefStep(s, in).state
           IN  \E count : IF _reason(count, in) # "NONE"
                          THEN /\ o.mode = "TERMINATED" /\ o.terminal.tick = in.tick
                               /\ o.terminal.reason = _reason(count, in)
                          ELSE Going(o.mode, o.terminal, o.pending) \/ Aborted(o.mode, o.terminal, o.pending, in.tick)
<1> DEFINE count == IF in.held.class # "settled" THEN 0
                    ELSE IF s.settle_count + 1 < SettleTarget THEN s.settle_count + 1 ELSE SettleTarget
           why == _reason(count, in)
           l == _arrive(s, in)
           local == _due(l, in)
           armed == IF s.auto_arm /\ in.fresh /\ local.mode = "INIT" THEN "ARMED" ELSE local.mode
           mode == IF local.terminal # NoTerminal THEN local.mode
                   ELSE IF s.auto_arm /\ in.fresh /\ armed = "ARMED" THEN "FLYING" ELSE armed
           o == RefStep(s, in).state
<1>1. Going(local.mode, local.terminal, local.pending) \/ Aborted(local.mode, local.terminal, local.pending, in.tick)
  <2>1. Locals(l) /\ (Going(l.mode, l.terminal, l.pending) \/ Aborted(l.mode, l.terminal, l.pending, in.tick))
    BY ArriveEnds
  <2> HIDE DEF l
  <2> QED
    BY <2>1, DueEnds
<1>2. why # "NONE" => o.mode = "TERMINATED" /\ o.terminal.reason = why /\ o.terminal.tick = in.tick
  <2> HIDE DEF why, count
  <2>1. why = _reason(count, in)
    BY DEF why
  <2> QED
    BY <2>1 DEF RefStep, count, Alive
<1>3. why = "NONE" => o.mode = mode /\ o.terminal = local.terminal /\ o.pending = local.pending
  <2> HIDE DEF l
  <2> QED
    BY DEF RefStep, Alive, l
<1> HIDE DEF local, o, why
<1>4. Going(mode, local.terminal, local.pending) \/ Aborted(mode, local.terminal, local.pending, in.tick)
  BY <1>1 DEF Going, Aborted, Alive, NoTerminal
<1> HIDE DEF mode
<1>5. IF why # "NONE" THEN o.mode = "TERMINATED" /\ o.terminal.reason = why /\ o.terminal.tick = in.tick
      ELSE Going(o.mode, o.terminal, o.pending) \/ Aborted(o.mode, o.terminal, o.pending, in.tick)
  BY <1>2, <1>3, <1>4
<1> HIDE DEF count
<1> QED
  BY <1>5 DEF why, o

-----------------------------------------------------------------------------
(* The inductive invariant. *)

\* While the loop runs: the policy goes on too, and an attitude beyond the limit
\* has been noticed by the simulator, unless the run started with it.
Underway ==
    sim_reason = "none" =>
        /\ tick \in Nat /\ tick < Ticks
        /\ Going(state.mode, state.terminal, state.pending)
        /\ pending_reason \in {"none", "angle", "nonfinite"}
        /\ truth = "diverged" /\ pending_reason = "none" => tick = 0

\* When it has ended, the policy has, at the tick where the loop stands.
Ended == sim_reason # "none" => state.mode = "TERMINATED" /\ state.terminal.tick = tick

HeadlessInv == Underway /\ Ended /\ EndsPaired

\* At the start the loop is underway.
LEMMA HeadlessStarts == Init => HeadlessInv
  BY HeadlessAssumption DEF Init, HeadlessInv, Underway, Ended, EndsPaired, Going, Waiting, Alive, initial

\* A pass of the loop goes on, or ends with a pair of reasons that belong together.
LEMMA TickKeeps ==
    ASSUME Underway, NEW up_drop \in BOOLEAN, NEW down_drop, NEW opcode, NEW nextTruth,
           Tick(up_drop, down_drop, opcode, nextTruth)
    PROVE  Underway' /\ Ended' /\ (Ticks > 1 => EndsPaired')
<1> DEFINE sampled == ~up_drop /\ truth # "nonfinite"
           in == Input(sampled, opcode)
           out == RefStep(state, in)
           obs == IF sampled THEN [tick |-> tick, class |-> truth] ELSE held
           age == IF obs = NoHeld THEN tick + 1 ELSE tick - obs.tick
           flag == Flagged(tick, pending_reason)
           over == IF in.sim_reason # "none" THEN in.sim_reason
                   ELSE IF out.state.terminal # NoTerminal THEN "vehicle" ELSE "none"
<1>1. /\ sim_reason = "none" /\ held' = in.held /\ state' = out.state /\ sim_reason' = over
      /\ IF over = "none"
         THEN tick' = tick + 1 /\ truth' = nextTruth /\ pending_reason' = LossOfControl(nextTruth)
         ELSE UNCHANGED <<tick, truth, pending_reason>>
  BY DEF Tick, Advance
<1>2. /\ in.held = obs /\ in.fresh = sampled /\ in.staleness = age /\ in.sim_reason = flag
      /\ in.stop_reason = "NONE" /\ in.horizon_reached = FALSE /\ in.tick = tick
  <2> HIDE DEF flag
  <2> QED
    BY DEF Input, flag
<1>3. /\ tick \in Nat /\ tick < Ticks /\ Going(state.mode, state.terminal, state.pending)
      /\ pending_reason \in {"none", "angle", "nonfinite"}
      /\ truth = "diverged" /\ pending_reason = "none" => tick = 0
  BY <1>1 DEF Underway
<1>4. sampled => obs.class = truth
  OBVIOUS
<1>5. /\ flag \in {"none", "horizon", "angle", "nonfinite"}
      /\ flag = "horizon" => pending_reason = "none" /\ tick = Ticks - 1
      /\ flag = "none" => pending_reason = "none" /\ tick # Ticks - 1
  BY <1>3 DEF Flagged
<1>6. PICK count :
         IF _reason(count, in) # "NONE"
         THEN /\ out.state.mode = "TERMINATED" /\ out.state.terminal.tick = in.tick
              /\ out.state.terminal.reason = _reason(count, in)
         ELSE \/ Going(out.state.mode, out.state.terminal, out.state.pending)
              \/ Aborted(out.state.mode, out.state.terminal, out.state.pending, in.tick)
  BY <1>3, StepEnds DEF Going
<1> DEFINE why == _reason(count, in)
<1> HIDE DEF in, out, obs, flag, sampled, age
<1>7. /\ flag \in {"angle", "nonfinite"} => why = "DIVERGED"
      /\ flag = "none" => why \in {"NONE", "DIVERGED", "SENSOR_LOST"}
      /\ flag = "horizon" => \/ why \in {"STABILIZED", "NOT_SETTLED"}
                             \/ why = "SENSOR_LOST" /\ age >= StaleLimit
                             \/ why = "DIVERGED" /\ sampled /\ obs.class = "diverged"
  BY <1>2, <1>5 DEF _reason
<1>8. Ticks > 1 /\ flag = "horizon" => why # "DIVERGED"
  BY HeadlessAssumption, <1>3, <1>4, <1>5, <1>7
<1> HIDE DEF why
<1>9. CASE over = "none"
  <2>1. flag = "none" /\ out.state.terminal = NoTerminal
    BY <1>2, <1>5, <1>9
  <2>2. Going(out.state.mode, out.state.terminal, out.state.pending)
    BY <1>6, <1>7, <2>1 DEF Aborted, NoTerminal, why
  <2>3. tick' = tick + 1 /\ pending_reason' = LossOfControl(nextTruth) /\ truth' = nextTruth
    BY <1>1, <1>9
  <2>4. pending_reason' \in {"none", "angle", "nonfinite"} /\ (truth' = "diverged" => pending_reason' = "angle")
    BY <2>3 DEF LossOfControl
  <2>5. tick + 1 \in Nat /\ tick + 1 < Ticks
    BY HeadlessAssumption, <1>3, <1>5, <2>1
  <2> QED
    BY <1>1, <1>9, <2>2, <2>3, <2>4, <2>5 DEF Underway, Ended, EndsPaired
<1>10. CASE over # "none"
  <2>1. UNCHANGED <<tick, truth, pending_reason>> /\ held' = obs
    BY <1>1, <1>2, <1>10
  <2>2. age = IF held' = NoHeld THEN tick' + 1 ELSE tick' - held'.tick
    BY <2>1 DEF age
  <2>3. CASE flag # "none"
    <3>1. over = flag /\ why # "NONE"
      BY <1>2, <1>5, <1>7, <2>3
    <3>2. state'.mode = "TERMINATED" /\ state'.terminal.reason = why /\ state'.terminal.tick = tick
      BY <1>1, <1>2, <1>6, <3>1 DEF why
    <3>3. Ticks > 1 => Paired(flag, why, age)
      BY <1>5, <1>7, <1>8, <2>3 DEF Paired
    <3> QED
      BY <1>1, <1>10, <2>2, <3>1, <3>2, <3>3 DEF Underway, Ended, EndsPaired
  <2>4. CASE flag = "none"
    <3>1. over = "vehicle" /\ out.state.terminal # NoTerminal
      BY <1>2, <1>10, <2>4
    <3>2. /\ out.state.mode = "TERMINATED" /\ out.state.terminal.tick = tick
          /\ out.state.terminal.reason \in {"DIVERGED", "SENSOR_LOST", "GROUND_ABORT"}
      BY <1>2, <1>6, <1>7, <2>4, <3>1 DEF Going, Aborted, why
    <3>3. Paired("vehicle", out.state.terminal.reason, age)
      BY <3>2 DEF Paired
    <3> QED
      BY <1>1, <1>10, <2>2, <3>1, <3>2, <3>3 DEF Underway, Ended, EndsPaired
  <2> QED
    BY <2>3, <2>4
<1> QED
  BY <1>9, <1>10

-----------------------------------------------------------------------------
(* The theorems. *)

\* The invariant holds throughout a run of more than one tick.  A scenario of a
\* single tick that starts beyond the limit ends as horizon and DIVERGED, which
\* reconcile.py does not pair.
THEOREM HeadlessInvariant == ASSUME Ticks > 1 PROVE Spec => []HeadlessInv
<1>1. Init => HeadlessInv
  BY HeadlessStarts
<1>2. HeadlessInv /\ [Next]_vars => HeadlessInv'
  <2> SUFFICES ASSUME HeadlessInv, [Next]_vars PROVE HeadlessInv'
    OBVIOUS
  <2>1. CASE \E up_drop, down_drop \in Draws, opcode \in Requests \union {"NONE"}, t \in Truths :
                Tick(up_drop, down_drop, opcode, t)
    <3>1. PICK up_drop \in Draws, down_drop \in Draws, opcode \in Requests \union {"NONE"}, t \in Truths :
             Tick(up_drop, down_drop, opcode, t)
      BY <2>1
    <3>2. up_drop \in BOOLEAN
      BY HeadlessAssumption DEF Draws
    <3> QED
      BY <3>1, <3>2, TickKeeps DEF HeadlessInv
  <2>2. CASE UNCHANGED vars
    BY <2>2 DEF vars, HeadlessInv, Underway, Ended, EndsPaired
  <2> QED
    BY <2>1, <2>2 DEF Next, Over
<1> QED
  BY <1>1, <1>2, PTL DEF Spec

\* When the loop ends the policy has ended too, with a reason that reconcile.py
\* pairs with the simulator's, for every scenario of more than one tick.
THEOREM EndsAlwaysPaired == ASSUME Ticks > 1 PROVE Spec => []EndsPaired
<1>1. HeadlessInv => EndsPaired
  BY DEF HeadlessInv
<1> QED
  BY <1>1, HeadlessInvariant, PTL
=============================================================================
