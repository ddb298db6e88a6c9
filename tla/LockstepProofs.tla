--------------------------- MODULE LockstepProofs ---------------------------
(***************************************************************************)
(* Proofs about Lockstep, for any number of ticks, attempts and faults:    *)
(* transactions do not overlap, the counters close, the two processes take *)
(* only the steps of the reference run and agree when both succeed, every  *)
(* fault that costs a datagram or stops a process is reported, and retries *)
(* alone keep a run eligible.                                              *)
(*                                                                         *)
(* The policy's lemmas come from EpisodePolicyProofs, with the vehicle's   *)
(* state as the simulator last accepted it (Policy), and those about the   *)
(* run's ending from HeadlessProofs, under the refinement (Loop).          *)
(***************************************************************************)
EXTENDS Lockstep, FiniteSetTheorems, TLAPS

Policy == INSTANCE EpisodePolicyProofs WITH
    MaxTick <- Ticks, CmdOpcodes <- Opcodes, Leads <- {CmdDelay},
    Classes <- {"settled", "off", "diverged"},
    SimFlags <- {"horizon", "angle", "nonfinite"}, Stops <- {},
    state <- agreed, held <- sampled, delta <- NoTick, open <- {}

Loop == INSTANCE HeadlessProofs WITH
    state <- agreed, held <- sampled,
    command_seq <- IF frame.opcode = "NONE" THEN command_seq ELSE (command_seq - 1) % SeqMod,
    sim_reason <- IF final_reason = "peer_lost" THEN "none" ELSE final_reason

-----------------------------------------------------------------------------
(* The inductive invariant. *)

SampleFields == {"tick", "valid", "class", "opcode", "cmd_seq", "sim_reason", "sound"}
ReplyFields == {"tick", "veh_tick", "delta", "mode", "reason", "ack", "staleness", "sound"}
SessionFields ==
    {"state", "held", "sim_seen", "fault", "newest_answered", "last_payload", "reply",
     "record", "reply_transmitted", "integrity"}

\* r is a record of these fields.
Shaped(r, fields) == r = [f \in fields |-> r[f]]

Newest == session.newest_answered

Types ==
    /\ spc \in {"tick", "send", "wait", "done"} /\ tick \in Nat /\ truth \in Truths
    /\ command_seq \in 0 .. SeqMod - 1 /\ down_drop \in Reference!Draws
    /\ Newest \in Int
    /\ Shaped(frame, SampleFields) /\ Shaped(session, SessionFields)

\* The counters.
Tallies ==
    /\ up_tx \in [SendFields -> Int]
    /\ down_tx \in [SendFields \union {"original_tx_fail"} -> Int]
    /\ up_rx \in [UpRxFields -> Int] /\ down_rx \in [DownRxFields -> Int]
    /\ events \in [EventFields -> Int]

\* Whose turn it is: the vehicle has answered the current tick or the one
\* before, and what it answered last is the simulator's present frame.
Turns ==
    /\ Newest \in {tick - 1, tick}
    /\ spc = "tick" => Newest = tick - 1 /\ frame = NoFrame
    /\ spc \in {"send", "wait"} => frame # NoFrame
    /\ frame # NoFrame => frame.tick = tick /\ frame.sound
    /\ Newest = tick => frame \in {NoFrame, session.last_payload}
    /\ session.reply.tick = Newest /\ session.reply.veh_tick = Newest
    /\ session.reply.sound /\ Shaped(session.reply, ReplyFields)

\* Every sample that is under way is old, the one answered last, or the frame;
\* every reply is old or the last one.
Wires ==
    /\ \A m \in BagToSet(uplink) :
           /\ Shaped(m, SampleFields)
           /\ m.sound => /\ m.tick \in Nat /\ m.tick <= Newest + 1
                         /\ m.tick = Newest + 1 => m = frame
                         /\ m.tick = Newest => m = session.last_payload
    /\ \A m \in BagToSet(downlink) :
           /\ Shaped(m, ReplyFields)
           /\ m.sound => /\ m.tick \in Int /\ m.tick <= Newest
                         /\ m.tick = Newest => m = session.reply

\* The counters that tell of the transactions.
Counted ==
    /\ up_rx.logical_received = Newest + 1 /\ events.episode_transitions = Newest + 1
    /\ up_rx.skipped_tick = 0 /\ up_rx.discarded_tick_conflict = 0
    /\ down_rx.rejected_received = down_rx.test_discarded + down_rx.discarded_old

\* The frame is the sample that BuildSample made of this tick.
Built ==
    frame # NoFrame =>
        /\ frame.valid \in BOOLEAN /\ (~frame.valid) \in Reference!Draws
        /\ frame.class = IF frame.valid THEN truth ELSE "none"
        /\ frame.opcode \in Requests \union {"NONE"}
        /\ frame.cmd_seq = IF frame.opcode = "NONE" THEN 0 ELSE command_seq
        /\ frame.sim_reason = Reference!Flagged(tick, pending_reason)

\* The vehicle is where the simulator last saw it, but for an answer to the frame.
Level == frame = NoFrame \/ Newest = tick - 1

\* The inputs of the cycle that a sample starts, given the held observation.
Intake(f, h) ==
    LET obs == IF Usable(f) THEN [tick |-> f.tick, class |-> f.class] ELSE h
    IN  [tick |-> f.tick, held |-> obs, fresh |-> Usable(f),
         staleness |-> IF obs = NoHeld THEN f.tick + 1 ELSE f.tick - obs.tick,
         command |-> IF f.opcode = "NONE" THEN NoCommand
                     ELSE [cmd_seq |-> f.cmd_seq, opcode |-> f.opcode,
                           effective_tick |-> f.tick + CmdDelay],
         horizon_reached |-> FALSE, sim_reason |-> f.sim_reason, stop_reason |-> "NONE"]

Stepped ==
    IF Level THEN session.state = agreed /\ session.held = sampled
    ELSE LET in == Intake(frame, sampled)
             r == step(agreed, in)
         IN  /\ session.state = r.state /\ session.held = in.held
             /\ session.reply.delta = r.delta /\ session.record.fresh = in.fresh

\* Record and reply of the last answer tell the same, and of the present state.
Told ==
    Newest # NoTick =>
        LET record == session.record
            reply == session.reply
        IN  /\ record.tick = Newest /\ record.sensor_tick = session.held.tick
            /\ record.staleness = IF session.held = NoHeld THEN Newest + 1
                                  ELSE Newest - session.held.tick
            /\ record.state = session.state.mode /\ record.reason = session.state.terminal.reason
            /\ reply.staleness = record.staleness /\ reply.mode = record.state
            /\ reply.reason = record.reason /\ reply.delta = record.cmd /\ reply.ack = record.ack

\* The run goes on until the simulator has a reason, which both sides know.
Known ==
    /\ spc # "done" \/ frame # NoFrame => final_reason = "peer_lost"
    /\ spc = "done" /\ scode = 0 => final_reason # "peer_lost"
    /\ final_reason = "peer_lost" => session.sim_seen = IF Level THEN NoReason ELSE frame.sim_reason
    /\ final_reason # "peer_lost" =>
           /\ Newest = tick /\ final_reason # "none" /\ vehicle_seen = agreed.terminal.reason
           /\ session.sim_seen = IF final_reason = "vehicle" THEN NoReason ELSE final_reason

\* The policy's state and observation are of their types, nothing is overdue.
PolicySound ==
    /\ Policy!Sound(agreed) /\ sampled \in Policy!HeldType
    /\ final_reason = "peer_lost" => Policy!Timely(agreed, tick)

\* The reference run's own invariant; its pairs need more than one tick.
Looping == Loop!Underway /\ Loop!Ended /\ (Ticks > 1 => Loop!EndsPaired)

\* A fault tells why the vehicle stopped, and no success hides one.
Faulted ==
    /\ \/ session.fault = NoTerminal \/ session.fault.reason \in {"PEER_LOST", "INTERNAL"}
       \/ session.fault.reason = "SIGNAL" /\ stop_requested
    /\ vpc = "exited" /\ vcode = 0 => session.fault = NoTerminal

LockstepInv ==
    /\ Types /\ Turns /\ Wires /\ Tallies /\ Counted /\ CountersClose
    /\ Built /\ Stepped /\ Told /\ Known /\ PolicySound /\ Looping /\ matched /\ Faulted

-----------------------------------------------------------------------------
(* One policy: the operators of the instances are those of Episode. *)

\* The constants of the three instances.
LEMMA SameAbsent ==
    /\ Policy!NoCommand = NoCommand /\ Policy!NoTerminal = NoTerminal /\ Policy!NoTick = NoTick
    /\ Loop!NoCommand = NoCommand /\ Loop!NoTerminal = NoTerminal /\ Loop!NoTick = NoTick
    /\ Reference!NoCommand = NoCommand /\ Reference!NoTerminal = NoTerminal
    /\ Reference!NoTick = NoTick /\ Policy!NoHeld = NoHeld /\ Loop!NoHeld = NoHeld
    /\ Reference!NoHeld = NoHeld
  BY Zenon DEF Policy!NoCommand, Policy!NoTerminal, Policy!NoTick, Policy!NoHeld,
               Loop!NoCommand, Loop!NoTerminal, Loop!NoTick, Loop!NoHeld,
               Reference!NoCommand, Reference!NoTerminal, Reference!NoTick, Reference!NoHeld,
               NoCommand, NoTerminal, NoTick, NoHeld

\* prefix
LEMMA SamePrefix ==
    ASSUME NEW c, NEW last
    PROVE  /\ Policy!prefix(c, last) = prefix(c, last)
           /\ Loop!_prefix(c, last) = Reference!_prefix(c, last)
           /\ Policy!_prefix(c, last) = Reference!_prefix(c, last)
<1>1. Policy!prefix(c, last) = prefix(c, last)
  BY Zenon DEF Policy!prefix, prefix, Policy!NoCommand, NoCommand, Policy!Opcodes, Opcodes
<1>2. /\ Loop!_prefix(c, last) = Reference!_prefix(c, last)
      /\ Policy!_prefix(c, last) = Reference!_prefix(c, last)
  BY Zenon DEF Loop!_prefix, Reference!_prefix, Policy!_prefix, Loop!NoCommand,
               Reference!NoCommand, Policy!NoCommand
<1> QED
  BY <1>1, <1>2

\* apply
LEMMA SameApply ==
    ASSUME NEW n, NEW c, NEW t
    PROVE  /\ Policy!apply(n, c, t) = apply(n, c, t)
           /\ Loop!_apply(n, c, t) = Reference!_apply(n, c, t)
           /\ Policy!_apply(n, c, t) = Reference!_apply(n, c, t)
<1>1. Policy!apply(n, c, t) = apply(n, c, t)
  BY Zenon DEF Policy!apply, apply, Policy!Applied, Applied, Policy!Ack, Ack
<1>2. /\ Loop!_apply(n, c, t) = Reference!_apply(n, c, t)
      /\ Policy!_apply(n, c, t) = Reference!_apply(n, c, t)
  BY Zenon DEF Loop!_apply, Reference!_apply, Policy!_apply, Loop!Ack, Reference!Ack, Policy!Ack,
               Loop!NoTerminal, Reference!NoTerminal, Policy!NoTerminal,
               Loop!Opcodes, Reference!Opcodes, Policy!Opcodes
<1> QED
  BY <1>1, <1>2

\* The arriving command in the simulator's policy.
LEMMA SameArrive ==
    ASSUME NEW s, NEW in
    PROVE  /\ Loop!_arrive(s, in) = Reference!_arrive(s, in)
           /\ Policy!_arrive(s, in) = Reference!_arrive(s, in)
<1>1. /\ Loop!_prefix(in.command, s.last_accepted) = Reference!_prefix(in.command, s.last_accepted)
      /\ Loop!_apply(s.mode, in.command, in.tick) = Reference!_apply(s.mode, in.command, in.tick)
  BY SamePrefix, SameApply
<1>2. /\ Policy!_prefix(in.command, s.last_accepted) = Reference!_prefix(in.command, s.last_accepted)
      /\ Policy!_apply(s.mode, in.command, in.tick) = Reference!_apply(s.mode, in.command, in.tick)
  BY SamePrefix, SameApply
<1>3. Loop!_arrive(s, in) = Reference!_arrive(s, in)
  BY Zenon, <1>1
     DEF Loop!_arrive, Reference!_arrive, Loop!_noAck, Reference!_noAck, Loop!NoCommand,
         Reference!NoCommand, Loop!Ack, Reference!Ack, Loop!NoTerminal, Reference!NoTerminal
<1>4. Policy!_arrive(s, in) = Reference!_arrive(s, in)
  BY Zenon, <1>2
     DEF Policy!_arrive, Reference!_arrive, Policy!_noAck, Reference!_noAck, Policy!NoCommand,
         Reference!NoCommand, Policy!Ack, Reference!Ack, Policy!NoTerminal, Reference!NoTerminal
<1> QED
  BY <1>3, <1>4

\* The due command in the simulator's policy.
LEMMA SameDue ==
    ASSUME NEW s, NEW in
    PROVE  Loop!_due(s, in) = Reference!_due(s, in) /\ Policy!_due(s, in) = Reference!_due(s, in)
<1>1. Loop!_due(s, in) = Reference!_due(s, in)
  BY Zenon, SameApply DEF Loop!_due, Reference!_due, Loop!NoCommand, Reference!NoCommand
<1>2. Policy!_due(s, in) = Reference!_due(s, in)
  BY Zenon, SameApply DEF Policy!_due, Reference!_due, Policy!NoCommand, Reference!NoCommand
<1> QED
  BY <1>1, <1>2

\* A cycle of the simulator's policy.
LEMMA SameRefStep ==
    ASSUME NEW s, NEW in
    PROVE  /\ Loop!RefStep(s, in) = Reference!RefStep(s, in)
           /\ Policy!RefStep(s, in) = Reference!RefStep(s, in)
<1> DEFINE count == IF in.held.class # "settled" THEN 0
                    ELSE IF s.settle_count + 1 < SettleTarget THEN s.settle_count + 1 ELSE SettleTarget
<1>1. /\ Loop!_prefix(in.command, s.last_accepted) = Reference!_prefix(in.command, s.last_accepted)
      /\ Loop!_reason(count, in) = Reference!_reason(count, in)
  BY Zenon, SamePrefix DEF Loop!_reason, Reference!_reason
<1>2. Loop!_due(Loop!_arrive(s, in), in) = Reference!_due(Reference!_arrive(s, in), in)
  BY SameArrive, SameDue
<1>3. Loop!RefStep(s, in) = Reference!RefStep(s, in)
  BY ZenonT(60), <1>1, <1>2
     DEF Loop!RefStep, Reference!RefStep, Loop!_noAck, Reference!_noAck, Loop!_acks, Reference!_acks,
         Loop!NoCommand, Reference!NoCommand, Loop!Ack, Reference!Ack, Loop!NoTerminal,
         Reference!NoTerminal, Loop!NoTick, Reference!NoTick
<1>4. /\ Policy!_prefix(in.command, s.last_accepted) = Reference!_prefix(in.command, s.last_accepted)
      /\ Policy!_reason(count, in) = Reference!_reason(count, in)
  BY Zenon, SamePrefix DEF Policy!_reason, Reference!_reason
<1>5. Policy!_due(Policy!_arrive(s, in), in) = Reference!_due(Reference!_arrive(s, in), in)
  BY SameArrive, SameDue
<1>6. Policy!RefStep(s, in) = Reference!RefStep(s, in)
  BY ZenonT(60), <1>4, <1>5
     DEF Policy!RefStep, Reference!RefStep, Policy!_noAck, Reference!_noAck, Policy!_acks,
         Reference!_acks, Policy!NoCommand, Reference!NoCommand, Policy!Ack, Reference!Ack,
         Policy!NoTerminal, Reference!NoTerminal, Policy!NoTick, Reference!NoTick
<1> QED
  BY <1>3, <1>6

\* A cycle of the vehicle's policy.
LEMMA SameStep ==
    ASSUME NEW s, NEW in
    PROVE  Policy!step(s, in) = step(s, in)
<1> DEFINE count == SettleCount(s.settle_count, in.held)
           next == [s EXCEPT !.settle_count = count]
           n == [next EXCEPT !.terminal = NoTerminal]
           accepted == [n EXCEPT !.pending = NoCommand, !.last_accepted = in.command]
           a == Arrive(n, in)
           cleared == [a.state EXCEPT !.pending = NoCommand]
           d == ApplyDue(a, in)
           why == StopReason(count, in)
<1>1. Policy!SettleCount(s.settle_count, in.held) = count /\ Policy!StopReason(count, in) = why
  BY Zenon DEF Policy!SettleCount, SettleCount, Policy!StopReason, StopReason
<1>2. Policy!Terminate(next, in, why) = Terminate(next, in, why)
  <2> HIDE DEF next, why
  <2> QED
    BY Zenon, SamePrefix DEF Policy!Terminate, Terminate, Policy!NoCommand, NoCommand, Policy!Ack,
                             Ack, Policy!NoTick, NoTick
<1>3. Policy!Arrive(n, in) = a
  <2>1. /\ Policy!prefix(in.command, n.last_accepted) = prefix(in.command, n.last_accepted)
        /\ Policy!apply(accepted, in.command, in.tick) = apply(accepted, in.command, in.tick)
        /\ Policy!NoCommand = NoCommand
    BY SamePrefix, SameApply, SameAbsent
  <2> HIDE DEF n
  <2> QED
    BY Zenon, <2>1 DEF Policy!Arrive, Arrive, Policy!Preempts, Preempts, Policy!Ack, Ack
<1>4. Policy!ApplyDue(a, in) = d
  <2>1. /\ Policy!apply(cleared, a.state.pending, in.tick) = apply(cleared, a.state.pending, in.tick)
        /\ Policy!NoCommand = NoCommand
    BY SameApply, SameAbsent
  <2> HIDE DEF a
  <2> QED
    BY Zenon, <2>1 DEF Policy!ApplyDue, ApplyDue
<1>5. Policy!Fly(d.state, in) = Fly(d.state, in)
  <2> HIDE DEF d
  <2> QED
    BY Zenon DEF Policy!Fly, Fly, Policy!MayCoast, MayCoast, Policy!NoTerminal, NoTerminal,
                 Policy!NoTick, NoTick
<1> QED
  BY Zenon, <1>1, <1>2, <1>3, <1>4, <1>5, SameAbsent DEF Policy!step, step

-----------------------------------------------------------------------------
(* Datagrams and counters. *)

\* What is under way after a send, and after a receipt.
LEMMA BagFacts ==
    ASSUME NEW bag, NEW m
    PROVE  /\ BagToSet(Put(bag, m)) = BagToSet(bag) \union {m}
           /\ BagToSet(Take(bag, m)) \subseteq BagToSet(bag)
  BY DEF Put, Take, BagToSet, SetToBag, (+), (-)

\* Counters stay integers, and change by one where they change.
LEMMA TallyFacts ==
    ASSUME NEW F, NEW c \in [F -> Int], NEW S
    PROVE  /\ Up(c, S) \in [F -> Int] /\ \A k \in F : Up(c, S)[k] = IF k \in S THEN c[k] + 1 ELSE c[k]
           /\ Down(c, S) \in [F -> Int] /\ \A k \in F : Down(c, S)[k] = IF k \in S THEN c[k] - 1 ELSE c[k]
  BY DEF Up, Down, One

\* Making a datagram, and an attempt to send it, keep the sender's identities.
LEMMA SenderFacts ==
    ASSUME NEW F, SendFields \subseteq F, NEW c \in [F -> Int], SenderCloses(c),
           NEW original \in BOOLEAN, NEW success \in BOOLEAN, NEW again
    PROVE  /\ Generate(c) \in [F -> Int] /\ SenderCloses(Generate(c))
           /\ LET d == FinishSend(BeginSend(c, original), success, again)
              IN  d \in [F -> Int] /\ SenderCloses(d)
<1>1. Generate(c) \in [F -> Int] /\ SenderCloses(Generate(c))
  BY TallyFacts DEF Generate, SenderCloses, SendFields
<1> DEFINE b == BeginSend(c, original)
           d == FinishSend(b, success, again)
<1>2. b \in [F -> Int]
  <2>1. Up(c, {"send_attempts", "send_pending", "original_attempts"}) \in [F -> Int]
    BY TallyFacts
  <2> QED
    BY <2>1, TallyFacts DEF BeginSend
<1>3. /\ b.generated = b.original_attempts + b.not_attempted
      /\ b.send_attempts = b.original_attempts + b.retry_attempts
      /\ b.send_attempts = b.tx_fail + b.transmitted + b.send_pending
      /\ b.transmitted = b.first_transmitted + b.additional_copies
      /\ b.generated = b.first_transmitted + b.never_transmitted
  <2> DEFINE e == Up(c, {"send_attempts", "send_pending", "original_attempts"})
             g == Down(e, {"not_attempted"})
             h == Up(c, {"send_attempts", "send_pending", "retry_attempts"})
  <2>1. e \in [F -> Int] /\ \A k \in F : e[k] = IF k \in {"send_attempts", "send_pending", "original_attempts"} THEN c[k] + 1 ELSE c[k]
    BY TallyFacts
  <2>2. h \in [F -> Int] /\ \A k \in F : h[k] = IF k \in {"send_attempts", "send_pending", "retry_attempts"} THEN c[k] + 1 ELSE c[k]
    BY TallyFacts
  <2> HIDE DEF e, h
  <2>3. \A k \in F : g[k] = IF k \in {"not_attempted"} THEN e[k] - 1 ELSE e[k]
    BY <2>1, TallyFacts
  <2> HIDE DEF g
  <2>4. b = IF original THEN g ELSE h
    BY DEF BeginSend, g, e, h
  <2> HIDE DEF b
  <2>5. CASE original
    BY <2>1, <2>3, <2>4, <2>5 DEF SendFields, SenderCloses
  <2>6. CASE ~original
    BY <2>2, <2>4, <2>6 DEF SendFields, SenderCloses
  <2> QED
    BY <2>5, <2>6
<1> HIDE DEF b
<1>4. d \in [F -> Int] /\ SenderCloses(d)
  <2> DEFINE e == Down(b, {"send_pending"})
             f == Up(e, {"tx_fail"})
             g == Up(e, {"transmitted", "additional_copies"})
             h == Up(e, {"transmitted", "first_transmitted"})
             j == Down(h, {"never_transmitted"})
  <2>1. e \in [F -> Int] /\ \A k \in F : e[k] = IF k \in {"send_pending"} THEN b[k] - 1 ELSE b[k]
    BY <1>2, TallyFacts
  <2>2. d = IF ~success THEN f ELSE IF again THEN g ELSE j
    BY DEF FinishSend
  <2> HIDE DEF e, d
  <2>3. f \in [F -> Int] /\ \A k \in F : f[k] = IF k \in {"tx_fail"} THEN e[k] + 1 ELSE e[k]
    BY <2>1, TallyFacts
  <2>4. /\ g \in [F -> Int]
        /\ \A k \in F : g[k] = IF k \in {"transmitted", "additional_copies"} THEN e[k] + 1 ELSE e[k]
    BY <2>1, TallyFacts
  <2>5. /\ h \in [F -> Int]
        /\ \A k \in F : h[k] = IF k \in {"transmitted", "first_transmitted"} THEN e[k] + 1 ELSE e[k]
    BY <2>1, TallyFacts
  <2> HIDE DEF h
  <2>6. j \in [F -> Int] /\ \A k \in F : j[k] = IF k \in {"never_transmitted"} THEN h[k] - 1 ELSE h[k]
    BY <2>5, TallyFacts
  <2> HIDE DEF f, g, j
  <2>7. CASE d = f
    BY <1>2, <1>3, <2>1, <2>3, <2>7 DEF SenderCloses, SendFields
  <2>8. CASE d = g
    BY <1>2, <1>3, <2>1, <2>4, <2>8 DEF SenderCloses, SendFields
  <2>9. CASE d = j
    BY <1>2, <1>3, <2>1, <2>5, <2>6, <2>9 DEF SenderCloses, SendFields
  <2> QED
    BY <2>2, <2>7, <2>8, <2>9
<1> QED
  BY <1>1, <1>4 DEF b

-----------------------------------------------------------------------------
(* Steps that no transaction moves by: retries, losses, signals, the runner. *)

kept == <<tick, truth, pending_reason, command_seq, frame, down_drop, final_reason, vehicle_seen,
          agreed, sampled, matched>>

\* The session keeps its last answer.
SameAnswer ==
    /\ Shaped(session', SessionFields)
    /\ session'.state = session.state /\ session'.held = session.held
    /\ session'.sim_seen = session.sim_seen /\ session'.newest_answered = session.newest_answered
    /\ session'.last_payload = session.last_payload /\ session'.reply = session.reply
    /\ session'.record = session.record

\* The simulator goes from a send to a wait and back, or ends with an error.
SimWaits ==
    /\ \/ spc' = spc
       \/ spc \in {"send", "wait"} /\ spc' \in {"send", "wait"}
       \/ spc # "done" /\ spc' = "done" /\ scode' # 0
    /\ spc = "done" => scode' = scode

\* What is added to the sockets is the frame, the last reply, or garbled.
SameWires ==
    /\ \A m \in BagToSet(uplink') :
           \/ m \in BagToSet(uplink)
           \/ m = frame /\ spc = "send"
           \/ Shaped(m, SampleFields) /\ ~m.sound
    /\ \A m \in BagToSet(downlink') :
           \/ m \in BagToSet(downlink)
           \/ m = session.reply
           \/ Shaped(m, ReplyFields) /\ ~m.sound

\* Such a step keeps the invariant if it keeps the books.
LEMMA Quiet ==
    ASSUME LockstepInv, UNCHANGED kept, SameAnswer, SimWaits, SameWires,
           Tallies', Counted', CountersClose', Faulted'
    PROVE  LockstepInv'
<1>1. UNCHANGED <<tick, truth, pending_reason, command_seq, frame, down_drop, final_reason,
                  vehicle_seen, agreed, sampled, matched>>
  BY DEF kept
<1>2. Newest' = Newest /\ Newest \in Int /\ Level' = Level
  BY <1>1 DEF SameAnswer, Newest, LockstepInv, Types, Level
<1>3. spc \in {"tick", "send", "wait", "done"} /\ spc' \in {"tick", "send", "wait", "done"}
  BY DEF LockstepInv, Types, SimWaits
<1>4. Types'
  BY <1>1, <1>2, <1>3 DEF LockstepInv, Types, SameAnswer
<1>5. Turns'
  BY <1>1, <1>2, <1>3 DEF LockstepInv, Turns, SameAnswer, SimWaits
<1>6. Wires'
  <2>1. \A m \in BagToSet(uplink)' :
           /\ Shaped(m, SampleFields)
           /\ m.sound => /\ m.tick \in Nat /\ m.tick <= Newest + 1
                         /\ m.tick = Newest + 1 => m = frame
                         /\ m.tick = Newest => m = session.last_payload
    <3> SUFFICES ASSUME NEW m \in BagToSet(uplink')
                 PROVE /\ Shaped(m, SampleFields)
                       /\ m.sound => /\ m.tick \in Nat /\ m.tick <= Newest + 1
                                     /\ m.tick = Newest + 1 => m = frame
                                     /\ m.tick = Newest => m = session.last_payload
      OBVIOUS
    <3>1. CASE m \in BagToSet(uplink)
      BY <3>1 DEF LockstepInv, Wires
    <3>2. CASE m = frame /\ spc = "send"
      <4>1. /\ frame # NoFrame /\ frame.tick = tick /\ Newest \in {tick - 1, tick} /\ tick \in Nat
            /\ Newest = tick => frame \in {NoFrame, session.last_payload}
            /\ Shaped(frame, SampleFields)
        BY <3>2 DEF LockstepInv, Turns, Types
      <4> QED
        BY <3>2, <4>1
    <3>3. CASE Shaped(m, SampleFields) /\ ~m.sound
      BY <3>3
    <3> QED
      BY <3>1, <3>2, <3>3 DEF SameWires
  <2>2. \A m \in BagToSet(downlink)' :
           /\ Shaped(m, ReplyFields)
           /\ m.sound => /\ m.tick \in Int /\ m.tick <= Newest
                         /\ m.tick = Newest => m = session.reply
    BY <1>2 DEF SameWires, LockstepInv, Wires, Turns
  <2> QED
    BY <1>1, <1>2, <2>1, <2>2 DEF Wires, SameAnswer
<1>7. Built'
  BY <1>1 DEF LockstepInv, Built
<1>8. Stepped'
  BY <1>1, <1>2 DEF LockstepInv, Stepped, SameAnswer
<1>9. Told'
  BY <1>1, <1>2 DEF LockstepInv, Told, SameAnswer
<1>10. Known'
  BY <1>1, <1>2, <1>3 DEF LockstepInv, Known, SameAnswer, SimWaits
<1>11. PolicySound' /\ matched'
  BY <1>1 DEF LockstepInv, PolicySound
<1>12. Looping'
  BY <1>1 DEF LockstepInv, Looping, Loop!Underway, Loop!Ended, Loop!EndsPaired
<1> QED
  BY <1>4, <1>5, <1>6, <1>7, <1>8, <1>9, <1>10, <1>11, <1>12 DEF LockstepInv

\* Without a count and without an answer the books stay as they are.
LEMMA SameBooks ==
    ASSUME LockstepInv, UNCHANGED <<simCounts, vehCounts>>,
           session'.newest_answered = session.newest_answered
    PROVE  Tallies' /\ Counted' /\ CountersClose'
  BY DEF LockstepInv, Tallies, Counted, CountersClose, Closed, RecordsClose, Newest, simCounts,
         vehCounts, SenderCloses, ReceiverCloses

\* No step takes back a stop request.
SameFaults ==
    /\ stop_requested => stop_requested'
    /\ vpc' = "exited" /\ vcode' = 0 => vpc = "exited" /\ vcode = 0

\* The sockets hold no more than before.
LEMMA WiresStay ==
    ASSUME UNCHANGED <<uplink, downlink>>
    PROVE  SameWires
  BY DEF SameWires

\* The steps that count nothing and leave the session alone.
LEMMA IdleSteps ==
    ASSUME LockstepInv, simCounts' = simCounts, vehCounts' = vehCounts, session' = session,
           kept' = kept, SimWaits, SameWires, SameFaults
    PROVE  LockstepInv'
<1>1. SameAnswer
  BY DEF SameAnswer, LockstepInv, Types
<1>2. Faulted'
  BY DEF Faulted, SameFaults, LockstepInv
<1>3. Tallies' /\ Counted' /\ CountersClose'
  BY SameBooks
<1> QED
  BY <1>1, <1>2, <1>3, Quiet

\* The parts of the state that the actions leave alone.
LEMMA Parts ==
    /\ sim' = sim => /\ kept' = kept /\ simCounts' = simCounts /\ SimWaits
    /\ simTick' = simTick /\ simSend' = simSend => kept' = kept
    /\ vehicle' = vehicle => session' = session /\ vehCounts' = vehCounts /\ vpc' = vpc /\ vcode' = vcode
    /\ net' = net => SameWires
  BY WiresStay DEF sim, simTick, simSend, simCounts, vehicle, vehCounts, net, kept, SimWaits

\* The runner, the signals and the ends of the loops.
LEMMA RunnerKeeps ==
    ASSUME LockstepInv,
           \/ Runner \/ WaitExpires \/ Signal \/ Finished \/ LoopTop \/ SimKilled \/ Timeout
           \/ RecvRefused
    PROVE  LockstepInv'
<1>1. Killed # 0 /\ spc \in {"tick", "send", "wait", "done"}
  BY DEF Killed, LockstepInv, Types
<1>2. CASE Runner
  <2>1. UNCHANGED <<sim, session, vehCounts, net>>
    BY <1>2 DEF Runner, SimEnded, VehicleEnded, StopProcess, Kill, Reconcile, vehicle, vehCounts
  <2>2. SameFaults
    BY <1>1, <1>2 DEF Runner, SimEnded, VehicleEnded, StopProcess, Kill, Reconcile, SameFaults,
                      RaiseStop, vehicle
  <2> QED
    BY <2>1, <2>2, Parts, IdleSteps
<1>3. CASE WaitExpires
  <2>1. UNCHANGED <<simTick, simSend, simCounts, vehicle, stop_requested, net>> /\ SimWaits
    BY <1>1, <1>3 DEF WaitExpires, SimWaits
  <2>2. SameFaults
    BY <2>1, Parts DEF SameFaults
  <2> QED
    BY <2>1, <2>2, Parts, IdleSteps
<1>4. CASE Signal
  <2>1. UNCHANGED <<sim, vpc, session, vcode, vehCounts, net>> /\ stop_requested'
    BY <1>4 DEF Signal, RaiseStop
  <2>2. SameFaults
    BY <2>1 DEF SameFaults
  <2> QED
    BY <2>1, <2>2, Parts, IdleSteps
<1>5. CASE Finished
  <2>1. UNCHANGED <<sim, vehicle, stop_requested, net>>
    BY <1>5 DEF Finished, vars
  <2>2. SameFaults
    BY <2>1, Parts DEF SameFaults
  <2> QED
    BY <2>1, <2>2, Parts, IdleSteps
<1>6. CASE LoopTop
  <2>1. UNCHANGED <<sim, session, vcode, vehCounts, stop_requested, net>> /\ vpc' # "exited"
    BY <1>6 DEF LoopTop
  <2>2. SameFaults
    BY <2>1 DEF SameFaults
  <2> QED
    BY <2>1, <2>2, Parts, IdleSteps
<1>7. CASE SimKilled
  <2>1. UNCHANGED <<simTick, simSend, simCounts, vehicle, stop_requested, net>> /\ SimWaits
    BY <1>1, <1>7 DEF SimKilled, SimWaits
  <2>2. SameFaults
    BY <2>1, Parts DEF SameFaults
  <2> QED
    BY <2>1, <2>2, Parts, IdleSteps
<1>8. CASE Timeout
  <2>1. UNCHANGED <<kept, simCounts, vehicle, stop_requested, net>> /\ SimWaits
    BY <1>8 DEF Timeout, SimFails, SimWaits, kept, simTick, simSend, simCounts
  <2>2. SameFaults
    BY <2>1, Parts DEF SameFaults
  <2> QED
    BY <2>1, <2>2, Parts, IdleSteps
<1>9. CASE RecvRefused
  <2>1. UNCHANGED <<kept, simCounts, vehicle, stop_requested, uplink, downlink>> /\ SimWaits
    BY <1>9 DEF RecvRefused, SimFails, SimWaits, kept, simTick, simSend, simCounts
  <2>2. SameFaults
    BY <2>1, Parts DEF SameFaults
  <2> QED
    BY <2>1, <2>2, Parts, WiresStay, IdleSteps
<1> QED
  BY <1>2, <1>3, <1>4, <1>5, <1>6, <1>7, <1>8, <1>9

\* A garbled datagram keeps its fields.
LEMMA GarbledFacts ==
    ASSUME NEW m, NEW F, "sound" \in F, Shaped(m, F)
    PROVE  Shaped(Garbled(m), F) /\ ~Garbled(m).sound
  BY DEF Shaped, Garbled

\* A datagram is lost or garbled.
LEMMA NetworkKeeps ==
    ASSUME LockstepInv, Lose \/ Corrupt
    PROVE  LockstepInv'
<1>1. UNCHANGED <<sim, vehicle, stop_requested>>
  BY DEF Lose, Corrupt
<1>2. ASSUME NEW m \in BagToSet(uplink), uplink' = Take(uplink, m), downlink' = downlink
      PROVE  SameWires
  <2>1. BagToSet(uplink') \subseteq BagToSet(uplink)
    BY <1>2, BagFacts
  <2> QED
    BY <1>2, <2>1 DEF SameWires
<1>3. ASSUME NEW m \in BagToSet(downlink), downlink' = Take(downlink, m), uplink' = uplink
      PROVE  SameWires
  <2>1. BagToSet(downlink') \subseteq BagToSet(downlink)
    BY <1>3, BagFacts
  <2> QED
    BY <1>3, <2>1 DEF SameWires
<1>4. ASSUME NEW m \in BagToSet(uplink), uplink' = Put(Take(uplink, m), Garbled(m)),
             downlink' = downlink
      PROVE  SameWires
  <2>1. Shaped(Garbled(m), SampleFields) /\ ~Garbled(m).sound
    BY GarbledFacts DEF LockstepInv, Wires, SampleFields
  <2>2. BagToSet(uplink') \subseteq BagToSet(uplink) \union {Garbled(m)}
    BY <1>4, BagFacts
  <2> QED
    BY <1>4, <2>1, <2>2 DEF SameWires
<1>5. ASSUME NEW m \in BagToSet(downlink), downlink' = Put(Take(downlink, m), Garbled(m)),
             uplink' = uplink
      PROVE  SameWires
  <2>1. Shaped(Garbled(m), ReplyFields) /\ ~Garbled(m).sound
    BY GarbledFacts DEF LockstepInv, Wires, ReplyFields
  <2>2. BagToSet(downlink') \subseteq BagToSet(downlink) \union {Garbled(m)}
    BY <1>5, BagFacts
  <2> QED
    BY <1>5, <2>1, <2>2 DEF SameWires
<1>6. SameWires
  BY <1>2, <1>3, <1>4, <1>5 DEF Lose, Corrupt
<1>7. SameFaults
  BY <1>1, Parts DEF SameFaults
<1> QED
  BY <1>1, <1>6, <1>7, Parts, IdleSteps

\* An attempt to send the sample.
LEMMA SendSampleKeeps ==
    ASSUME LockstepInv, SendSample
    PROVE  LockstepInv'
<1>1. PICK success \in BOOLEAN :
         /\ up_tx' = FinishSend(BeginSend(up_tx, attempt = 0), success, logged)
         /\ uplink' = IF success /\ vpc # "exited" THEN Put(uplink, frame) ELSE uplink
  BY DEF SendSample
<1>2. /\ spc = "send" /\ spc' = "wait" /\ down_rx' = down_rx /\ vehicle' = vehicle
      /\ stop_requested' = stop_requested /\ downlink' = downlink /\ kept' = kept
  BY DEF SendSample, simTick, kept
<1>3. session' = session /\ vehCounts' = vehCounts /\ SameFaults
  BY <1>2, Parts DEF SameFaults
<1>4. SameWires
  <2>1. BagToSet(uplink') \subseteq BagToSet(uplink) \union {frame}
    BY <1>1, BagFacts
  <2> QED
    BY <1>2, <2>1 DEF SameWires
<1>5. up_tx' \in [SendFields -> Int] /\ SenderCloses(up_tx')
  <2>1. up_tx \in [SendFields -> Int] /\ SenderCloses(up_tx) /\ (attempt = 0) \in BOOLEAN
    BY DEF LockstepInv, Tallies, CountersClose, Closed
  <2> QED
    BY <1>1, <2>1, SenderFacts
<1>6. Tallies' /\ Counted' /\ CountersClose'
  BY <1>2, <1>3, <1>5
     DEF LockstepInv, Tallies, Counted, CountersClose, Closed, RecordsClose, Newest, vehCounts,
         SenderCloses, ReceiverCloses
<1>7. SameAnswer /\ SimWaits /\ Faulted'
  BY <1>2, <1>3 DEF SameAnswer, SimWaits, Faulted, SameFaults, LockstepInv, Types
<1> QED
  BY <1>2, <1>4, <1>6, <1>7, Quiet

\* A datagram that is not this tick's reply.
LEMMA RecvOtherKeeps ==
    ASSUME LockstepInv, NEW m \in BagToSet(downlink), RecvOther(m)
    PROVE  LockstepInv'
<1> DEFINE bad == {"received_raw", "malformed"}
           drop == {"received_raw", "received", "test_discarded", "rejected_received"}
           dup == {"received_raw", "received", "discarded_duplicate"}
           old == {"received_raw", "received", "rejected_received", "discarded_old"}
<1>1. PICK S : down_rx' = Up(down_rx, S) /\ (S = bad \/ S = drop \/ S = dup \/ S = old)
  <2>1. CASE down_rx' = Up(down_rx, bad)
    BY <2>1
  <2>2. CASE down_rx' = Up(down_rx, drop)
    BY <2>2
  <2>3. CASE down_rx' = Up(down_rx, {"received_raw", "received"} \union
                            IF m = last_reply THEN {"discarded_duplicate"}
                            ELSE {"rejected_received", "discarded_old"})
    <3>1. /\ {"received_raw", "received"} \union {"discarded_duplicate"} = dup
          /\ {"received_raw", "received"} \union {"rejected_received", "discarded_old"} = old
      OBVIOUS
    <3> QED
      BY <2>3, <3>1
  <2> QED
    BY <2>1, <2>2, <2>3 DEF RecvOther
<1>2. /\ downlink' = Take(downlink, m) /\ spc' = spc /\ scode' = scode /\ up_tx' = up_tx
      /\ vehicle' = vehicle /\ stop_requested' = stop_requested /\ uplink' = uplink /\ kept' = kept
  BY DEF RecvOther, simTick, simSend, kept
<1>3. session' = session /\ vehCounts' = vehCounts /\ SameFaults
  BY <1>2, Parts DEF SameFaults
<1>4. SameWires
  <2>1. BagToSet(downlink') \subseteq BagToSet(downlink)
    BY <1>2, BagFacts
  <2> QED
    BY <1>2, <2>1 DEF SameWires
<1>5. down_rx \in [DownRxFields -> Int]
  BY DEF LockstepInv, Tallies
<1>6. /\ down_rx' \in [DownRxFields -> Int]
      /\ \A k \in DownRxFields : down_rx'[k] = IF k \in S THEN down_rx[k] + 1 ELSE down_rx[k]
  BY <1>1, <1>5, TallyFacts
<1>7. /\ ReceiverCloses(down_rx, down_rx.modeled_command_loss + down_rx.forwarded_to_delay)
      /\ down_rx.rejected_received = down_rx.test_discarded + down_rx.discarded_old
  BY DEF LockstepInv, CountersClose, Closed, Counted
<1>8. /\ ReceiverCloses(down_rx', down_rx'.modeled_command_loss + down_rx'.forwarded_to_delay)
      /\ down_rx'.rejected_received = down_rx'.test_discarded + down_rx'.discarded_old
  <2>1. CASE S = bad
    BY <1>5, <1>6, <1>7, <2>1 DEF ReceiverCloses, DownRxFields
  <2>2. CASE S = drop
    BY <1>5, <1>6, <1>7, <2>2 DEF ReceiverCloses, DownRxFields
  <2>3. CASE S = dup
    <3>1. /\ down_rx'.received_raw = down_rx.received_raw + 1 /\ down_rx'.received = down_rx.received + 1
          /\ down_rx'.discarded_duplicate = down_rx.discarded_duplicate + 1
      BY <1>6, <2>3 DEF DownRxFields
    <3>2. /\ \A k \in DownRxFields \ dup : down_rx'[k] = down_rx[k]
          /\ \A k \in DownRxFields : down_rx[k] \in Int
      BY <1>5, <1>6, <2>3
    <3> QED
      BY <1>7, <3>1, <3>2 DEF ReceiverCloses, DownRxFields
  <2>4. CASE S = old
    BY <1>5, <1>6, <1>7, <2>4 DEF ReceiverCloses, DownRxFields
  <2> QED
    BY <1>1, <2>1, <2>2, <2>3, <2>4
<1>9. Tallies' /\ Counted' /\ CountersClose'
  BY <1>2, <1>3, <1>6, <1>8
     DEF LockstepInv, Tallies, Counted, CountersClose, Closed, RecordsClose, Newest, vehCounts,
         SenderCloses, ReceiverCloses
<1>10. SameAnswer /\ SimWaits /\ Faulted'
  BY <1>2, <1>3 DEF SameAnswer, SimWaits, Faulted, SameFaults, LockstepInv, Types
<1> QED
  BY <1>2, <1>4, <1>9, <1>10, Quiet

\* The reply goes out, and with a new one the record into the ring.
LEMMA SendReplyKeeps ==
    ASSUME LockstepInv, SendReply
    PROVE  LockstepInv'
<1> DEFINE F == SendFields \union {"original_tx_fail"}
           original == vpc = "reply"
<1>1. PICK success \in BOOLEAN, pushed \in BOOLEAN :
         LET sent == FinishSend(BeginSend(down_tx, original), success, session.reply_transmitted)
         IN  /\ down_tx' = IF original /\ ~success THEN Up(sent, {"original_tx_fail"}) ELSE sent
             /\ session' = [session EXCEPT !.reply_transmitted = @ \/ success]
             /\ downlink' = IF success /\ spc # "done" THEN Put(downlink, session.reply) ELSE downlink
             /\ events' = IF ~original THEN events
                          ELSE Down(Up(events, {"record_attempts",
                                                IF pushed THEN "records_pushed" ELSE "ring_drops"}),
                                    {"record_pending"})
  BY DEF SendReply
<1>2. sim' = sim /\ vcode' = vcode /\ up_rx' = up_rx /\ stop_requested' = stop_requested
      /\ uplink' = uplink /\ vpc' # "exited"
  BY DEF SendReply
<1>3. kept' = kept /\ simCounts' = simCounts /\ SimWaits
  BY <1>2, Parts
<1>4. SameAnswer /\ session'.fault = session.fault
  BY <1>1 DEF SameAnswer, LockstepInv, Types, Shaped, SessionFields
<1>5. Faulted'
  BY <1>2, <1>4 DEF Faulted, LockstepInv
<1>6. SameWires
  <2>1. BagToSet(downlink') \subseteq BagToSet(downlink) \union {session.reply}
    BY <1>1, BagFacts
  <2> QED
    BY <1>2, <2>1 DEF SameWires
<1>7. down_tx' \in [F -> Int] /\ SenderCloses(down_tx')
  <2> DEFINE sent == FinishSend(BeginSend(down_tx, original), success, session.reply_transmitted)
  <2>1. down_tx \in [F -> Int] /\ SenderCloses(down_tx) /\ original \in BOOLEAN
    BY DEF LockstepInv, Tallies, CountersClose, Closed
  <2>2. sent \in [F -> Int] /\ SenderCloses(sent)
    BY <2>1, SenderFacts
  <2> HIDE DEF sent
  <2>3. /\ Up(sent, {"original_tx_fail"}) \in [F -> Int]
        /\ \A k \in SendFields : Up(sent, {"original_tx_fail"})[k] = sent[k]
    BY <2>2, TallyFacts DEF SendFields
  <2>4. SenderCloses(Up(sent, {"original_tx_fail"}))
    BY <2>2, <2>3 DEF SenderCloses, SendFields
  <2>5. down_tx' = IF original /\ ~success THEN Up(sent, {"original_tx_fail"}) ELSE sent
    BY <1>1 DEF sent
  <2> QED
    BY <2>2, <2>3, <2>4, <2>5
<1>8. /\ events' \in [EventFields -> Int] /\ events'.pid_calls = events.pid_calls
      /\ events'.episode_transitions = events.episode_transitions
      /\ events'.episode_transitions = events'.record_attempts + events'.record_pending
      /\ events'.record_attempts = events'.records_pushed + events'.ring_drops
  <2> DEFINE what == IF pushed THEN "records_pushed" ELSE "ring_drops"
             u == Up(events, {"record_attempts", what})
             d == Down(u, {"record_pending"})
  <2>1. /\ events \in [EventFields -> Int]
        /\ events.episode_transitions = events.record_attempts + events.record_pending
        /\ events.record_attempts = events.records_pushed + events.ring_drops
    BY DEF LockstepInv, Tallies, CountersClose, RecordsClose
  <2>2. events' = IF ~original THEN events ELSE d
    BY <1>1
  <2>3. what \in {"records_pushed", "ring_drops"}
    OBVIOUS
  <2> HIDE DEF what
  <2>4. /\ u \in [EventFields -> Int]
        /\ \A k \in EventFields : u[k] = IF k \in {"record_attempts", what} THEN events[k] + 1 ELSE events[k]
    BY <2>1, TallyFacts
  <2> HIDE DEF u
  <2>5. /\ d \in [EventFields -> Int]
        /\ \A k \in EventFields : d[k] = IF k \in {"record_pending"} THEN u[k] - 1 ELSE u[k]
    BY <2>4, TallyFacts
  <2> HIDE DEF d
  <2>6. CASE ~original
    BY <2>1, <2>2, <2>6
  <2>7. CASE original /\ what = "records_pushed"
    BY <2>1, <2>2, <2>4, <2>5, <2>7 DEF EventFields
  <2>8. CASE original /\ what = "ring_drops"
    BY <2>1, <2>2, <2>4, <2>5, <2>8 DEF EventFields
  <2> QED
    BY <2>3, <2>6, <2>7, <2>8
<1>9. Tallies' /\ Counted' /\ CountersClose'
  BY <1>2, <1>3, <1>4, <1>7, <1>8
     DEF LockstepInv, Tallies, Counted, CountersClose, Closed, RecordsClose, Newest, simCounts,
         SenderCloses, ReceiverCloses, SameAnswer
<1> QED
  BY <1>3, <1>4, <1>5, <1>6, <1>9, Quiet

\* Session::stop keeps the answer; an earlier fault stands.
LEMMA StoppedFacts ==
    ASSUME LockstepInv, NEW why, session' = Stopped(why)
    PROVE  /\ SameAnswer
           /\ session'.fault = session.fault \/ session'.fault.reason = why
<1> DEFINE at == IF session.newest_answered = NoTick THEN 0 ELSE session.newest_answered
           end == [reason |-> why, tick |-> at]
<1>1. session' = session \/ session' = [session EXCEPT !.fault = end]
  BY DEF Stopped
<1>2. end.reason = why /\ Shaped(session, SessionFields)
  BY DEF LockstepInv, Types
<1> HIDE DEF end
<1> QED
  BY <1>1, <1>2 DEF SameAnswer, Shaped, SessionFields

\* recvmsg fails, and the vehicle's end.
LEMMA VehicleEndKeeps ==
    ASSUME LockstepInv, ReceiveFails \/ Exit
    PROVE  LockstepInv'
<1>1. sim' = sim /\ vehCounts' = vehCounts /\ stop_requested' = stop_requested
      /\ uplink' = uplink /\ downlink' = downlink
  BY DEF ReceiveFails, Exit, net
<1>2. kept' = kept /\ simCounts' = simCounts /\ SimWaits /\ SameWires
  BY <1>1, Parts, WiresStay
<1>3. CASE ReceiveFails
  <2> DEFINE why == IF stop_requested THEN "SIGNAL" ELSE "PEER_LOST"
  <2>1. session' = Stopped(why) /\ vpc' = "after"
    BY <1>3 DEF ReceiveFails
  <2>2. SameAnswer /\ (session'.fault = session.fault \/ session'.fault.reason = why)
    BY <2>1, StoppedFacts
  <2>3. Faulted'
    BY <1>1, <2>1, <2>2 DEF Faulted, LockstepInv
  <2>4. Tallies' /\ Counted' /\ CountersClose'
    BY <1>1, <1>2, <2>2, SameBooks DEF SameAnswer
  <2> QED
    BY <1>2, <2>2, <2>3, <2>4, Quiet
<1>4. CASE Exit
  <2>1. /\ session' = IF stop_requested THEN Stopped("SIGNAL")
                      ELSE IF ~rt_ok THEN Stopped("INTERNAL") ELSE session
        /\ vcode' = ExitCode(session', FALSE) \/ vcode' = ExitCode(session', TRUE)
    BY <1>4 DEF Exit
  <2>2. /\ SameAnswer
        /\ \/ session'.fault = session.fault
           \/ session'.fault.reason = "SIGNAL" /\ stop_requested
           \/ session'.fault.reason = "INTERNAL"
    <3>1. CASE session' = session
      BY <3>1 DEF SameAnswer, LockstepInv, Types
    <3>2. CASE session' = Stopped("SIGNAL") /\ stop_requested
      BY <3>2, StoppedFacts
    <3>3. CASE session' = Stopped("INTERNAL")
      BY <3>3, StoppedFacts
    <3> QED
      BY <2>1, <3>1, <3>2, <3>3
  <2>3. vcode' = 0 => ~stop_requested /\ Reason(session') \notin {"PEER_LOST", "INTERNAL", "NONE"}
    BY <2>1 DEF ExitCode
  <2>4. Faulted'
    BY <1>1, <2>2, <2>3 DEF Faulted, LockstepInv, Reason
  <2>5. Tallies' /\ Counted' /\ CountersClose'
    BY <1>1, <1>2, <2>2, SameBooks DEF SameAnswer
  <2> QED
    BY <1>2, <2>2, <2>4, <2>5, Quiet
<1> QED
  BY <1>3, <1>4

\* What the vehicle makes of a datagram that is under way: none is a conflict or
\* skips a tick, and a new one is the frame.
LEMMA DispositionFacts ==
    ASSUME LockstepInv, NEW m \in BagToSet(uplink)
    PROVE  /\ Disposition(m) \in {"malformed", "cached", "old", "new"}
           /\ Disposition(m) = "new" =>
                /\ m = frame /\ frame # NoFrame /\ m.tick = Newest + 1 /\ m.tick = tick
                /\ m.tick = up_rx.logical_received
<1>1. /\ m.sound => /\ m.tick \in Nat /\ m.tick <= Newest + 1
                    /\ m.tick = Newest + 1 => m = frame
                    /\ m.tick = Newest => m = session.last_payload
      /\ Newest \in Int /\ Newest \in {tick - 1, tick} /\ tick \in Nat
      /\ frame # NoFrame => frame.tick = tick
      /\ up_rx.logical_received = Newest + 1
  BY DEF LockstepInv, Wires, Turns, Types, Counted
<1>2. NoFrame.tick = NoTick /\ NoTick = -1
  BY DEF NoFrame, Sample, NoTick
<1>3. Disposition(m) = IF ~m.sound THEN "malformed"
        ELSE IF Newest # NoTick /\ m.tick = Newest
             THEN IF m = session.last_payload THEN "cached" ELSE "conflict"
        ELSE IF Newest # NoTick /\ m.tick < Newest THEN "old"
        ELSE IF (Newest = NoTick /\ m.tick # 0) \/ (Newest # NoTick /\ m.tick # Newest + 1)
             THEN "skipped"
        ELSE "new"
  BY DEF Disposition, Newest
<1> QED
  BY <1>1, <1>2, <1>3

\* The counts of a receipt keep the receiver's identities.
LEMMA ReceiptFacts ==
    ASSUME LockstepInv, NEW m \in BagToSet(uplink), up_rx' = Up(up_rx, Receipt(m))
    PROVE  /\ up_rx' \in [UpRxFields -> Int]
           /\ ReceiverCloses(up_rx', up_rx'.admitted + up_rx'.sample_invalid + up_rx'.sample_nonfinite)
           /\ up_rx'.skipped_tick = 0 /\ up_rx'.discarded_tick_conflict = 0
           /\ up_rx'.logical_received =
                IF Disposition(m) = "new" THEN up_rx.logical_received + 1 ELSE up_rx.logical_received
           /\ up_rx'.admitted >= up_rx.admitted
           /\ Disposition(m) = "new" /\ Usable(m) => up_rx'.admitted = up_rx.admitted + 1
<1> DEFINE S == Receipt(m)
           d == Disposition(m)
           use == IF Usable(m) THEN "admitted" ELSE IF m.valid THEN "sample_nonfinite" ELSE "sample_invalid"
<1>1. d \in {"malformed", "cached", "old", "new"}
  BY DispositionFacts
<1>2. S = CASE d = "malformed" -> {"received_raw", "malformed"}
            [] d = "cached" -> {"received_raw", "received", "discarded_duplicate"}
            [] d = "conflict" ->
                 {"received_raw", "received", "rejected_received", "discarded_tick_conflict"}
            [] d = "old" -> {"received_raw", "received", "rejected_received", "discarded_old"}
            [] d = "skipped" -> {"received_raw", "received", "rejected_received", "skipped_tick"}
            [] d = "new" -> {"received_raw", "received", "logical_received", use}
  BY DEF Receipt
<1>3. use \in {"admitted", "sample_nonfinite", "sample_invalid"} /\ (Usable(m) => use = "admitted")
  OBVIOUS
<1> HIDE DEF S, d, use
<1>4. /\ up_rx \in [UpRxFields -> Int] /\ up_rx.skipped_tick = 0 /\ up_rx.discarded_tick_conflict = 0
      /\ ReceiverCloses(up_rx, up_rx.admitted + up_rx.sample_invalid + up_rx.sample_nonfinite)
  BY DEF LockstepInv, Tallies, Counted, CountersClose, Closed
<1>5. /\ up_rx' \in [UpRxFields -> Int]
      /\ \A k \in UpRxFields : up_rx'[k] = IF k \in S THEN up_rx[k] + 1 ELSE up_rx[k]
  BY <1>4, TallyFacts DEF S
<1>6. CASE d = "malformed"
  BY <1>2, <1>4, <1>5, <1>6 DEF UpRxFields, ReceiverCloses, d
<1>7. CASE d = "cached"
  BY <1>2, <1>4, <1>5, <1>7 DEF UpRxFields, ReceiverCloses, d
<1>8. CASE d = "old"
  BY <1>2, <1>4, <1>5, <1>8 DEF UpRxFields, ReceiverCloses, d
<1>9. CASE d = "new"
  BY <1>2, <1>3, <1>4, <1>5, <1>9 DEF UpRxFields, ReceiverCloses, d
<1> QED
  BY <1>1, <1>6, <1>7, <1>8, <1>9

\* A sample that starts no cycle.
LEMMA ReceiveOtherKeeps ==
    ASSUME LockstepInv, NEW m \in BagToSet(uplink), Receive(m), Disposition(m) # "new"
    PROVE  LockstepInv'
<1>1. /\ ReceiveOther(m) /\ uplink' = Take(uplink, m) /\ up_rx' = Up(up_rx, Receipt(m))
      /\ sim' = sim /\ vcode' = vcode /\ stop_requested' = stop_requested /\ downlink' = downlink
  BY DEF Receive, ReceiveNew
<1>2. /\ session' = [session EXCEPT !.integrity = TRUE] \/ session' = session
      /\ vpc' # "exited" /\ events' = events /\ down_tx' = down_tx
  BY <1>1, DispositionFacts DEF ReceiveOther
<1>3. SameAnswer /\ session'.fault = session.fault
  BY <1>2 DEF SameAnswer, LockstepInv, Types, Shaped, SessionFields
<1>4. kept' = kept /\ simCounts' = simCounts /\ SimWaits
  BY <1>1, Parts
<1>5. SameWires
  <2>1. BagToSet(uplink') \subseteq BagToSet(uplink)
    BY <1>1, BagFacts
  <2> QED
    BY <1>1, <2>1 DEF SameWires
<1>6. Faulted'
  BY <1>1, <1>2, <1>3 DEF Faulted, LockstepInv
<1>7. Tallies' /\ Counted' /\ CountersClose'
  <2>1. /\ up_rx' \in [UpRxFields -> Int]
        /\ ReceiverCloses(up_rx', up_rx'.admitted + up_rx'.sample_invalid + up_rx'.sample_nonfinite)
        /\ up_rx'.skipped_tick = 0 /\ up_rx'.discarded_tick_conflict = 0
        /\ up_rx'.logical_received = up_rx.logical_received /\ up_rx'.admitted >= up_rx.admitted
    BY <1>1, ReceiptFacts
  <2>2. events \in [EventFields -> Int] /\ up_rx \in [UpRxFields -> Int]
    BY DEF LockstepInv, Tallies
  <2>3. events.pid_calls \in Int /\ up_rx.admitted \in Int /\ up_rx'.admitted \in Int
    BY <2>1, <2>2 DEF EventFields, UpRxFields
  <2> QED
    BY <1>2, <1>3, <1>4, <2>1, <2>3
       DEF LockstepInv, Tallies, Counted, CountersClose, Closed, RecordsClose, Newest, simCounts,
           SenderCloses, ReceiverCloses, SameAnswer
<1> QED
  BY <1>3, <1>4, <1>5, <1>6, <1>7, Quiet

-----------------------------------------------------------------------------
(* The steps of a transaction: the sample, its answer, the reply accepted. *)

\* Sequence numbers count up and down around the modulus.
LEMMA SeqFacts ==
    ASSUME NEW c \in 0 .. SeqMod - 1
    PROVE  /\ (c + 1) % SeqMod \in 0 .. SeqMod - 1 /\ (((c + 1) % SeqMod) - 1) % SeqMod = c
           /\ (c - 1) % SeqMod \in 0 .. SeqMod - 1 /\ (((c - 1) % SeqMod) + 1) % SeqMod = c
<1>1. SeqMod \in Nat /\ SeqMod > 1 /\ c \in Int
  BY EpisodeAssumption
<1>2. (c + 1) % SeqMod = IF c = SeqMod - 1 THEN 0 ELSE c + 1
  BY <1>1
<1>3. (c - 1) % SeqMod = IF c = 0 THEN SeqMod - 1 ELSE c - 1
  BY <1>1
<1>4. (-1) % SeqMod = SeqMod - 1 /\ SeqMod % SeqMod = 0 /\ c % SeqMod = c
  BY <1>1
<1> QED
  BY <1>1, <1>2, <1>3, <1>4

\* The absent sample.
LEMMA NoFrameFacts ==
    /\ Shaped(NoFrame, SampleFields) /\ NoFrame.tick = -1 /\ NoFrame.opcode = "NONE"
    /\ NoTick = -1
  BY DEF NoFrame, NoTick, Sample, Shaped, SampleFields

\* A new sample is made of the present tick.
LEMMA BuildSampleKeeps ==
    ASSUME LockstepInv, NEW up_drop \in Reference!Draws, NEW drop_reply \in Reference!Draws,
           NEW opcode \in Requests \union {"NONE"}, BuildSample(up_drop, drop_reply, opcode)
    PROVE  LockstepInv'
<1> DEFINE valid == ~up_drop
           seq == IF opcode = "NONE" THEN command_seq ELSE (command_seq + 1) % SeqMod
           class == IF up_drop THEN "none" ELSE truth
           number == IF opcode = "NONE" THEN 0 ELSE seq
           why == Reference!Flagged(tick, pending_reason)
<1>1. /\ spc = "tick" /\ command_seq' = seq /\ down_drop' = drop_reply /\ spc' = "send"
      /\ frame' = Sample(tick, valid, class, opcode, number, why)
      /\ up_tx' = Generate(up_tx)
  BY DEF BuildSample, Reference!Flagged, NoReason
<1>2. UNCHANGED <<tick, truth, pending_reason, final_reason, vehicle_seen, agreed, sampled,
                  matched, session, vpc, vcode, down_rx, up_rx, down_tx, events,
                  stop_requested, uplink, downlink>>
  BY DEF BuildSample, simTick, vehicle, vehCounts, net
<1>3. /\ Shaped(frame', SampleFields) /\ frame'.tick = tick /\ frame'.valid = valid
      /\ frame'.class = class /\ frame'.opcode = opcode /\ frame'.cmd_seq = number
      /\ frame'.sim_reason = why /\ frame'.sound
  <2>1. frame' = Sample(tick, valid, class, opcode, number, why)
    BY <1>1
  <2> HIDE DEF valid, class, number, why
  <2> QED
    BY <2>1 DEF Sample, Shaped, SampleFields
<1>4. /\ command_seq \in 0 .. SeqMod - 1 /\ tick \in Nat /\ Newest \in Int
      /\ Newest = tick - 1 /\ frame = NoFrame
  BY <1>1 DEF LockstepInv, Types, Turns
<1>5. command_seq' \in 0 .. SeqMod - 1
  BY <1>1, <1>4, SeqFacts
<1>6. frame' # NoFrame /\ Newest' = Newest /\ Level /\ Level'
  BY <1>2, <1>3, <1>4, NoFrameFacts DEF Newest, Level
<1> HIDE DEF seq, valid, class, number, why
<1>7. Types'
  BY <1>1, <1>2, <1>3, <1>4, <1>5, <1>6 DEF LockstepInv, Types
<1>8. Turns'
  BY <1>1, <1>2, <1>3, <1>4, <1>6 DEF LockstepInv, Turns
<1>9. Wires'
  <2>1. \A m \in BagToSet(uplink) : m.sound => m.tick # Newest + 1
    BY <1>4, NoFrameFacts DEF LockstepInv, Wires
  <2> QED
    BY <1>2, <1>6, <2>1 DEF LockstepInv, Wires
<1>10. Tallies' /\ Counted' /\ CountersClose'
  <2>1. up_tx' \in [SendFields -> Int] /\ SenderCloses(up_tx')
    <3>1. up_tx \in [SendFields -> Int] /\ SenderCloses(up_tx) /\ TRUE \in BOOLEAN
      BY DEF LockstepInv, Tallies, CountersClose, Closed
    <3> QED
      BY <1>1, <3>1, SenderFacts
  <2> QED
    BY <1>2, <1>6, <2>1
       DEF LockstepInv, Tallies, Counted, CountersClose, Closed, RecordsClose, SenderCloses,
           ReceiverCloses
<1>11. Built'
  <2>1. frame'.valid \in BOOLEAN /\ (~frame'.valid) \in Reference!Draws
    BY <1>3, LockstepAssumption DEF Reference!Draws, valid
  <2>2. frame'.class = IF frame'.valid THEN truth ELSE "none"
    BY <1>3 DEF class, valid
  <2>3. frame'.cmd_seq = IF frame'.opcode = "NONE" THEN 0 ELSE command_seq'
    BY <1>1, <1>3 DEF number
  <2>4. frame'.sim_reason = Reference!Flagged(tick, pending_reason)
    BY <1>3 DEF why
  <2> QED
    BY <1>2, <1>3, <2>1, <2>2, <2>3, <2>4 DEF Built, Reference!Draws, Reference!Flagged
<1>12. Stepped'
  BY <1>2, <1>6 DEF LockstepInv, Stepped
<1>13. Told'
  BY <1>2, <1>6 DEF LockstepInv, Told
<1>14. Known'
  BY <1>1, <1>2, <1>6 DEF LockstepInv, Known
<1>15. PolicySound' /\ matched' /\ Faulted'
  BY <1>2 DEF LockstepInv, PolicySound, Faulted
<1>16. Looping'
  BY <1>2 DEF LockstepInv, Looping, Loop!Underway, Loop!Ended, Loop!EndsPaired
<1> QED
  BY <1>7, <1>8, <1>9, <1>10, <1>11, <1>12, <1>13, <1>14, <1>15, <1>16 DEF LockstepInv

\* The session after an answer.
LEMMA AnsweredFacts ==
    ASSUME Shaped(session, SessionFields), NEW m, NEW in, NEW result,
           up_rx.logical_received = m.tick
    PROVE  LET s == Answered(m, in, result)
           IN  /\ Shaped(s, SessionFields) /\ s.state = result.state /\ s.held = in.held
               /\ s.sim_seen = IF m.sim_reason # NoReason THEN m.sim_reason ELSE session.sim_seen
               /\ s.newest_answered = m.tick /\ s.last_payload = m /\ s.fault = session.fault
               /\ Shaped(s.reply, ReplyFields) /\ s.reply.tick = m.tick /\ s.reply.veh_tick = m.tick
               /\ s.reply.delta = result.delta /\ s.reply.mode = result.state.mode
               /\ s.reply.reason = result.state.terminal.reason /\ s.reply.sound
               /\ s.reply.staleness = in.staleness
               /\ s.record.tick = m.tick /\ s.record.sensor_tick = in.held.tick
               /\ s.record.fresh = in.fresh /\ s.record.cmd = s.reply.delta
               /\ s.record.state = s.reply.mode /\ s.record.reason = s.reply.reason
               /\ s.record.ack = s.reply.ack /\ s.record.staleness = s.reply.staleness
<1> DEFINE ack == project_ack(result.acks)
           reply == Reply(m.tick, up_rx.logical_received, result.delta, result.state.mode,
                          result.state.terminal.reason, ack, in.staleness)
           record == Record(m.tick, in.held, in.fresh, reply)
           seen == IF m.sim_reason # NoReason THEN m.sim_reason ELSE session.sim_seen
           s == Answered(m, in, result)
           base == [session EXCEPT !.state = result.state, !.held = in.held, !.sim_seen = seen,
                       !.newest_answered = m.tick, !.last_payload = m, !.reply = reply,
                       !.record = record, !.reply_transmitted = FALSE]
<1> HIDE DEF ack
<1>1. /\ Shaped(reply, ReplyFields) /\ reply.tick = m.tick /\ reply.veh_tick = m.tick
      /\ reply.delta = result.delta /\ reply.mode = result.state.mode
      /\ reply.reason = result.state.terminal.reason /\ reply.sound
      /\ reply.staleness = in.staleness
  BY DEF Reply, Shaped, ReplyFields
<1>2. s = base
  BY Zenon DEF Answered, ack
<1> HIDE DEF reply, s
<1>3. /\ record.tick = m.tick /\ record.sensor_tick = in.held.tick
      /\ record.fresh = in.fresh /\ record.cmd = reply.delta
      /\ record.state = reply.mode /\ record.reason = reply.reason
      /\ record.ack = reply.ack /\ record.staleness = reply.staleness
  BY DEF Record
<1> HIDE DEF record, seen
<1>4. /\ Shaped(s, SessionFields) /\ s.state = result.state /\ s.held = in.held
      /\ s.sim_seen = seen /\ s.newest_answered = m.tick /\ s.last_payload = m
      /\ s.fault = session.fault /\ s.reply = reply /\ s.record = record
  BY <1>2 DEF Shaped, SessionFields
<1> QED
  BY <1>1, <1>3, <1>4 DEF s, seen

\* A sample that starts a cycle is the frame, and the answer is what the policy
\* makes of it.
LEMMA ReceiveNewFacts ==
    ASSUME LockstepInv, NEW m \in BagToSet(uplink), Receive(m), Disposition(m) = "new"
    PROVE  /\ m = frame /\ frame # NoFrame /\ tick \in Nat /\ m.tick = tick /\ Newest = tick - 1
           /\ session' = Answered(frame, Intake(frame, sampled), step(agreed, Intake(frame, sampled)))
           /\ events' = Up(events, {"episode_transitions", "record_pending"} \union
                           IF /\ Intake(frame, sampled).fresh
                              /\ step(agreed, Intake(frame, sampled)).state.mode = "FLYING"
                           THEN {"pid_calls"} ELSE {})
<1>1. /\ m = frame /\ frame # NoFrame /\ m.tick = Newest + 1 /\ m.tick = tick
      /\ m.tick = up_rx.logical_received
  BY DispositionFacts
<1>2. tick \in Nat /\ Newest \in Int /\ Newest = tick - 1
  BY <1>1 DEF LockstepInv, Types
<1>3. session.state = agreed /\ session.held = sampled
  BY <1>2 DEF LockstepInv, Stepped, Level
<1>4. CycleInput(m) = Intake(frame, sampled)
  BY Zenon, <1>1, <1>3 DEF CycleInput, Intake
<1>5. ReceiveNew(m)
  BY DEF Receive, ReceiveOther
<1>6. /\ session' = Answered(m, CycleInput(m), step(session.state, CycleInput(m)))
      /\ events' = Up(events, {"episode_transitions", "record_pending"} \union
                      IF CycleInput(m).fresh /\ step(session.state, CycleInput(m)).state.mode = "FLYING"
                      THEN {"pid_calls"} ELSE {})
  BY <1>5 DEF ReceiveNew
<1> QED
  BY <1>1, <1>2, <1>3, <1>4, <1>6

\* The answer's counts.
LEMMA AnswerCounts ==
    ASSUME LockstepInv, NEW m \in BagToSet(uplink), Receive(m), Disposition(m) = "new",
           session'.newest_answered = tick
    PROVE  Tallies' /\ Counted' /\ CountersClose'
<1> DEFINE in == Intake(frame, sampled)
           flies == in.fresh /\ step(agreed, in).state.mode = "FLYING"
           S == {"episode_transitions", "record_pending"} \union IF flies THEN {"pid_calls"} ELSE {}
           F == SendFields \union {"original_tx_fail"}
<1>1. /\ m = frame /\ tick \in Nat /\ Newest = tick - 1 /\ events' = Up(events, S)
  BY ReceiveNewFacts
<1>2. flies => Usable(m)
  BY <1>1 DEF Intake
<1>3. S = IF flies THEN {"episode_transitions", "record_pending", "pid_calls"}
          ELSE {"episode_transitions", "record_pending"}
  OBVIOUS
<1> HIDE DEF in, flies, S
<1>4. /\ up_rx' = Up(up_rx, Receipt(m)) /\ down_tx' = Generate(down_tx)
      /\ up_tx' = up_tx /\ down_rx' = down_rx
  BY DEF Receive, ReceiveNew, ReceiveOther, sim, simCounts
<1>5. /\ up_rx' \in [UpRxFields -> Int]
      /\ ReceiverCloses(up_rx', up_rx'.admitted + up_rx'.sample_invalid + up_rx'.sample_nonfinite)
      /\ up_rx'.skipped_tick = 0 /\ up_rx'.discarded_tick_conflict = 0
      /\ up_rx'.logical_received = up_rx.logical_received + 1
      /\ up_rx'.admitted >= up_rx.admitted
      /\ Usable(m) => up_rx'.admitted = up_rx.admitted + 1
  BY <1>4, ReceiptFacts
<1>6. down_tx' \in [F -> Int] /\ SenderCloses(down_tx')
  <2>1. down_tx \in [F -> Int] /\ SenderCloses(down_tx) /\ TRUE \in BOOLEAN /\ SendFields \subseteq F
    BY DEF LockstepInv, Tallies, CountersClose, Closed
  <2> HIDE DEF F
  <2> QED
    BY <1>4, <2>1, SenderFacts
<1>7. /\ events \in [EventFields -> Int] /\ up_rx \in [UpRxFields -> Int]
      /\ events.episode_transitions = events.record_attempts + events.record_pending
      /\ events.record_attempts = events.records_pushed + events.ring_drops
      /\ events.pid_calls <= up_rx.admitted /\ events.episode_transitions = tick
      /\ up_rx.logical_received = tick
  BY <1>1 DEF LockstepInv, Tallies, CountersClose, RecordsClose, Counted
<1>8. /\ events' \in [EventFields -> Int]
      /\ \A k \in EventFields : events'[k] = IF k \in S THEN events[k] + 1 ELSE events[k]
  BY <1>1, <1>7, TallyFacts
<1>9. up_rx.admitted \in Int /\ up_rx'.admitted \in Int
  BY <1>5, <1>7 DEF UpRxFields
<1>10. /\ events'.episode_transitions = tick + 1
       /\ events'.episode_transitions = events'.record_attempts + events'.record_pending
       /\ events'.record_attempts = events'.records_pushed + events'.ring_drops
       /\ events'.pid_calls <= up_rx'.admitted
  <2>1. CASE flies
    BY <1>2, <1>3, <1>5, <1>7, <1>8, <1>9, <2>1 DEF EventFields
  <2>2. CASE ~flies
    BY <1>3, <1>5, <1>7, <1>8, <1>9, <2>2 DEF EventFields
  <2> QED
    BY <2>1, <2>2
<1>11. Tallies'
  BY <1>4, <1>5, <1>6, <1>8 DEF LockstepInv, Tallies
<1>12. Counted'
  BY <1>4, <1>5, <1>7, <1>10 DEF LockstepInv, Counted, Newest
<1>13. CountersClose'
  <2>1. SenderCloses(up_tx') /\ ReceiverCloses(down_rx', down_rx'.modeled_command_loss + down_rx'.forwarded_to_delay)
    BY <1>4 DEF LockstepInv, CountersClose, Closed
  <2>2. RecordsClose'
    BY <1>10 DEF RecordsClose
  <2>3. Closed'
    BY <1>5, <1>6, <2>1 DEF Closed, SenderCloses, ReceiverCloses
  <2> QED
    BY <2>2, <2>3 DEF CountersClose
<1> QED
  BY <1>11, <1>12, <1>13

\* The vehicle answers the frame.
LEMMA ReceiveNewKeeps ==
    ASSUME LockstepInv, NEW m \in BagToSet(uplink), Receive(m), Disposition(m) = "new"
    PROVE  LockstepInv'
<1> DEFINE in == Intake(frame, sampled)
           result == step(agreed, in)
<1>1. /\ m = frame /\ frame # NoFrame /\ tick \in Nat /\ frame.tick = tick /\ Newest = tick - 1
      /\ session' = Answered(frame, in, result)
  BY ReceiveNewFacts
<1>2. /\ in.held = IF Usable(frame) THEN [tick |-> frame.tick, class |-> frame.class] ELSE sampled
      /\ in.fresh = Usable(frame)
      /\ in.staleness = IF in.held = NoHeld THEN frame.tick + 1 ELSE frame.tick - in.held.tick
  BY DEF Intake
<1>3. /\ in = Intake(frame, sampled) /\ result = step(agreed, in)
  OBVIOUS
<1> HIDE DEF in, result
<1>4. up_rx.logical_received = frame.tick /\ Shaped(session, SessionFields)
  BY <1>1 DEF LockstepInv, Counted, Types
<1>5. /\ Shaped(session', SessionFields) /\ session'.state = result.state /\ session'.held = in.held
      /\ session'.sim_seen = IF frame.sim_reason # NoReason THEN frame.sim_reason ELSE session.sim_seen
      /\ session'.newest_answered = tick /\ session'.last_payload = frame
      /\ session'.fault = session.fault
      /\ Shaped(session'.reply, ReplyFields) /\ session'.reply.tick = tick
      /\ session'.reply.veh_tick = tick
      /\ session'.reply.delta = result.delta /\ session'.reply.mode = result.state.mode
      /\ session'.reply.reason = result.state.terminal.reason /\ session'.reply.sound
      /\ session'.reply.staleness = in.staleness
      /\ session'.record.tick = tick /\ session'.record.sensor_tick = in.held.tick
      /\ session'.record.fresh = in.fresh /\ session'.record.cmd = session'.reply.delta
      /\ session'.record.state = session'.reply.mode
      /\ session'.record.reason = session'.reply.reason
      /\ session'.record.ack = session'.reply.ack
      /\ session'.record.staleness = session'.reply.staleness
  BY <1>1, <1>4, AnsweredFacts
<1>6. UNCHANGED <<spc, scode, tick, truth, pending_reason, command_seq, frame, down_drop,
                  final_reason, vehicle_seen, agreed, sampled, matched, stop_requested, downlink>>
  BY DEF Receive, sim, simTick, simSend
<1>7. Newest' = tick /\ Newest' \in Int /\ ~Level' /\ Level
  BY <1>1, <1>5, <1>6 DEF Newest, Level
<1>8. Types'
  BY <1>5, <1>6, <1>7 DEF LockstepInv, Types
<1>9. Turns'
  BY <1>1, <1>5, <1>6, <1>7 DEF LockstepInv, Turns
<1>10. Wires'
  <2>1. BagToSet(uplink') \subseteq BagToSet(uplink)
    BY BagFacts DEF Receive
  <2>2. \A d \in BagToSet(uplink') :
           /\ Shaped(d, SampleFields)
           /\ d.sound => /\ d.tick \in Nat /\ d.tick <= tick + 1 /\ d.tick # tick + 1
                         /\ d.tick = tick => d = frame
    BY <1>1, <2>1 DEF LockstepInv, Wires
  <2>3. \A d \in BagToSet(downlink) :
           /\ Shaped(d, ReplyFields)
           /\ d.sound => d.tick \in Int /\ d.tick <= tick /\ d.tick # tick
    BY <1>1 DEF LockstepInv, Wires
  <2> QED
    BY <1>5, <1>6, <1>7, <2>2, <2>3 DEF Wires
<1>11. Tallies' /\ Counted' /\ CountersClose'
  BY <1>5, AnswerCounts
<1>12. Built'
  BY <1>6 DEF LockstepInv, Built
<1>13. Stepped'
  BY <1>3, <1>5, <1>6, <1>7 DEF Stepped
<1>14. Told'
  BY <1>1, <1>2, <1>5, <1>7 DEF Told
<1>15. Known'
  BY <1>1, <1>5, <1>6, <1>7 DEF LockstepInv, Known
<1>16. PolicySound' /\ matched'
  BY <1>6 DEF LockstepInv, PolicySound
<1>17. Looping'
  BY <1>6 DEF LockstepInv, Looping, Loop!Underway, Loop!Ended, Loop!EndsPaired
<1>18. Faulted'
  <2>1. vpc' # "exited"
    BY DEF Receive, ReceiveNew, ReceiveOther
  <2> QED
    BY <1>5, <1>6, <2>1 DEF LockstepInv, Faulted
<1> QED
  BY <1>8, <1>9, <1>10, <1>11, <1>12, <1>13, <1>14, <1>15, <1>16, <1>17, <1>18 DEF LockstepInv

-----------------------------------------------------------------------------
(* The reply accepted. *)

\* The reference run's counter of commands, and why it ended.
seqNow == IF frame.opcode = "NONE" THEN command_seq ELSE (command_seq - 1) % SeqMod
reasonNow == IF final_reason = "peer_lost" THEN "none" ELSE final_reason

\* What the vehicle sees of the frame is what the reference run's policy sees.
LEMMA IntakeFacts ==
    ASSUME LockstepInv, frame # NoFrame
    PROVE  LET in == Intake(frame, sampled)
               fresh == ~(~frame.valid) /\ truth # "nonfinite"
           IN  /\ in \in Policy!InputType /\ in.tick = tick
               /\ in.fresh = Usable(frame)
               /\ in.sim_reason = frame.sim_reason
               /\ frame.sim_reason \in {"none", "horizon", "angle", "nonfinite"}
               /\ in = Reference!Input(fresh, frame.opcode) /\ in = Loop!Input(fresh, frame.opcode)
               /\ Reference!NextSeq(frame.opcode, seqNow) = command_seq
               /\ Loop!NextSeq(frame.opcode, seqNow) = command_seq
<1> DEFINE in == Intake(frame, sampled)
           fresh == ~(~frame.valid) /\ truth # "nonfinite"
           obs == IF Usable(frame) THEN [tick |-> frame.tick, class |-> frame.class] ELSE sampled
           cmd == IF frame.opcode = "NONE" THEN NoCommand
                  ELSE [cmd_seq |-> frame.cmd_seq, opcode |-> frame.opcode,
                        effective_tick |-> frame.tick + CmdDelay]
           age == IF obs = NoHeld THEN frame.tick + 1 ELSE frame.tick - obs.tick
<1>1. /\ tick \in Nat /\ truth \in Truths /\ command_seq \in 0 .. SeqMod - 1 /\ frame.tick = tick
      /\ frame.valid \in BOOLEAN /\ frame.class = IF frame.valid THEN truth ELSE "none"
      /\ frame.opcode \in Requests \union {"NONE"}
      /\ frame.cmd_seq = IF frame.opcode = "NONE" THEN 0 ELSE command_seq
      /\ frame.sim_reason = Reference!Flagged(tick, pending_reason)
      /\ sampled \in Policy!HeldType
      /\ final_reason = "peer_lost"
  BY DEF LockstepInv, Types, Turns, Built, PolicySound, Known
<1>2. pending_reason \in {"none", "angle", "nonfinite"}
  BY <1>1 DEF LockstepInv, Looping, Loop!Underway
<1>3. frame.sim_reason \in {"none", "horizon", "angle", "nonfinite"}
  BY <1>1, <1>2 DEF Reference!Flagged
<1>4. Reference!NextSeq(frame.opcode, seqNow) = command_seq
  BY <1>1, SeqFacts DEF Reference!NextSeq, seqNow
<1>5. Loop!NextSeq(frame.opcode, seqNow) = command_seq
  BY <1>1, SeqFacts DEF Loop!NextSeq, seqNow
<1>6. fresh = Usable(frame) /\ (Usable(frame) => frame.class = truth)
  BY <1>1 DEF Usable
<1>7. in = [tick |-> frame.tick, held |-> obs, fresh |-> Usable(frame), staleness |-> age,
            command |-> cmd, horizon_reached |-> FALSE, sim_reason |-> frame.sim_reason,
            stop_reason |-> "NONE"]
  BY Zenon DEF Intake
<1>8. in \in Policy!InputType
  <2>1. obs \in Policy!HeldType /\ obs.tick \in Int
    BY <1>1, <1>6, LockstepAssumption DEF Policy!HeldType, Usable
  <2>2. cmd \in Policy!CommandType
    BY <1>1, LockstepAssumption, EpisodeAssumption DEF Policy!CommandType, NoCommand
  <2>3. "NONE" \in Policy!Reasons /\ Usable(frame) \in BOOLEAN
    BY <1>1 DEF Policy!Reasons, Usable
  <2>4. age \in Int
    <3> HIDE DEF obs
    <3> QED
      BY <1>1, <2>1
  <2> HIDE DEF obs, cmd, age, in
  <2> QED
    BY <1>1, <1>3, <1>7, <2>1, <2>2, <2>3, <2>4 DEF Policy!InputType
<1>9. in.tick = tick /\ in.fresh = Usable(frame) /\ in.sim_reason = frame.sim_reason
  <2> HIDE DEF obs, cmd, age, in
  <2> QED
    BY <1>1, <1>7
<1>10. in = Reference!Input(fresh, frame.opcode)
  BY Zenon, <1>1, <1>4, <1>6, <1>7, SameAbsent DEF Reference!Input, Reference!Request, seqNow
<1>11. in = Loop!Input(fresh, frame.opcode)
  BY Zenon, <1>1, <1>5, <1>6, <1>7, SameAbsent
     DEF Loop!Input, Loop!Request, Loop!Flagged, Reference!Flagged, seqNow
<1> QED
  BY <1>3, <1>4, <1>5, <1>8, <1>9, <1>10, <1>11

\* What the instances assume of the constants.
LEMMA Assumed ==
    /\ {CmdDelay} \subseteq Int /\ AutoArm \in BOOLEAN
    /\ {"horizon", "angle", "nonfinite"} \subseteq {"horizon", "angle", "nonfinite", "other"}
    /\ {} \subseteq Policy!Reasons
    /\ Ticks \in Nat \ {0} /\ CmdDelay \in Nat \ {0} /\ DelayTicks \in {0, 1}
    /\ AutoArm \in BOOLEAN /\ Lossy \in BOOLEAN /\ Requests \subseteq Loop!Opcodes
    /\ Truths \subseteq {"settled", "off", "diverged", "nonfinite"}
  BY LockstepAssumption DEF Loop!Opcodes, Opcodes

\* Both policies make the same of the frame, and it keeps the policy sound.
LEMMA AnswerFacts ==
    ASSUME LockstepInv, frame # NoFrame
    PROVE  LET in == Intake(frame, sampled)
               r == step(agreed, in)
           IN  /\ r = Reference!RefStep(agreed, in) /\ r = Loop!RefStep(agreed, in)
               /\ Policy!Sound(r.state) /\ Policy!Timely(r.state, tick + 1)
               /\ r.state.mode = "TERMINATED" <=> r.state.terminal # NoTerminal
<1> DEFINE in == Intake(frame, sampled)
           r == step(agreed, in)
<1>1. in \in Policy!InputType /\ in.tick = tick
  BY IntakeFacts
<1> HIDE DEF in
<1>2. /\ final_reason = "peer_lost" /\ Policy!Sound(agreed) /\ Policy!Timely(agreed, tick)
      /\ Loop!Going(agreed.mode, agreed.terminal, agreed.pending)
  BY DEF LockstepInv, Known, PolicySound, Looping, Loop!Underway
<1>3. agreed.mode \in Loop!Alive /\ agreed.mode # "TERMINATED" /\ Loop!Waiting(agreed.pending)
  BY <1>2 DEF Loop!Going, Loop!Alive
<1>4. r = Policy!step(agreed, in)
  BY SameStep
<1>5. r = Policy!RefStep(agreed, in)
  BY <1>1, <1>2, <1>4, Assumed, EpisodeAssumption, Policy!TwinStep
<1>6. r = Reference!RefStep(agreed, in) /\ r = Loop!RefStep(agreed, in)
  BY <1>5, SameRefStep
<1>7. r.state \in Policy!StateType /\ Policy!Obeys(agreed, r.state, r.acks, tick)
  BY <1>1, <1>2, <1>3, <1>4, Assumed, EpisodeAssumption, Policy!StepFacts
<1>8. PICK count :
         IF Loop!_reason(count, in) # "NONE"
         THEN /\ r.state.mode = "TERMINATED" /\ r.state.terminal.tick = in.tick
              /\ r.state.terminal.reason = Loop!_reason(count, in)
         ELSE \/ Loop!Going(r.state.mode, r.state.terminal, r.state.pending)
              \/ Loop!Aborted(r.state.mode, r.state.terminal, r.state.pending, in.tick)
  BY <1>3, <1>6, Assumed, EpisodeAssumption, Loop!StepEnds
<1> HIDE DEF r
<1>9. r.state.mode = "TERMINATED" <=> r.state.terminal # NoTerminal
  BY <1>8, SameAbsent DEF Loop!Going, Loop!Aborted, Loop!Alive, NoTerminal
<1>10. Policy!Sound(r.state) /\ Policy!Timely(r.state, tick + 1)
  BY <1>7, SameAbsent DEF Policy!Obeys, Policy!Sound
<1> QED
  BY <1>6, <1>9, <1>10 DEF r, in

\* The accepted reply is the vehicle's answer to the frame, and the simulator
\* takes over what the vehicle made of it.
LEMMA AcceptFacts ==
    ASSUME LockstepInv, NEW m \in BagToSet(downlink), NEW t \in Truths, RecvReply(m, t)
    PROVE  LET in == Intake(frame, sampled)
               r == step(agreed, in)
               value == IF down_drop THEN Absent ELSE r.delta
               arriving == Arrived(delay, value)
               act == IF arriving = Absent THEN applied ELSE arriving
               over == frame.sim_reason # NoReason \/ r.state.mode = "TERMINATED"
           IN  /\ spc = "wait" /\ m = session.reply /\ Newest = tick /\ frame # NoFrame /\ frame.tick = tick
               /\ final_reason = "peer_lost" /\ ~Level /\ session.state = r.state
               /\ session.held = in.held /\ agreed' = r.state /\ sampled' = in.held
               /\ delay' = Tail(Append(delay, value)) /\ applied' = act
               /\ row' = [tick |-> tick, truth |-> truth, has_sample |-> in.fresh,
                          applied |-> arriving # Absent, cmd_applied |-> act]
               /\ frame' = NoFrame /\ command_seq' = command_seq /\ down_drop' = down_drop
               /\ spc' = IF over THEN "done" ELSE "tick"
               /\ final_reason' = IF frame.sim_reason # NoReason THEN frame.sim_reason
                                  ELSE IF over THEN "vehicle" ELSE "peer_lost"
               /\ IF over THEN UNCHANGED <<tick, truth, pending_reason>>
                  ELSE /\ tick' = tick + 1 /\ truth' = t
                       /\ pending_reason' = CASE t = "nonfinite" -> "nonfinite"
                                               [] t = "diverged" -> "angle"
                                               [] OTHER -> NoReason
               /\ vehicle_seen' = IF r.state.mode = "TERMINATED" THEN r.state.terminal.reason
                                  ELSE vehicle_seen
               /\ matched'
               /\ down_rx' = Up(down_rx, {"received_raw", "received"} \union {"logical_received",
                                IF down_drop THEN "modeled_command_loss" ELSE "forwarded_to_delay"})
<1> DEFINE in == Intake(frame, sampled)
           r == step(agreed, in)
           fresh == frame.valid /\ frame.class # "nonfinite"
           obs == IF fresh THEN [tick |-> tick, class |-> frame.class] ELSE sampled
<1>1. /\ spc = "wait" /\ frame # NoFrame /\ frame.tick = tick /\ tick \in Nat /\ m.sound
      /\ m.tick = tick
  BY DEF RecvReply, LockstepInv, Turns, Types
<1>2. /\ m.tick <= Newest /\ Newest \in {tick - 1, tick} /\ Newest \in Int
      /\ m.tick = Newest => m = session.reply
  BY <1>1 DEF LockstepInv, Wires, Turns, Types
<1>3. Newest = tick /\ m = session.reply /\ ~Level
  BY <1>1, <1>2 DEF Level
<1>4. /\ m.veh_tick = tick /\ final_reason = "peer_lost" /\ matched
      /\ session.state = r.state /\ session.held = in.held
      /\ m.delta = r.delta /\ session.record.fresh = in.fresh
  BY <1>1, <1>3 DEF LockstepInv, Turns, Known, Stepped
<1>5. in.held = obs /\ in.fresh = fresh
  BY <1>1 DEF Intake, Usable
<1> HIDE DEF in, r
<1>6. LET record == session.record IN
      /\ record.tick = tick /\ record.sensor_tick = obs.tick
      /\ record.staleness = IF obs = NoHeld THEN tick + 1 ELSE tick - obs.tick
      /\ record.state = r.state.mode /\ record.reason = r.state.terminal.reason
      /\ m.staleness = record.staleness /\ m.mode = record.state
      /\ m.reason = record.reason /\ m.delta = record.cmd /\ m.ack = record.ack
  <2>1. Newest # NoTick
    BY <1>1, <1>3 DEF NoTick
  <2> HIDE DEF obs
  <2> QED
    BY <1>3, <1>4, <1>5, <2>1 DEF LockstepInv, Told
<1> HIDE DEF fresh, obs
<1>7. Matches(obs, fresh, session.record, m)
  BY <1>1, <1>4, <1>5, <1>6 DEF Matches
<1>8. m.mode = r.state.mode /\ m.reason = r.state.terminal.reason
  BY <1>6
<1>9. /\ agreed' = session.state /\ sampled' = obs
      /\ matched' = (matched /\ Matches(obs, fresh, session.record, m))
      /\ frame' = NoFrame /\ command_seq' = command_seq /\ down_drop' = down_drop
  BY <1>4 DEF RecvReply, obs, fresh
<1>10. LET over == frame.sim_reason # NoReason \/ m.mode = "TERMINATED" IN
       /\ spc' = IF over THEN "done" ELSE "tick"
       /\ final_reason' = IF frame.sim_reason # NoReason THEN frame.sim_reason
                          ELSE IF over THEN "vehicle" ELSE final_reason
       /\ IF over THEN UNCHANGED <<tick, truth, pending_reason>>
          ELSE /\ tick' = tick + 1 /\ truth' = t
               /\ pending_reason' = CASE t = "nonfinite" -> "nonfinite"
                                       [] t = "diverged" -> "angle"
                                       [] OTHER -> NoReason
       /\ vehicle_seen' = IF m.mode = "TERMINATED" THEN m.reason ELSE vehicle_seen
  BY <1>4 DEF RecvReply
<1>11. LET value == IF down_drop THEN Absent ELSE m.delta
           arriving == Arrived(delay, value)
           act == IF arriving = Absent THEN applied ELSE arriving
       IN  /\ delay' = Tail(Append(delay, value)) /\ applied' = act
           /\ row' = [tick |-> tick, truth |-> truth, has_sample |-> fresh,
                      applied |-> arriving # Absent, cmd_applied |-> act]
  BY Zenon, <1>4 DEF RecvReply, fresh
<1>12. down_rx' = Up(down_rx, {"received_raw", "received"} \union {"logical_received",
                       IF down_drop THEN "modeled_command_loss" ELSE "forwarded_to_delay"})
  BY Zenon, <1>4 DEF RecvReply
<1>13. matched'
  BY <1>4, <1>7, <1>9
<1>14. sampled' = in.held /\ agreed' = r.state
  BY <1>4, <1>5, <1>9
<1> QED
  BY Zenon, <1>1, <1>3, <1>4, <1>5, <1>8, <1>9, <1>10, <1>11, <1>12, <1>13, <1>14 DEF in, r

\* Accepting the reply is a pass of the reference run's loop.
LEMMA AcceptIsTick ==
    ASSUME LockstepInv, NEW m \in BagToSet(downlink), NEW t \in Truths, RecvReply(m, t)
    PROVE  /\ Reference!Tick(~frame.valid, down_drop, frame.opcode, t)
           /\ Loop!Tick(~frame.valid, down_drop, frame.opcode, t)
<1> DEFINE in == Intake(frame, sampled)
           r == step(agreed, in)
           value == IF down_drop THEN Absent ELSE r.delta
           arriving == Arrived(delay, value)
           act == IF arriving = Absent THEN applied ELSE arriving
           over == frame.sim_reason # NoReason \/ r.state.mode = "TERMINATED"
           end == IF in.sim_reason # "none" THEN in.sim_reason
                  ELSE IF r.state.terminal # NoTerminal THEN "vehicle" ELSE "none"
           next == CASE t = "nonfinite" -> "nonfinite" [] t = "diverged" -> "angle" [] OTHER -> NoReason
           fresh == ~(~frame.valid) /\ truth # "nonfinite"
<1>1. /\ frame # NoFrame /\ final_reason = "peer_lost"
      /\ agreed' = r.state /\ sampled' = in.held
      /\ delay' = Tail(Append(delay, value)) /\ applied' = act
      /\ row' = [tick |-> tick, truth |-> truth, has_sample |-> in.fresh,
                 applied |-> arriving # Absent, cmd_applied |-> act]
      /\ frame' = NoFrame /\ command_seq' = command_seq
      /\ final_reason' = IF frame.sim_reason # NoReason THEN frame.sim_reason
                         ELSE IF over THEN "vehicle" ELSE "peer_lost"
      /\ IF over THEN UNCHANGED <<tick, truth, pending_reason>>
         ELSE tick' = tick + 1 /\ truth' = t /\ pending_reason' = next
  BY AcceptFacts
<1>2. /\ in.sim_reason = frame.sim_reason
      /\ frame.sim_reason \in {"none", "horizon", "angle", "nonfinite"}
      /\ in = Reference!Input(fresh, frame.opcode) /\ in = Loop!Input(fresh, frame.opcode)
      /\ Reference!NextSeq(frame.opcode, seqNow) = command_seq
      /\ Loop!NextSeq(frame.opcode, seqNow) = command_seq
  BY <1>1, IntakeFacts
<1>3. /\ r = Reference!RefStep(agreed, in) /\ r = Loop!RefStep(agreed, in)
      /\ r.state.mode = "TERMINATED" <=> r.state.terminal # NoTerminal
  BY <1>1, AnswerFacts
<1> HIDE DEF in, r
<1>4. reasonNow = "none" /\ reasonNow' = end /\ (over <=> end # "none")
  BY <1>1, <1>2, <1>3 DEF reasonNow, NoReason
<1>5. seqNow' = command_seq
  BY <1>1, NoFrameFacts DEF seqNow
<1> HIDE DEF end, over, next, value
<1>6. IF end = "none" THEN tick' = tick + 1 /\ truth' = t /\ pending_reason' = next
      ELSE UNCHANGED <<tick, truth, pending_reason>>
  BY <1>1, <1>4
<1>7. Reference!Absent = Absent /\ Loop!Absent = Absent
  BY DEF Reference!Absent, Loop!Absent, Absent
<1>8. Reference!Advance(in, r, down_drop, t)
  <2>1. end = IF in.sim_reason # "none" THEN in.sim_reason
              ELSE IF r.state.terminal # Reference!NoTerminal THEN "vehicle" ELSE "none"
    BY SameAbsent DEF end
  <2>2. next = Reference!LossOfControl(t)
    BY DEF next, Reference!LossOfControl, NoReason
  <2>3. value = IF down_drop THEN Reference!Absent ELSE r.delta
    BY <1>7 DEF value
  <2>4. /\ delay' = Reference!Shifted(delay, value) /\ arriving = Reference!Arriving(delay, value)
        /\ act = Reference!Actuate(applied, arriving)
    BY Zenon, <1>1, <1>7 DEF Reference!Shifted, Reference!Arriving, Reference!Actuate, Arrived
  <2>5. row' = Reference!Row(tick, truth, in.fresh, arriving, act)
    BY Zenon, <1>1, <1>7 DEF Reference!Row
  <2> HIDE DEF arriving, act
  <2> QED
    BY Zenon, <1>1, <1>4, <1>6, <2>1, <2>2, <2>3, <2>4, <2>5 DEF Reference!Advance, reasonNow
<1>9. Loop!Advance(in, r, down_drop, t)
  <2>1. end = IF in.sim_reason # "none" THEN in.sim_reason
              ELSE IF r.state.terminal # Loop!NoTerminal THEN "vehicle" ELSE "none"
    BY SameAbsent DEF end
  <2>2. next = Loop!LossOfControl(t)
    BY DEF next, Loop!LossOfControl, NoReason
  <2>3. value = IF down_drop THEN Loop!Absent ELSE r.delta
    BY <1>7 DEF value
  <2>4. /\ delay' = Loop!Shifted(delay, value) /\ arriving = Loop!Arriving(delay, value)
        /\ act = Loop!Actuate(applied, arriving)
    BY Zenon, <1>1, <1>7 DEF Loop!Shifted, Loop!Arriving, Loop!Actuate, Arrived
  <2>5. row' = Loop!Row(tick, truth, in.fresh, arriving, act)
    BY Zenon, <1>1, <1>7 DEF Loop!Row
  <2> HIDE DEF arriving, act
  <2> QED
    BY Zenon, <1>1, <1>4, <1>6, <2>1, <2>2, <2>3, <2>4, <2>5 DEF Loop!Advance, reasonNow
<1>10. Reference!Tick(~frame.valid, down_drop, frame.opcode, t)
  BY Zenon, <1>2, <1>3, <1>4, <1>5, <1>8 DEF Reference!Tick, seqNow, reasonNow
<1>11. Loop!Tick(~frame.valid, down_drop, frame.opcode, t)
  BY Zenon, <1>2, <1>3, <1>4, <1>5, <1>9 DEF Loop!Tick, seqNow, reasonNow
<1> QED
  BY <1>10, <1>11

\* The counts of an accepted reply.
LEMMA AcceptCounts ==
    ASSUME LockstepInv, NEW m \in BagToSet(downlink), NEW t \in Truths, RecvReply(m, t)
    PROVE  Tallies' /\ Counted' /\ CountersClose'
<1> DEFINE how == IF down_drop THEN "modeled_command_loss" ELSE "forwarded_to_delay"
           S == {"received_raw", "received", "logical_received", how}
<1>1. down_rx' = Up(down_rx, {"received_raw", "received"} \union {"logical_received", how})
  BY Zenon, AcceptFacts
<1>2. /\ how \in {"modeled_command_loss", "forwarded_to_delay"}
      /\ {"received_raw", "received"} \union {"logical_received", how} = S
  OBVIOUS
<1> HIDE DEF how, S
<1>3. /\ down_rx \in [DownRxFields -> Int]
      /\ ReceiverCloses(down_rx, down_rx.modeled_command_loss + down_rx.forwarded_to_delay)
      /\ down_rx.rejected_received = down_rx.test_discarded + down_rx.discarded_old
  BY DEF LockstepInv, Tallies, CountersClose, Closed, Counted
<1>4. /\ down_rx' \in [DownRxFields -> Int]
      /\ \A k \in DownRxFields : down_rx'[k] = IF k \in S THEN down_rx[k] + 1 ELSE down_rx[k]
  BY <1>1, <1>2, <1>3, TallyFacts
<1>5. /\ ReceiverCloses(down_rx', down_rx'.modeled_command_loss + down_rx'.forwarded_to_delay)
      /\ down_rx'.rejected_received = down_rx'.test_discarded + down_rx'.discarded_old
  <2>1. CASE how = "modeled_command_loss"
    BY <1>3, <1>4, <2>1 DEF ReceiverCloses, DownRxFields, S
  <2>2. CASE how = "forwarded_to_delay"
    BY <1>3, <1>4, <2>2 DEF ReceiverCloses, DownRxFields, S
  <2> QED
    BY <1>2, <2>1, <2>2
<1>6. up_tx' = up_tx /\ vehicle' = vehicle
  BY DEF RecvReply, SimFails
<1>7. session' = session /\ vehCounts' = vehCounts
  BY <1>6, Parts
<1> QED
  BY <1>4, <1>5, <1>6, <1>7
     DEF LockstepInv, Tallies, Counted, CountersClose, Closed, RecordsClose, Newest, vehCounts,
         SenderCloses, ReceiverCloses

\* The simulator accepts the reply.
LEMMA RecvReplyKeeps ==
    ASSUME LockstepInv, NEW m \in BagToSet(downlink), NEW t \in Truths, RecvReply(m, t)
    PROVE  LockstepInv'
<1> DEFINE in == Intake(frame, sampled)
           r == step(agreed, in)
           over == frame.sim_reason # NoReason \/ r.state.mode = "TERMINATED"
<1>1. /\ spc = "wait" /\ Newest = tick /\ frame # NoFrame /\ frame.tick = tick
      /\ final_reason = "peer_lost" /\ ~Level /\ session.state = r.state
      /\ session.held = in.held /\ agreed' = r.state /\ sampled' = in.held
      /\ frame' = NoFrame /\ command_seq' = command_seq /\ down_drop' = down_drop
      /\ spc' = IF over THEN "done" ELSE "tick"
      /\ final_reason' = IF frame.sim_reason # NoReason THEN frame.sim_reason
                         ELSE IF over THEN "vehicle" ELSE "peer_lost"
      /\ IF over THEN tick' = tick /\ truth' = truth ELSE tick' = tick + 1 /\ truth' = t
      /\ vehicle_seen' = IF r.state.mode = "TERMINATED" THEN r.state.terminal.reason ELSE vehicle_seen
      /\ matched'
  BY AcceptFacts
<1>2. /\ in \in Policy!InputType
      /\ frame.sim_reason \in {"none", "horizon", "angle", "nonfinite"}
  BY <1>1, IntakeFacts
<1>3. Policy!Sound(r.state) /\ Policy!Timely(r.state, tick + 1)
  BY <1>1, AnswerFacts
<1> HIDE DEF in, r
<1>4. UNCHANGED <<session, vpc, vcode, stop_requested, uplink>> /\ BagToSet(downlink') \subseteq BagToSet(downlink)
  BY BagFacts DEF RecvReply, SimFails, vehicle
<1>5. tick \in Nat /\ Newest \in Int /\ Newest' = Newest
  BY <1>4 DEF LockstepInv, Types, Newest
<1>6. over => final_reason' # "peer_lost" /\ final_reason' # "none"
  BY <1>1, <1>2 DEF NoReason
<1>7. Looping'
  <2>1. Loop!Tick(~frame.valid, down_drop, frame.opcode, t)
    BY AcceptIsTick
  <2>2. Loop!Underway /\ (~frame.valid) \in BOOLEAN
    BY DEF LockstepInv, Looping
  <2>3. Loop!Underway' /\ Loop!Ended' /\ (Ticks > 1 => Loop!EndsPaired')
    BY <2>1, <2>2, Assumed, EpisodeAssumption, Loop!TickKeeps
  <2> QED
    BY <2>3 DEF Looping
<1>8. over => r.state.mode = "TERMINATED"
  BY <1>1, <1>6, <1>7 DEF Looping, Loop!Ended
<1> HIDE DEF over
<1>9. over \in BOOLEAN /\ (~over => frame.sim_reason = NoReason)
  BY DEF over
<1>10. Types'
  BY <1>1, <1>4, <1>5, NoFrameFacts DEF LockstepInv, Types
<1>11. Turns'
  BY <1>1, <1>4, <1>5, <1>9 DEF LockstepInv, Turns
<1>12. Wires'
  <2>1. \A d \in BagToSet(uplink) : d.sound => d.tick # Newest + 1
    BY <1>1, <1>5 DEF LockstepInv, Wires
  <2> QED
    BY <1>4, <1>5, <2>1 DEF LockstepInv, Wires
<1>13. Tallies' /\ Counted' /\ CountersClose'
  BY AcceptCounts
<1>14. Built'
  BY <1>1 DEF Built
<1>15. Stepped'
  BY <1>1, <1>4 DEF Stepped, Level
<1>16. Told'
  BY <1>4, <1>5 DEF LockstepInv, Told
<1>17. Known'
  <2>1. session.sim_seen = frame.sim_reason /\ Level'
    BY <1>1 DEF LockstepInv, Known, Level
  <2>2. final_reason' = "vehicle" => frame.sim_reason = NoReason
    BY <1>1, <1>2
  <2> QED
    BY <1>1, <1>4, <1>5, <1>6, <1>8, <1>9, <2>1, <2>2 DEF Known
<1>18. PolicySound'
  <2>1. in.held \in Policy!HeldType
    BY <1>2 DEF Policy!InputType
  <2> QED
    BY <1>1, <1>3, <1>6, <2>1 DEF PolicySound
<1>19. Faulted'
  BY <1>4 DEF LockstepInv, Faulted
<1> QED
  BY <1>1, <1>7, <1>10, <1>11, <1>12, <1>13, <1>14, <1>15, <1>16, <1>17, <1>18, <1>19 DEF LockstepInv

-----------------------------------------------------------------------------
(* The theorems. *)

\* At the start nothing is under way and nothing was counted.
LEMMA LockstepStarts == Init => LockstepInv
<1> SUFFICES ASSUME Init PROVE LockstepInv
  OBVIOUS
<1>1. /\ spc = "tick" /\ tick = 0 /\ truth \in Truths \ {"nonfinite"} /\ pending_reason = NoReason
      /\ command_seq = 0 /\ frame = NoFrame /\ down_drop = FALSE /\ final_reason = "peer_lost"
      /\ up_tx = Zero(SendFields) /\ down_rx = Zero(DownRxFields) /\ vpc = "top"
      /\ up_rx = Zero(UpRxFields) /\ down_tx = Zero(SendFields \union {"original_tx_fail"})
      /\ events = Zero(EventFields) /\ uplink = EmptyBag /\ downlink = EmptyBag
      /\ agreed = initial(AutoArm) /\ sampled = NoHeld /\ matched = TRUE
  BY DEF Init
<1>2. session = [state |-> initial(AutoArm), held |-> NoHeld, sim_seen |-> NoReason,
                 fault |-> NoTerminal, newest_answered |-> NoTick, last_payload |-> NoFrame,
                 reply |-> NoReply, record |-> NoRecord,
                 reply_transmitted |-> FALSE, integrity |-> FALSE]
  BY DEF Init
<1>3. /\ Shaped(session, SessionFields) /\ Newest = -1 /\ session.reply = NoReply
      /\ session.state = agreed /\ session.held = sampled /\ session.sim_seen = NoReason
      /\ session.fault = NoTerminal
  <2> HIDE DEF LockstepInv
  <2> QED
    BY <1>1, <1>2 DEF Shaped, SessionFields, Newest, NoTick
<1>4. SeqMod \in Nat /\ SeqMod > 0 /\ 0 \in 0 .. SeqMod - 1
  BY EpisodeAssumption
<1>5. Types
  <2>1. FALSE \in Reference!Draws
    BY DEF Reference!Draws
  <2>2. down_drop \in Reference!Draws
    BY <1>1, <2>1
  <2>3. Shaped(frame, SampleFields)
    BY <1>1, NoFrameFacts
  <2>4. spc \in {"tick", "send", "wait", "done"} /\ tick \in Nat /\ truth \in Truths
    BY <1>1
  <2>5. command_seq \in 0 .. SeqMod - 1 /\ Newest \in Int
    BY <1>1, <1>3, <1>4
  <2> QED
    BY <1>3, <2>2, <2>3, <2>4, <2>5 DEF Types
<1>6. Turns
  <2>1. /\ Shaped(NoReply, ReplyFields) /\ NoReply.tick = -1 /\ NoReply.veh_tick = -1
        /\ NoReply.sound
    BY DEF NoReply, Reply, Shaped, ReplyFields, NoTick
  <2> QED
    BY <1>1, <1>3, <2>1 DEF Turns
<1>7. Wires
  BY <1>1 DEF Wires, EmptyBag, BagToSet, SetToBag
<1>8. Tallies /\ Counted /\ CountersClose
  <2>1. Tallies
    BY <1>1 DEF Tallies, Zero
  <2>2. Counted
    BY <1>1, <1>3 DEF Counted, Zero, UpRxFields, EventFields, DownRxFields
  <2>3. CountersClose
    BY <1>1 DEF CountersClose, Closed, RecordsClose, SenderCloses, ReceiverCloses, Zero,
                UpRxFields, EventFields, DownRxFields, SendFields
  <2> QED
    BY <2>1, <2>2, <2>3
<1>9. Built /\ Stepped /\ Told /\ Known /\ Faulted /\ matched
  BY <1>1, <1>3 DEF Built, Stepped, Level, Told, Known, Faulted, NoTick
<1>10. PolicySound
  <2>1. agreed.pending = NoCommand /\ agreed.mode = "INIT" /\ agreed \in Policy!StateType
    BY <1>1, <1>4, EpisodeAssumption, LockstepAssumption
       DEF initial, Policy!StateType, Policy!CommandType, NoCommand, NoTerminal, NoTick,
           Policy!Modes, Policy!Reasons
  <2>2. sampled \in Policy!HeldType
    BY <1>1 DEF NoHeld, NoTick, Policy!HeldType
  <2> QED
    BY <2>1, <2>2, SameAbsent DEF PolicySound, Policy!Sound, Policy!Timely
<1>11. Looping
  <2>1. agreed.pending = NoCommand /\ agreed.mode = "INIT" /\ agreed.terminal = NoTerminal
    BY <1>1 DEF initial
  <2> QED
    BY <1>1, <2>1, SameAbsent, LockstepAssumption
       DEF Looping, Loop!Underway, Loop!Ended, Loop!EndsPaired, Loop!Going, Loop!Waiting,
           Loop!Alive, NoReason
<1> QED
  BY <1>5, <1>6, <1>7, <1>8, <1>9, <1>10, <1>11 DEF LockstepInv

\* Every step keeps the invariant.
LEMMA LockstepSteps ==
    ASSUME LockstepInv, [Next]_vars
    PROVE  LockstepInv'
<1>1. CASE UNCHANGED vars
  <2>1. UNCHANGED <<sim, vehicle, stop_requested, net>>
    BY <1>1 DEF vars
  <2>2. SameFaults
    BY <2>1, Parts DEF SameFaults
  <2> QED
    BY <2>1, <2>2, Parts, IdleSteps
<1>2. CASE \E up_drop, drop_reply \in IF Lossy THEN BOOLEAN ELSE {FALSE}, opcode \in Requests \union {"NONE"} :
              BuildSample(up_drop, drop_reply, opcode)
  BY <1>2, BuildSampleKeeps DEF Reference!Draws
<1>3. CASE SendSample
  BY <1>3, SendSampleKeeps
<1>4. CASE \E m \in BagToSet(downlink) : RecvOther(m)
  BY <1>4, RecvOtherKeeps
<1>5. CASE \E m \in BagToSet(downlink), t \in Truths : RecvReply(m, t)
  BY <1>5, RecvReplyKeeps
<1>6. CASE \E m \in BagToSet(uplink) : Receive(m)
  BY <1>6, ReceiveNewKeeps, ReceiveOtherKeeps
<1>7. CASE SendReply
  BY <1>7, SendReplyKeeps
<1>8. CASE ReceiveFails \/ Exit
  BY <1>8, VehicleEndKeeps
<1>9. CASE Lose \/ Corrupt
  BY <1>9, NetworkKeeps
<1>10. CASE \/ Runner \/ WaitExpires \/ Signal \/ Finished \/ LoopTop \/ SimKilled \/ Timeout
            \/ RecvRefused
  BY <1>10, RunnerKeeps
<1> QED
  BY <1>1, <1>2, <1>3, <1>4, <1>5, <1>6, <1>7, <1>8, <1>9, <1>10 DEF Next, Sim, Vehicle

\* The invariant holds throughout every run, whatever is lost, repeated, corrupted
\* or stopped.
THEOREM LockstepInvariant == Spec => []LockstepInv
<1>1. Init => LockstepInv
  BY LockstepStarts
<1>2. LockstepInv /\ [Next]_vars => LockstepInv'
  BY LockstepSteps
<1> QED
  BY <1>1, <1>2, PTL DEF Spec

\* Session::receive and the simulator's tick loop keep to one transaction: the
\* vehicle answers each tick once, in order, and neither side is ever ahead of
\* the other's answer.
THEOREM LockstepOneTransaction == Spec => []OneTransaction
<1>1. LockstepInv => OneTransaction
  BY DEF LockstepInv, OneTransaction, Types, Turns, Counted, Newest
<1> QED
  BY <1>1, LockstepInvariant, PTL

\* The identities between the counters that reconcile.py tests at the end hold in
\* every state, in the middle of a retry or after a crash too.
THEOREM LockstepCountersClose == Spec => []CountersClose
<1>1. LockstepInv => CountersClose
  BY DEF LockstepInv
<1> QED
  BY <1>1, LockstepInvariant, PTL

\* Two successes mean agreement.
LEMMA Agreement ==
    ASSUME Ticks > 1, LockstepInv
    PROVE  SuccessMeansAgreement
<1> SUFFICES ASSUME spc = "done", vpc = "exited", scode = 0, vcode = 0
             PROVE  TerminalsAgree /\ matched
  BY DEF SuccessMeansAgreement
<1>1. /\ final_reason # "peer_lost" /\ frame = NoFrame /\ Newest = tick /\ final_reason # "none"
      /\ vehicle_seen = agreed.terminal.reason
      /\ session.sim_seen = IF final_reason = "vehicle" THEN NoReason ELSE final_reason
      /\ session.fault = NoTerminal /\ matched /\ tick \in Nat
  BY DEF LockstepInv, Known, Faulted, Types
<1>2. session.state = agreed /\ session.held = sampled
  BY <1>1 DEF LockstepInv, Stepped, Level
<1>3. /\ session.record.tick = tick /\ session.record.state = agreed.mode
      /\ session.record.reason = agreed.terminal.reason
      /\ session.record.staleness = IF sampled = NoHeld THEN tick + 1 ELSE tick - sampled.tick
  BY <1>1, <1>2 DEF LockstepInv, Told, NoTick
<1>4. /\ agreed.mode = "TERMINATED" /\ agreed.terminal.tick = tick
      /\ Loop!Paired(final_reason, agreed.terminal.reason,
                     IF sampled = NoHeld THEN tick + 1 ELSE tick - sampled.tick)
  BY <1>1, SameAbsent DEF LockstepInv, Looping, Loop!Ended, Loop!EndsPaired
<1>5. Paired(final_reason, agreed.terminal.reason, session.record.staleness)
  BY <1>3, <1>4 DEF Paired, Loop!Paired
<1>6. Reason(session) = agreed.terminal.reason /\ ReasonTick(session) = agreed.terminal.tick
  BY <1>1, <1>2 DEF Reason, ReasonTick
<1> QED
  BY <1>1, <1>3, <1>4, <1>5, <1>6 DEF TerminalsAgree

\* When both processes exit with 0 they agree on the ending, in a scenario of
\* more than one tick (the reasons of a single tick need not be a pair).
THEOREM LockstepAgreement == ASSUME Ticks > 1 PROVE Spec => []SuccessMeansAgreement
<1>1. LockstepInv => SuccessMeansAgreement
  BY Agreement
<1> QED
  BY <1>1, LockstepInvariant, PTL

\* The steps that accept no reply do not move the reference run.
LEMMA OtherSteps ==
    ASSUME LockstepInv, [Next]_vars
    PROVE  \/ \E m \in BagToSet(downlink), t \in Truths : RecvReply(m, t)
           \/ UNCHANGED Reference!vars
<1>1. ASSUME UNCHANGED <<simTick, command_seq, frame>> PROVE UNCHANGED Reference!vars
  BY <1>1 DEF simTick, Reference!vars
<1>2. ASSUME NEW up_drop, NEW drop_reply, NEW opcode, BuildSample(up_drop, drop_reply, opcode)
      PROVE  UNCHANGED Reference!vars
  <2>1. /\ simTick' = simTick /\ frame = NoFrame /\ command_seq \in 0 .. SeqMod - 1
        /\ command_seq' = IF opcode = "NONE" THEN command_seq ELSE (command_seq + 1) % SeqMod
        /\ frame'.opcode = opcode
    BY <1>2 DEF BuildSample, Sample, LockstepInv, Types, Turns
  <2>2. seqNow' = seqNow
    BY <2>1, NoFrameFacts, SeqFacts DEF seqNow
  <2> QED
    BY <2>1, <2>2 DEF simTick, Reference!vars, seqNow
<1>3. CASE Lose \/ Corrupt \/ Runner \/ WaitExpires \/ Signal \/ Finished \/ Vehicle \/ SimKilled
  <2>1. UNCHANGED <<simTick, command_seq, frame>>
    BY <1>3 DEF Lose, Corrupt, Runner, SimEnded, VehicleEnded, StopProcess, Kill, Reconcile, WaitExpires,
                Signal, Finished, Vehicle, LoopTop, ReceiveFails, SendReply, Exit, Receive, SimKilled,
                vars, sim, simSend
  <2> QED
    BY <1>1, <2>1
<1>4. CASE SendSample \/ Timeout \/ RecvRefused \/ \E m \in BagToSet(downlink) : RecvOther(m)
  <2>1. UNCHANGED <<simTick, command_seq, frame>>
    BY <1>4 DEF SendSample, Timeout, RecvRefused, RecvOther, SimFails, simSend
  <2> QED
    BY <1>1, <2>1
<1>5. CASE UNCHANGED vars
  <2>1. UNCHANGED <<simTick, command_seq, frame>>
    BY <1>5 DEF vars, sim, simSend
  <2> QED
    BY <1>1, <2>1
<1> QED
  BY <1>2, <1>3, <1>4, <1>5 DEF Next, Sim

\* Seen at the accepted replies, the two processes take only the steps of
\* run_headless.py, from one of its initial states.
THEOREM LockstepImplementsHeadless == Spec => ImplementsHeadless
<1>1. Init => Reference!Init
  <2> SUFFICES ASSUME Init PROVE Reference!Init
    OBVIOUS
  <2>1. /\ tick = 0 /\ truth \in Truths \ {"nonfinite"} /\ agreed = initial(AutoArm)
        /\ sampled = NoHeld /\ pending_reason = "none" /\ applied = NoTick
        /\ delay = [i \in 1 .. DelayTicks |-> Absent] /\ frame = NoFrame /\ command_seq = 0
        /\ final_reason = "peer_lost"
        /\ row = [tick |-> NoTick, truth |-> "none", has_sample |-> FALSE, applied |-> FALSE,
                  cmd_applied |-> NoTick]
    BY DEF Init, NoReason
  <2>2. Reference!initial(AutoArm) = initial(AutoArm)
    BY Zenon, SameAbsent DEF Reference!initial, initial
  <2>3. Reference!Absent = Absent
    BY DEF Reference!Absent, Absent
  <2>4. Reference!NoRow = row
    BY <2>1, SameAbsent DEF Reference!NoRow, Reference!Row
  <2>5. (IF frame.opcode = "NONE" THEN command_seq ELSE (command_seq - 1) % SeqMod) = 0
    BY <2>1, NoFrameFacts
  <2>6. (IF final_reason = "peer_lost" THEN "none" ELSE final_reason) = "none"
    BY <2>1
  <2> QED
    BY <2>1, <2>2, <2>3, <2>4, <2>5, <2>6, SameAbsent DEF Reference!Init
<1>2. LockstepInv /\ [Next]_vars => [Reference!Next]_(Reference!vars)
  <2> SUFFICES ASSUME LockstepInv, [Next]_vars PROVE [Reference!Next]_(Reference!vars)
    OBVIOUS
  <2>1. CASE \E m \in BagToSet(downlink), t \in Truths : RecvReply(m, t)
    <3>1. PICK m \in BagToSet(downlink), t \in Truths : RecvReply(m, t)
      BY <2>1
    <3>2. Reference!Tick(~frame.valid, down_drop, frame.opcode, t)
      BY <3>1, AcceptIsTick
    <3>3. frame # NoFrame
      BY <3>1 DEF RecvReply, LockstepInv, Turns
    <3>4. /\ (~frame.valid) \in Reference!Draws /\ down_drop \in Reference!Draws
          /\ frame.opcode \in Requests \union {"NONE"}
      BY <3>3 DEF LockstepInv, Built, Types
    <3> QED
      BY <3>2, <3>4 DEF Reference!Next
  <2> QED
    BY <2>1, OtherSteps
<1> QED
  BY <1>1, <1>2, LockstepInvariant, PTL DEF Spec, ImplementsHeadless
-----------------------------------------------------------------------------
(* Faults and retries: what the counters tell of the datagrams under way. *)

FaultKinds == {"fail_sensor", "drop_actuator", "kill_at", "recv", "original_reply", "reply", "ring",
               "write", "lost", "corrupt", "slow", "signal"}
Kinds == Range(faults)

\* The copies that a bag holds, told apart by a number, and how many they are.
Copies(bag) == {c \in (DOMAIN bag) \X Nat : c[2] >= 1 /\ c[2] <= bag[c[1]]}
Load(bag) == Cardinality(Copies(bag))
Bagged(bag) ==
    /\ bag \in [DOMAIN bag -> Nat] /\ \A m \in DOMAIN bag : bag[m] > 0
    /\ IsFiniteSet(Copies(bag))

\* The copies sent that were not received and are not under way any more.
UpGap == up_tx.transmitted - up_rx.received_raw - Load(uplink)
DownGap == down_tx.transmitted - down_rx.received_raw - Load(downlink)

Loads ==
    /\ Bagged(uplink) /\ Bagged(downlink) /\ UpGap >= 0 /\ DownGap >= 0
    /\ up_rx.malformed >= 0 /\ down_rx.malformed >= 0 /\ events.ring_drops >= 0
    /\ down_tx.original_tx_fail >= 0

Damaged == \E m \in BagToSet(uplink) \union BagToSet(downlink) : ~m.sound

\* The trace of a fault, which the runner or reconcile.py looks at.
Trace(kind) ==
    /\ kind = "lost" => UpGap > 0 \/ DownGap > 0
    /\ kind = "corrupt" => \/ Damaged \/ UpGap > 0 \/ DownGap > 0
                           \/ up_rx.malformed > 0 \/ down_rx.malformed > 0
    /\ kind = "ring" => events.ring_drops > 0
    /\ kind = "original_reply" => down_tx.original_tx_fail > 0
    /\ kind = "recv" => session.fault # NoTerminal
    /\ kind = "kill_at" => spc = "done" /\ scode = Killed
    /\ kind = "write" => vpc = "exited" /\ vcode # 0
    /\ kind = "signal" => stop_requested
    /\ kind = "slow" => rcode # 0 /\ rpc \notin {"sim", "vehicle"}

\* Every fault leaves its trace.
Shown == faults \in Seq(FaultKinds) /\ \A kind \in Kinds : Trace(kind)

\* What the runner knows of the processes.
Watched ==
    /\ rpc \in {"sim", "vehicle", "stop", "kill", "report", "done"}
    /\ vpc \in {"top", "recv", "reply", "reply_cached", "after", "exited"}
    /\ spc # "done" => scode = 0
    /\ rpc = "sim" => rcode = 0
    /\ rpc # "sim" => spc = "done"
    /\ rpc = "vehicle" => rcode = 0 /\ scode = 0
    /\ rpc \in {"stop", "kill"} => rcode # 0
    /\ rpc \in {"report", "done"} => vpc = "exited" /\ (rcode = 0 => scode = 0 /\ vcode = 0)
    /\ rpc = "done" /\ rcode = 0 => Eligible
    /\ vpc \in {"top", "recv", "reply_cached"} => session.state.terminal = NoTerminal
    /\ vpc = "exited" /\ stop_requested => vcode # 0

FaultInv == Loads /\ Shown /\ Watched

\* The simulator's sample: generated once a tick, logged when it was first sent.
Sampling ==
    /\ attempt \in Nat /\ logged \in BOOLEAN /\ up_tx.send_pending = 0
    /\ frame # NoFrame /\ Newest = tick => logged
    /\ \A m \in BagToSet(uplink) : m.sound /\ m.tick = tick /\ frame # NoFrame => logged
    /\ scode = 0 =>
           /\ up_tx.generated = tick + One(spc # "tick")
           /\ up_tx.not_attempted = One(spc = "send" /\ attempt = 0)
           /\ up_tx.never_transmitted = One(spc \in {"send", "wait"} /\ ~logged)
           /\ down_rx.logical_received = tick + One(spc = "done")

\* The vehicle's reply: one a cycle, with one record.
Replying ==
    /\ down_tx.send_pending = 0 /\ down_tx.generated = Newest + 1
    /\ vcode # Killed => /\ down_tx.not_attempted = One(vpc = "reply")
                         /\ events.record_pending = One(vpc = "reply")
    /\ vpc # "exited" => vcode = 0
    /\ vpc = "reply" => \A m \in BagToSet(downlink) : m.sound => m.tick < Newest
    /\ vpc = "reply" => ~session.reply_transmitted
    /\ vpc = "reply_cached" => Newest # NoTick
    /\ scode = 0 => ~veh_refused
    /\ scode = 0 /\ spc = "done" => vpc \in {"after", "exited"}

\* A run in which nothing went wrong but sends of samples and dropped replies.
Calm == Kinds \subseteq {"fail_sensor", "drop_actuator"} /\ scode = 0

\* The datagrams balance, but for copies that a closed port refused.
Even ==
    /\ UpGap = up_tx.tx_fail - Cardinality(Failed) + One(sim_refused) /\ DownGap = 0
    /\ spc = "done" => ~sim_refused
    /\ up_rx.malformed = 0 /\ down_rx.malformed = 0
    /\ \A m \in BagToSet(uplink) \union BagToSet(downlink) : m.sound
    /\ events.ring_drops = 0 /\ down_tx.original_tx_fail = 0
    /\ down_tx.never_transmitted = One(vpc = "reply")
    /\ vpc # "reply" /\ Newest # NoTick => session.reply_transmitted

\* Nobody stops the vehicle.
Unstopped ==
    /\ ~session.integrity /\ ~stop_requested /\ ~interrupted
    /\ rpc \notin {"stop", "kill"}
    /\ rt_ok => session.fault = NoTerminal
    /\ vpc = "exited" /\ rt_ok =>
           vcode = 0 \/ session.state.terminal.reason \in {"PEER_LOST", "INTERNAL", "NONE"}
    /\ rpc = "report" => rcode = IF vcode = 0 THEN 0 ELSE 2
    /\ rpc = "done" => rcode = IF vcode # 0 THEN 2 ELSE IF Eligible THEN 0 ELSE 8

CalmInv == Sampling /\ Replying /\ (Calm => Even) /\ (Calm => Unstopped)

\* The faults so far, after one more.
LEMMA FaultFacts ==
    ASSUME NEW kind \in FaultKinds, faults \in Seq(FaultKinds), faults' = Append(faults, kind)
    PROVE  /\ faults' \in Seq(FaultKinds) /\ Kinds' = Kinds \union {kind}
           /\ Failed' = IF kind = "fail_sensor" THEN Failed \union {Len(faults) + 1} ELSE Failed
<1>1. /\ faults' \in Seq(FaultKinds) /\ Len(faults) \in Nat /\ Len(faults') = Len(faults) + 1
      /\ DOMAIN faults = 1 .. Len(faults) /\ DOMAIN faults' = 1 .. (Len(faults) + 1)
      /\ \A i \in 1 .. Len(faults) : faults'[i] = faults[i]
      /\ faults'[Len(faults) + 1] = kind
  OBVIOUS
<1>2. Kinds' = Kinds \union {kind}
  <2>1. Kinds = {faults[i] : i \in 1 .. Len(faults)} /\ Kinds' = {faults'[i] : i \in 1 .. (Len(faults) + 1)}
    BY <1>1 DEF Kinds, Range
  <2>2. ASSUME NEW k PROVE k \in Kinds' <=> k \in Kinds \union {kind}
    <3>1. ASSUME k \in Kinds' PROVE k \in Kinds \union {kind}
      <4>1. PICK i \in 1 .. (Len(faults) + 1) : k = faults'[i] BY <2>1, <3>1
      <4>2. CASE i = Len(faults) + 1 BY <1>1, <4>1, <4>2
      <4>3. CASE i \in 1 .. Len(faults) BY <1>1, <2>1, <4>1, <4>3
      <4> QED BY <1>1, <4>2, <4>3
    <3>2. ASSUME k \in Kinds \union {kind} PROVE k \in Kinds'
      <4>1. CASE k = kind
        <5>1. Len(faults) + 1 \in 1 .. (Len(faults) + 1) BY <1>1
        <5> QED BY <1>1, <2>1, <4>1, <5>1
      <4>2. CASE k \in Kinds
        <5>1. PICK i \in 1 .. Len(faults) : k = faults[i] BY <2>1, <4>2
        <5>2. i \in 1 .. (Len(faults) + 1) BY <1>1
        <5> QED BY <1>1, <2>1, <5>1, <5>2
      <4> QED BY <3>2, <4>1, <4>2
    <3> QED BY <3>1, <3>2
  <2> QED BY <2>2
<1>3. Failed' = IF kind = "fail_sensor" THEN Failed \union {Len(faults) + 1} ELSE Failed
  <2>1. ASSUME NEW i PROVE i \in Failed' <=> i \in Failed \/ (i = Len(faults) + 1 /\ kind = "fail_sensor")
    BY <1>1 DEF Failed
  <2> QED BY <2>1
<1> QED BY <1>1, <1>2, <1>3

\* The failed sends are as many as were added, one by one.
LEMMA FailedFacts ==
    ASSUME faults \in Seq(FaultKinds)
    PROVE  /\ IsFiniteSet(Failed) /\ Cardinality(Failed) \in Nat
           /\ \A kind \in FaultKinds :
                faults' = Append(faults, kind) =>
                    Cardinality(Failed') = Cardinality(Failed) + One(kind = "fail_sensor")
<1>1. Len(faults) \in Nat /\ DOMAIN faults = 1 .. Len(faults)
  OBVIOUS
<1>2. IsFiniteSet(1 .. Len(faults)) /\ Failed \subseteq 1 .. Len(faults)
  BY <1>1, FS_Interval DEF Failed
<1>3. IsFiniteSet(Failed) /\ Cardinality(Failed) \in Nat
  BY <1>2, FS_Subset, FS_CardinalityType
<1>4. ASSUME NEW kind \in FaultKinds, faults' = Append(faults, kind)
      PROVE  Cardinality(Failed') = Cardinality(Failed) + One(kind = "fail_sensor")
  <2>1. Failed' = IF kind = "fail_sensor" THEN Failed \union {Len(faults) + 1} ELSE Failed
    BY <1>4, FaultFacts
  <2>2. Len(faults) + 1 \notin Failed
    BY <1>1, <1>2
  <2>3. CASE kind = "fail_sensor"
    <3>1. Cardinality(Failed \union {Len(faults) + 1}) = Cardinality(Failed) + 1
      BY <1>3, <2>2, FS_AddElement
    <3> QED BY <2>1, <2>3, <3>1 DEF One
  <2>4. CASE kind # "fail_sensor"
    BY <1>3, <2>1, <2>4 DEF One
  <2> QED BY <2>3, <2>4
<1> QED BY <1>3, <1>4

\* A datagram is added to the ones under way.
LEMMA PutFacts ==
    ASSUME NEW bag, Bagged(bag), NEW m
    PROVE  Load(bag) \in Nat /\ Bagged(Put(bag, m)) /\ Load(Put(bag, m)) = Load(bag) + 1
<1> DEFINE n == IF m \in DOMAIN bag THEN bag[m] ELSE 0
           new == Put(bag, m)
<1>1. n \in Nat
  BY DEF Bagged
<1>2. /\ DOMAIN new = (DOMAIN bag) \union {m}
      /\ new[m] = n + 1 /\ \A d \in DOMAIN bag : d # m => new[d] = bag[d]
      /\ new = [d \in DOMAIN new |-> new[d]]
  BY DEF Put, SetToBag, (+), Bagged
<1> HIDE DEF new
<1>3. new \in [DOMAIN new -> Nat] /\ \A d \in DOMAIN new : new[d] > 0
  <2>1. ASSUME NEW d \in DOMAIN new PROVE new[d] \in Nat /\ new[d] > 0
    <3>1. CASE d = m BY <1>1, <1>2, <3>1
    <3>2. CASE d # m BY <1>2, <3>2 DEF Bagged
    <3> QED BY <3>1, <3>2
  <2> QED BY <1>2, <2>1
<1>4. <<m, n + 1>> \notin Copies(bag)
  BY <1>1 DEF Copies, Bagged
<1>5. Copies(new) = Copies(bag) \union {<<m, n + 1>>}
  <2>1. ASSUME NEW d, NEW i \in Nat
        PROVE  <<d, i>> \in Copies(new) <=> <<d, i>> \in Copies(bag) \/ (d = m /\ i = n + 1)
    <3>1. <<d, i>> \in Copies(new) <=> d \in DOMAIN new /\ i >= 1 /\ i <= new[d]
      BY DEF Copies
    <3>2. <<d, i>> \in Copies(bag) <=> d \in DOMAIN bag /\ i >= 1 /\ i <= bag[d]
      BY DEF Copies
    <3>3. CASE d # m BY <1>2, <3>1, <3>2, <3>3
    <3>4. CASE d = m
      <4>1. <<d, i>> \in Copies(new) <=> i >= 1 /\ i <= n + 1
        BY <1>2, <3>1, <3>4
      <4>2. <<d, i>> \in Copies(bag) <=> i >= 1 /\ i <= n
        BY <3>2, <3>4
      <4> QED BY <1>1, <3>4, <4>1, <4>2
    <3> QED BY <3>3, <3>4
  <2>2. ASSUME NEW c \in Copies(new) PROVE c \in Copies(bag) \union {<<m, n + 1>>}
    <3>1. PICK d \in DOMAIN new, i \in Nat : c = <<d, i>> BY DEF Copies
    <3> QED BY <2>1, <3>1
  <2>3. ASSUME NEW c \in Copies(bag) PROVE c \in Copies(new)
    <3>1. PICK d \in DOMAIN bag, i \in Nat : c = <<d, i>> BY DEF Copies
    <3> QED BY <2>1, <3>1
  <2>4. <<m, n + 1>> \in Copies(new)
    BY <1>1, <2>1
  <2> QED BY <2>2, <2>3, <2>4
<1>6. IsFiniteSet(Copies(bag)) /\ Load(bag) \in Nat
  BY FS_CardinalityType DEF Bagged, Load
<1>7. IsFiniteSet(Copies(new)) /\ Cardinality(Copies(new)) = Cardinality(Copies(bag)) + 1
  <2> DEFINE old == Copies(bag)
             c == <<m, n + 1>>
  <2>1. IsFiniteSet(old) /\ c \notin old /\ Copies(new) = old \union {c}
    BY <1>4, <1>5, <1>6
  <2> HIDE DEF old, c
  <2>2. IsFiniteSet(old \union {c}) /\ Cardinality(old \union {c}) = Cardinality(old) + 1
    BY <2>1, FS_AddElement
  <2> QED BY <2>1, <2>2 DEF old
<1> QED BY <1>3, <1>6, <1>7 DEF Bagged, Load, new

\* A datagram is taken from the ones under way.
LEMMA TakeFacts ==
    ASSUME NEW bag, Bagged(bag), NEW m \in BagToSet(bag)
    PROVE  /\ Bagged(Take(bag, m)) /\ Load(bag) \in Nat /\ Load(bag) > 0
           /\ Load(Take(bag, m)) = Load(bag) - 1
<1> DEFINE n == bag[m]
           new == Take(bag, m)
<1>1. n \in Nat /\ n > 0 /\ m \in DOMAIN bag
  BY DEF Bagged, BagToSet
<1>2. /\ DOMAIN new = {d \in DOMAIN bag : d # m \/ n > 1}
      /\ n > 1 => new[m] = n - 1
      /\ \A d \in DOMAIN bag : d # m => new[d] = bag[d]
      /\ new = [d \in DOMAIN new |-> new[d]]
  <2> DEFINE less == [d \in DOMAIN bag |-> IF d \in DOMAIN SetToBag({m}) THEN bag[d] - SetToBag({m})[d] ELSE bag[d]]
  <2>1. DOMAIN SetToBag({m}) = {m} /\ SetToBag({m})[m] = 1
    BY DEF SetToBag
  <2>2. new = [d \in {e \in DOMAIN less : less[e] > 0} |-> less[d]]
    BY DEF Take, (-)
  <2>3. DOMAIN less = DOMAIN bag /\ less[m] = n - 1 /\ \A d \in DOMAIN bag : d # m => less[d] = bag[d]
    BY <1>1, <2>1
  <2> HIDE DEF less, new
  <2>4. \A d \in DOMAIN bag : d # m => bag[d] > 0
    BY DEF Bagged
  <2>5. \A d \in DOMAIN bag : less[d] > 0 <=> (d # m \/ n > 1)
    BY <1>1, <2>3, <2>4
  <2>6. DOMAIN new = {d \in DOMAIN bag : d # m \/ n > 1}
    BY <2>2, <2>3, <2>5
  <2> QED BY <1>1, <2>2, <2>3, <2>6
<1> HIDE DEF new
<1>3. new \in [DOMAIN new -> Nat] /\ \A d \in DOMAIN new : new[d] > 0
  <2>1. ASSUME NEW d \in DOMAIN new PROVE new[d] \in Nat /\ new[d] > 0
    <3>1. CASE d = m BY <1>1, <1>2, <3>1
    <3>2. CASE d # m BY <1>2, <3>2 DEF Bagged
    <3> QED BY <3>1, <3>2
  <2> QED BY <1>2, <2>1
<1>4. <<m, n>> \in Copies(bag)
  BY <1>1 DEF Copies
<1>5. Copies(new) = Copies(bag) \ {<<m, n>>}
  <2>1. ASSUME NEW d, NEW i \in Nat
        PROVE  <<d, i>> \in Copies(new) <=> <<d, i>> \in Copies(bag) /\ ~ (d = m /\ i = n)
    <3>1. <<d, i>> \in Copies(new) <=> d \in DOMAIN new /\ i >= 1 /\ i <= new[d]
      BY DEF Copies
    <3>2. <<d, i>> \in Copies(bag) <=> d \in DOMAIN bag /\ i >= 1 /\ i <= bag[d]
      BY DEF Copies
    <3>3. CASE d # m BY <1>2, <3>1, <3>2, <3>3
    <3>4. CASE d = m
      <4>1. <<d, i>> \in Copies(new) <=> i >= 1 /\ i <= n - 1
        BY <1>1, <1>2, <3>1, <3>4
      <4>2. <<d, i>> \in Copies(bag) <=> i >= 1 /\ i <= n
        BY <1>1, <3>2, <3>4
      <4> QED BY <1>1, <3>4, <4>1, <4>2
    <3> QED BY <3>3, <3>4
  <2>2. ASSUME NEW c \in Copies(new) PROVE c \in Copies(bag) \ {<<m, n>>}
    <3>1. PICK d \in DOMAIN new, i \in Nat : c = <<d, i>> BY DEF Copies
    <3> QED BY <2>1, <3>1
  <2>3. ASSUME NEW c \in Copies(bag), c # <<m, n>> PROVE c \in Copies(new)
    <3>1. PICK d \in DOMAIN bag, i \in Nat : c = <<d, i>> BY DEF Copies
    <3> QED BY <2>1, <2>3, <3>1
  <2> QED BY <2>2, <2>3
<1>6. IsFiniteSet(Copies(bag)) /\ Load(bag) \in Nat
  BY FS_CardinalityType DEF Bagged, Load
<1>7. IsFiniteSet(Copies(new)) /\ Cardinality(Copies(new)) = Cardinality(Copies(bag)) - 1
  BY <1>4, <1>5, <1>6, FS_RemoveElement
<1>8. Load(bag) > 0
  <2>1. IsFiniteSet(Copies(new)) /\ Cardinality(Copies(new)) \in Nat
    BY <1>7, FS_CardinalityType
  <2> QED BY <1>6, <1>7, <2>1 DEF Load
<1> QED BY <1>3, <1>6, <1>7, <1>8 DEF Bagged, Load, new

\* Nothing under way.
LEMMA EmptyFacts ==
    /\ Bagged(EmptyBag) /\ Load(EmptyBag) = 0
    /\ \A bag : Bagged(bag) /\ Load(bag) = 0 => BagToSet(bag) = {} /\ bag = EmptyBag
<1>1. DOMAIN EmptyBag = {} /\ EmptyBag = [d \in {} |-> 1]
  BY DEF EmptyBag, SetToBag
<1>2. Copies(EmptyBag) = {}
  BY <1>1 DEF Copies
<1>3. Bagged(EmptyBag) /\ Load(EmptyBag) = 0
  <2>1. IsFiniteSet({}) /\ Cardinality({}) = 0 BY FS_EmptySet
  <2>2. EmptyBag \in [DOMAIN EmptyBag -> Nat] BY <1>1
  <2> QED BY <1>1, <1>2, <2>1, <2>2 DEF Bagged, Load
<1>4. ASSUME NEW bag, Bagged(bag), Load(bag) = 0 PROVE BagToSet(bag) = {} /\ bag = EmptyBag
  <2>1. ASSUME NEW m \in BagToSet(bag) PROVE FALSE
    <3>1. Load(bag) > 0 /\ Load(bag) \in Nat BY <1>4, <2>1, TakeFacts
    <3> QED BY <1>4, <3>1
  <2>2. BagToSet(bag) = {} BY <2>1
  <2>3. DOMAIN bag = {} /\ bag \in [DOMAIN bag -> Nat] BY <1>4, <2>2 DEF Bagged, BagToSet
  <2>4. bag = EmptyBag BY <1>1, <2>3
  <2> QED BY <2>2, <2>4
<1> QED
  BY <1>3, <1>4

\* The session after an answer: the reply is yet to be sent.
LEMMA AnsweredMarks ==
    ASSUME Shaped(session, SessionFields), NEW m, NEW in, NEW result
    PROVE  LET s == Answered(m, in, result)
           IN  ~s.reply_transmitted /\ s.integrity = session.integrity
<1> DEFINE ack == project_ack(result.acks)
           reply == Reply(m.tick, up_rx.logical_received, result.delta, result.state.mode,
                          result.state.terminal.reason, ack, in.staleness)
           record == Record(m.tick, in.held, in.fresh, reply)
           seen == IF m.sim_reason # NoReason THEN m.sim_reason ELSE session.sim_seen
           none == FALSE
           s == Answered(m, in, result)
           base == [session EXCEPT !.state = result.state, !.held = in.held, !.sim_seen = seen,
                       !.newest_answered = m.tick, !.last_payload = m, !.reply = reply,
                       !.record = record, !.reply_transmitted = none]
<1>1. s = base
  BY Zenon DEF Answered
<1> HIDE DEF ack, reply, record, seen, none, s
<1>2. s["reply_transmitted"] = none /\ s["integrity"] = session["integrity"]
  BY <1>1 DEF Shaped, SessionFields
<1> QED
  BY Zenon, <1>2 DEF s, none

\* What an attempt to send adds to the counts c, giving d.
Sent(F, c, d, original, success, again) ==
    /\ d \in [F -> Int]
    /\ d.transmitted = c.transmitted + One(success)
    /\ d.tx_fail = c.tx_fail + One(~success)
    /\ d.send_pending = c.send_pending /\ d.generated = c.generated
    /\ d.not_attempted = c.not_attempted - One(original)
    /\ d.never_transmitted = c.never_transmitted - One(success /\ ~again)
    /\ \A k \in F \ SendFields : d[k] = c[k]

\* The counts of an attempt to send: BeginSend and FinishSend together.
LEMMA SendCounts ==
    ASSUME NEW F, SendFields \subseteq F, NEW c \in [F -> Int],
           NEW original \in BOOLEAN, NEW success \in BOOLEAN, NEW again
    PROVE  Sent(F, c, FinishSend(BeginSend(c, original), success, again), original, success, again)
<1> DEFINE b == BeginSend(c, original)
           e == Down(b, {"send_pending"})
           d == FinishSend(b, success, again)
<1>1. /\ b \in [F -> Int]
      /\ \A k \in F : b[k] = IF k \in {"send_attempts", "send_pending"} THEN c[k] + 1
                             ELSE IF k = "original_attempts" /\ original THEN c[k] + 1
                             ELSE IF k = "retry_attempts" /\ ~original THEN c[k] + 1
                             ELSE IF k = "not_attempted" /\ original THEN c[k] - 1 ELSE c[k]
  <2> DEFINE u == Up(c, {"send_attempts", "send_pending", "original_attempts"})
             w == Up(c, {"send_attempts", "send_pending", "retry_attempts"})
  <2>1. /\ u \in [F -> Int] /\ w \in [F -> Int]
        /\ \A k \in F : u[k] = IF k \in {"send_attempts", "send_pending", "original_attempts"} THEN c[k] + 1 ELSE c[k]
        /\ \A k \in F : w[k] = IF k \in {"send_attempts", "send_pending", "retry_attempts"} THEN c[k] + 1 ELSE c[k]
    BY TallyFacts
  <2> HIDE DEF u, w
  <2>2. /\ Down(u, {"not_attempted"}) \in [F -> Int]
        /\ \A k \in F : Down(u, {"not_attempted"})[k] = IF k \in {"not_attempted"} THEN u[k] - 1 ELSE u[k]
    BY <2>1, TallyFacts
  <2>3. b = IF original THEN Down(u, {"not_attempted"}) ELSE w
    BY DEF BeginSend, u, w
  <2> HIDE DEF b
  <2>4. CASE original BY <2>1, <2>2, <2>3, <2>4
  <2>5. CASE ~original BY <2>1, <2>3, <2>5
  <2> QED BY <2>4, <2>5
<1> HIDE DEF b
<1>2. /\ e \in [F -> Int]
      /\ \A k \in F : e[k] = IF k \in {"send_pending"} THEN b[k] - 1 ELSE b[k]
  BY <1>1, TallyFacts
<1> HIDE DEF e
<1>3. /\ d \in [F -> Int]
      /\ \A k \in F : d[k] = IF k = "tx_fail" /\ ~success THEN e[k] + 1
                             ELSE IF k = "transmitted" /\ success THEN e[k] + 1
                             ELSE IF k = "additional_copies" /\ success /\ again THEN e[k] + 1
                             ELSE IF k = "first_transmitted" /\ success /\ ~again THEN e[k] + 1
                             ELSE IF k = "never_transmitted" /\ success /\ ~again THEN e[k] - 1
                             ELSE e[k]
  <2> DEFINE u == Up(e, {"tx_fail"})
             v == Up(e, {"transmitted", "additional_copies"})
             w == Up(e, {"transmitted", "first_transmitted"})
             x == Down(w, {"never_transmitted"})
  <2>1. /\ u \in [F -> Int] /\ v \in [F -> Int] /\ w \in [F -> Int]
        /\ \A k \in F : u[k] = IF k \in {"tx_fail"} THEN e[k] + 1 ELSE e[k]
        /\ \A k \in F : v[k] = IF k \in {"transmitted", "additional_copies"} THEN e[k] + 1 ELSE e[k]
        /\ \A k \in F : w[k] = IF k \in {"transmitted", "first_transmitted"} THEN e[k] + 1 ELSE e[k]
    BY <1>2, TallyFacts
  <2> HIDE DEF w
  <2>2. x \in [F -> Int] /\ \A k \in F : x[k] = IF k \in {"never_transmitted"} THEN w[k] - 1 ELSE w[k]
    BY <2>1, TallyFacts
  <2>3. d = IF ~success THEN u ELSE IF again THEN v ELSE x
    BY DEF FinishSend, e, w
  <2> HIDE DEF u, v, x, d
  <2>4. CASE ~success BY <2>1, <2>3, <2>4
  <2>5. CASE success /\ again BY <2>1, <2>3, <2>5
  <2>6. CASE success /\ ~again BY <2>1, <2>2, <2>3, <2>6
  <2> QED BY <2>4, <2>5, <2>6
<1> HIDE DEF d
<1>4. Sent(F, c, d, original, success, again)
  BY <1>1, <1>2, <1>3 DEF Sent, SendFields, One
<1> QED
  BY <1>4 DEF d, b

\* The counts of a new datagram.
LEMMA GenerateCounts ==
    ASSUME NEW F, SendFields \subseteq F, NEW c \in [F -> Int], NEW g, g = Generate(c)
    PROVE  /\ g.generated = c.generated + 1 /\ g.not_attempted = c.not_attempted + 1
           /\ g.never_transmitted = c.never_transmitted + 1
           /\ \A k \in F \ {"generated", "not_attempted", "never_transmitted"} : g[k] = c[k]
<1>1. \A k \in F : g[k] = IF k \in {"generated", "not_attempted", "never_transmitted"}
                           THEN c[k] + 1 ELSE c[k]
  BY TallyFacts DEF Generate
<1> QED BY <1>1 DEF SendFields

\* All counters are integers.
LEMMA CountTypes ==
    ASSUME LockstepInv
    PROVE  /\ \A k \in SendFields : up_tx[k] \in Int /\ down_tx[k] \in Int
           /\ \A k \in UpRxFields : up_rx[k] \in Int
           /\ \A k \in DownRxFields : down_rx[k] \in Int
           /\ \A k \in EventFields : events[k] \in Int
           /\ down_tx.original_tx_fail \in Int
  BY DEF LockstepInv, Tallies

\* The gaps of links that a step leaves alone.
LEMMA GapsSame ==
    /\ UNCHANGED <<up_tx, up_rx, uplink>> => UpGap' = UpGap
    /\ UNCHANGED <<down_tx, down_rx, downlink>> => DownGap' = DownGap
  BY DEF UpGap, DownGap

\* The gaps are integers.
LEMMA GapTypes ==
    ASSUME LockstepInv, Loads
    PROVE  UpGap \in Nat /\ DownGap \in Nat /\ Load(uplink) \in Nat /\ Load(downlink) \in Nat
<1>1. Load(uplink) \in Nat /\ Load(downlink) \in Nat
  BY PutFacts DEF Loads
<1>2. /\ up_tx.transmitted \in Int /\ down_tx.transmitted \in Int
      /\ up_rx.received_raw \in Int /\ down_rx.received_raw \in Int
  BY CountTypes DEF SendFields, UpRxFields, DownRxFields
<1> QED BY <1>1, <1>2 DEF Loads, UpGap, DownGap

\* What an attempt to send the sample counts: a copy to a closed port is missing.
LEMMA SendSampleEffects ==
    ASSUME LockstepInv, Loads, SendSample
    PROVE  \E success \in BOOLEAN :
             /\ up_tx'.tx_fail = up_tx.tx_fail + One(~success)
             /\ up_tx'.send_pending = up_tx.send_pending /\ up_tx'.generated = up_tx.generated
             /\ up_tx'.not_attempted = up_tx.not_attempted - One(attempt = 0)
             /\ up_tx'.never_transmitted = up_tx.never_transmitted - One(success /\ ~logged)
             /\ Bagged(uplink') /\ UpGap' = UpGap + One(success /\ vpc = "exited")
             /\ BagToSet(uplink') \subseteq BagToSet(uplink) \union {frame}
             /\ BagToSet(uplink) \subseteq BagToSet(uplink')
             /\ ~success => uplink' = uplink
             /\ logged' = (logged \/ success) /\ sim_refused' = (success /\ vpc = "exited")
             /\ \/ success /\ ~sim_refused /\ faults' = faults
                \/ ~success /\ sim_refused /\ faults' = faults
                \/ ~success /\ ~sim_refused /\ faults' = Append(faults, "fail_sensor")
<1>1. PICK success \in BOOLEAN :
        /\ \/ success /\ ~sim_refused /\ UNCHANGED faults
           \/ ~success /\ sim_refused /\ UNCHANGED faults
           \/ ~success /\ ~sim_refused /\ Fault("fail_sensor")
        /\ up_tx' = FinishSend(BeginSend(up_tx, attempt = 0), success, logged)
        /\ logged' = (logged \/ success)
        /\ uplink' = IF success /\ vpc # "exited" THEN Put(uplink, frame) ELSE uplink
        /\ sim_refused' = (success /\ vpc = "exited")
  BY DEF SendSample
<1>2. up_rx' = up_rx
  BY DEF SendSample, vehicle, vehCounts
<1> DEFINE original == attempt = 0
           d == FinishSend(BeginSend(up_tx, original), success, logged)
<1>3. up_tx \in [SendFields -> Int] /\ original \in BOOLEAN /\ SendFields \subseteq SendFields
  BY DEF LockstepInv, Tallies
<1>4. up_tx' = d
  BY <1>1
<1> HIDE DEF original, d
<1>5. /\ d.transmitted = up_tx.transmitted + One(success)
      /\ d.tx_fail = up_tx.tx_fail + One(~success)
      /\ d.send_pending = up_tx.send_pending /\ d.generated = up_tx.generated
      /\ d.not_attempted = up_tx.not_attempted - One(original)
      /\ d.never_transmitted = up_tx.never_transmitted - One(success /\ ~logged)
  <2>1. d = FinishSend(BeginSend(up_tx, original), success, logged) BY DEF d
  <2>2. Sent(SendFields, up_tx, d, original, success, logged) BY <1>3, <2>1, SendCounts
  <2> QED BY <2>2 DEF Sent
<1>6. /\ Bagged(uplink') /\ Load(uplink) \in Nat
      /\ Load(uplink') = Load(uplink) + One(success /\ vpc # "exited")
  BY <1>1, PutFacts DEF Loads, One
<1>7. up_tx.transmitted \in Int /\ up_rx.received_raw \in Int
  BY CountTypes DEF SendFields, UpRxFields
<1>8. UpGap' = UpGap + One(success /\ vpc = "exited")
  BY <1>2, <1>4, <1>5, <1>6, <1>7 DEF UpGap, One
<1>9. /\ BagToSet(uplink') \subseteq BagToSet(uplink) \union {frame}
      /\ BagToSet(uplink) \subseteq BagToSet(uplink')
  BY <1>1, BagFacts
<1>10. \/ success /\ ~sim_refused /\ faults' = faults
       \/ ~success /\ sim_refused /\ faults' = faults
       \/ ~success /\ ~sim_refused /\ faults' = Append(faults, "fail_sensor")
  BY <1>1 DEF Fault
<1> QED
  BY <1>1, <1>4, <1>5, <1>6, <1>8, <1>9, <1>10 DEF original

\* The fault of a reply that the socket did not take: the first copy, or a repeat.
FailedReply ==
    \/ vpc = "reply" /\ faults' = Append(faults, "original_reply")
    \/ vpc # "reply" /\ faults' = Append(faults, "reply")

\* What sending the reply counts.
LEMMA SendReplyEffects ==
    ASSUME LockstepInv, Loads, SendReply
    PROVE  \E success, pushed \in BOOLEAN :
             /\ success => ~veh_refused
             /\ \/ (success \/ veh_refused) /\ pushed /\ faults' = faults
                \/ ~success /\ ~veh_refused /\ pushed /\ FailedReply
                \/ ~pushed /\ faults' = Append(faults, "ring")
             /\ vpc = "reply" \/ pushed
             /\ down_tx'.send_pending = down_tx.send_pending /\ down_tx'.generated = down_tx.generated
             /\ down_tx'.not_attempted = down_tx.not_attempted - One(vpc = "reply")
             /\ down_tx'.never_transmitted =
                    down_tx.never_transmitted - One(success /\ ~session.reply_transmitted)
             /\ down_tx'.original_tx_fail = down_tx.original_tx_fail + One(vpc = "reply" /\ ~success)
             /\ Bagged(downlink') /\ DownGap' = DownGap + One(success /\ spc = "done")
             /\ BagToSet(downlink') \subseteq BagToSet(downlink) \union {session.reply}
             /\ BagToSet(downlink) \subseteq BagToSet(downlink')
             /\ veh_refused' = (success /\ spc = "done")
             /\ events'.ring_drops = events.ring_drops + One(~pushed)
             /\ events'.record_pending = events.record_pending - One(vpc = "reply")
             /\ SameAnswer /\ session'.fault = session.fault /\ session'.integrity = session.integrity
             /\ session'.reply_transmitted <=> session.reply_transmitted \/ success
<1> DEFINE original == vpc = "reply"
           F == SendFields \union {"original_tx_fail"}
<1>1. PICK success \in BOOLEAN, pushed \in BOOLEAN :
         /\ success => ~veh_refused
         /\ original \/ pushed
         /\ \/ (success \/ veh_refused) /\ pushed /\ UNCHANGED faults
            \/ /\ ~success /\ ~veh_refused /\ pushed
               /\ Fault(IF original THEN "original_reply" ELSE "reply")
            \/ (success \/ veh_refused) /\ ~pushed /\ Fault("ring")
         /\ LET sent == FinishSend(BeginSend(down_tx, original), success, session.reply_transmitted)
            IN  down_tx' = IF original /\ ~success THEN Up(sent, {"original_tx_fail"}) ELSE sent
         /\ session' = [session EXCEPT !.reply_transmitted = @ \/ success]
         /\ downlink' = IF success /\ spc # "done" THEN Put(downlink, session.reply) ELSE downlink
         /\ veh_refused' = (success /\ spc = "done")
         /\ events' = IF ~original THEN events
                      ELSE Down(Up(events, {"record_attempts",
                                            IF pushed THEN "records_pushed" ELSE "ring_drops"}),
                                {"record_pending"})
  BY DEF SendReply
<1>2. down_rx' = down_rx
  BY DEF SendReply, sim, simCounts
<1> DEFINE sent == FinishSend(BeginSend(down_tx, original), success, session.reply_transmitted)
           more == Up(sent, {"original_tx_fail"})
<1>3. down_tx \in [F -> Int] /\ original \in BOOLEAN /\ SendFields \subseteq F
  BY DEF LockstepInv, Tallies
<1> HIDE DEF original, F, sent
<1>4. /\ sent \in [F -> Int]
      /\ sent.transmitted = down_tx.transmitted + One(success)
      /\ sent.send_pending = down_tx.send_pending /\ sent.generated = down_tx.generated
      /\ sent.not_attempted = down_tx.not_attempted - One(original)
      /\ sent.never_transmitted = down_tx.never_transmitted - One(success /\ ~session.reply_transmitted)
      /\ \A k \in F \ SendFields : sent[k] = down_tx[k]
  <2> DEFINE was == session.reply_transmitted
  <2>1. sent = FinishSend(BeginSend(down_tx, original), success, was) BY DEF sent
  <2> HIDE DEF was
  <2>2. Sent(F, down_tx, sent, original, success, was)
    BY <1>3, <2>1, SendCounts
  <2> QED BY <2>2 DEF Sent, was
<1>5. down_tx' = IF original /\ ~success THEN more ELSE sent
  BY <1>1 DEF sent, original
<1> USE DEF F
<1>6. /\ \A k \in F : more[k] = IF k \in {"original_tx_fail"} THEN sent[k] + 1 ELSE sent[k]
  BY <1>4, TallyFacts
<1> HIDE DEF more
<1>7. /\ down_tx'.transmitted = down_tx.transmitted + One(success)
      /\ down_tx'.send_pending = down_tx.send_pending /\ down_tx'.generated = down_tx.generated
      /\ down_tx'.not_attempted = down_tx.not_attempted - One(original)
      /\ down_tx'.never_transmitted = down_tx.never_transmitted - One(success /\ ~session.reply_transmitted)
  BY <1>4, <1>5, <1>6 DEF SendFields
<1>8. down_tx'.original_tx_fail = down_tx.original_tx_fail + One(original /\ ~success)
  <2>1. sent.original_tx_fail = down_tx.original_tx_fail /\ down_tx.original_tx_fail \in Int
    BY <1>3, <1>4 DEF SendFields
  <2> QED BY <1>5, <1>6, <2>1 DEF One
<1>9. /\ Bagged(downlink') /\ Load(downlink) \in Nat
      /\ Load(downlink') = Load(downlink) + One(success /\ spc # "done")
  BY <1>1, PutFacts DEF Loads, One
<1>10. down_tx.transmitted \in Int /\ down_rx.received_raw \in Int
  BY CountTypes DEF SendFields, DownRxFields
<1>11. DownGap' = DownGap + One(success /\ spc = "done")
  BY <1>2, <1>7, <1>9, <1>10 DEF DownGap, One
<1>12. /\ BagToSet(downlink') \subseteq BagToSet(downlink) \union {session.reply}
       /\ BagToSet(downlink) \subseteq BagToSet(downlink')
  BY <1>1, BagFacts
<1>13. /\ \/ (success \/ veh_refused) /\ pushed /\ faults' = faults
          \/ ~success /\ ~veh_refused /\ pushed /\ FailedReply
          \/ ~pushed /\ faults' = Append(faults, "ring")
  <2>1. CASE original
    BY <1>1, <2>1 DEF Fault, FailedReply, original
  <2>2. CASE ~original
    BY <1>1, <2>2 DEF Fault, FailedReply, original
  <2> QED BY <2>1, <2>2
<1>14. /\ events'.ring_drops = events.ring_drops + One(~pushed)
       /\ events'.record_pending = events.record_pending - One(original)
  <2> DEFINE what == IF pushed THEN "records_pushed" ELSE "ring_drops"
             u == Up(events, {"record_attempts", what})
             d == Down(u, {"record_pending"})
  <2>1. events \in [EventFields -> Int]
    BY DEF LockstepInv, Tallies
  <2>2. events' = IF ~original THEN events ELSE d
    BY <1>1
  <2>3. \/ what = "records_pushed" /\ pushed
        \/ what = "ring_drops" /\ ~pushed
    OBVIOUS
  <2> HIDE DEF what
  <2>4. /\ u \in [EventFields -> Int]
        /\ \A k \in EventFields : u[k] = IF k \in {"record_attempts", what} THEN events[k] + 1 ELSE events[k]
    BY <2>1, TallyFacts
  <2> HIDE DEF u
  <2>5. \A k \in EventFields : d[k] = IF k \in {"record_pending"} THEN u[k] - 1 ELSE u[k]
    BY <2>4, TallyFacts
  <2> HIDE DEF d
  <2>6. CASE ~original
    <3>1. pushed BY <1>1, <2>6
    <3>2. events.ring_drops \in Int /\ events.record_pending \in Int BY <2>1 DEF EventFields
    <3> QED BY <2>2, <2>6, <3>1, <3>2 DEF One
  <2>7. CASE original
    BY <2>1, <2>2, <2>3, <2>4, <2>5, <2>7 DEF EventFields, One
  <2> QED BY <2>6, <2>7
<1>15. SameAnswer /\ session'.fault = session.fault /\ session'.integrity = session.integrity
  BY <1>1 DEF SameAnswer, LockstepInv, Types, Shaped, SessionFields
<1>16. session'.reply_transmitted <=> session.reply_transmitted \/ success
  <2> DEFINE sets == session.reply_transmitted \/ success
  <2>1. session' = [session EXCEPT !.reply_transmitted = sets]
    BY <1>1
  <2>2. Shaped(session, SessionFields)
    BY DEF LockstepInv, Types
  <2> HIDE DEF sets
  <2>3. session'["reply_transmitted"] = sets
    BY <2>1, <2>2 DEF Shaped, SessionFields
  <2> QED BY Zenon, <2>3 DEF sets
<1> HIDE DEF F
<1> USE DEF original
<1> QED
  BY <1>1, <1>7, <1>8, <1>9, <1>11, <1>12, <1>13, <1>14, <1>15, <1>16

\* Of the datagrams under way, only the received one may be gone.
LEMMA RestStays ==
    ASSUME NEW bag, Bagged(bag), NEW m, NEW other \in BagToSet(bag), other # m
    PROVE  other \in BagToSet(Take(bag, m))
<1> DEFINE one == SetToBag({m})
           less == [d \in DOMAIN bag |-> IF d \in DOMAIN one THEN bag[d] - one[d] ELSE bag[d]]
<1>1. DOMAIN one = {m} /\ other \in DOMAIN bag /\ bag[other] > 0
  BY DEF SetToBag, BagToSet, Bagged
<1>2. Take(bag, m) = [d \in {e \in DOMAIN less : less[e] > 0} |-> less[d]]
  BY DEF Take, (-)
<1>3. other \in DOMAIN less /\ less[other] = bag[other]
  BY <1>1
<1> HIDE DEF less
<1> QED BY <1>1, <1>2, <1>3 DEF BagToSet

\* What a receipt that is not this tick's reply counts.
LEMMA RecvOtherEffects ==
    ASSUME LockstepInv, Loads, NEW m \in BagToSet(downlink), RecvOther(m)
    PROVE  /\ Bagged(downlink') /\ downlink' = Take(downlink, m) /\ DownGap' = DownGap
           /\ down_rx'.malformed = down_rx.malformed + One(~m.sound)
           /\ down_rx'.logical_received = down_rx.logical_received
           /\ UNCHANGED <<uplink, up_tx, up_rx, down_tx, events>> /\ UpGap' = UpGap
           /\ faults' = faults \/ faults' = Append(faults, "drop_actuator")
<1> DEFINE bad == {"received_raw", "malformed"}
           drop == {"received_raw", "received", "test_discarded", "rejected_received"}
           rest == {"received_raw", "received"} \union
                   IF m = last_reply THEN {"discarded_duplicate"} ELSE {"rejected_received", "discarded_old"}
<1>1. /\ \/ ~m.sound /\ down_rx' = Up(down_rx, bad) /\ faults' = faults
         \/ m.sound /\ down_rx' = Up(down_rx, drop) /\ faults' = Append(faults, "drop_actuator")
         \/ m.sound /\ down_rx' = Up(down_rx, rest) /\ faults' = faults
      /\ downlink' = Take(downlink, m)
  BY DEF RecvOther, Fault
<1>2. UNCHANGED <<uplink, up_tx, up_rx, down_tx, events>>
  BY DEF RecvOther, vehicle, vehCounts
<1>3. down_rx \in [DownRxFields -> Int]
  BY DEF LockstepInv, Tallies
<1>4. /\ "received_raw" \in rest /\ "malformed" \notin rest /\ "logical_received" \notin rest
  OBVIOUS
<1> HIDE DEF rest
<1>5. \A S : \A k \in DownRxFields : Up(down_rx, S)[k] = IF k \in S THEN down_rx[k] + 1 ELSE down_rx[k]
  BY <1>3, TallyFacts
<1>6. /\ down_rx.received_raw \in Int /\ down_rx.malformed \in Int /\ down_rx.logical_received \in Int
      /\ {"received_raw", "malformed", "logical_received"} \subseteq DownRxFields
  BY <1>3 DEF DownRxFields
<1>7. /\ down_rx'.received_raw = down_rx.received_raw + 1
      /\ down_rx'.malformed = down_rx.malformed + One(~m.sound)
      /\ down_rx'.logical_received = down_rx.logical_received
  <2>1. CASE ~m.sound BY <1>1, <1>5, <1>6, <2>1 DEF One
  <2>2. CASE m.sound /\ down_rx' = Up(down_rx, drop) BY <1>5, <1>6, <2>2 DEF One
  <2>3. CASE m.sound /\ down_rx' = Up(down_rx, rest) BY <1>4, <1>5, <1>6, <2>3 DEF One
  <2> QED BY <1>1, <2>1, <2>2, <2>3
<1>8. Bagged(downlink') /\ Load(downlink') = Load(downlink) - 1 /\ Load(downlink) \in Nat
  BY <1>1, TakeFacts DEF Loads
<1>9. down_tx.transmitted \in Int
  BY CountTypes DEF SendFields
<1>10. DownGap' = DownGap
  BY <1>2, <1>6, <1>7, <1>8, <1>9 DEF DownGap
<1> QED
  BY <1>1, <1>2, <1>7, <1>8, <1>10, GapsSame

\* What the accepted reply counts.
LEMMA RecvReplyEffects ==
    ASSUME LockstepInv, Loads, NEW m \in BagToSet(downlink), NEW t \in Truths, RecvReply(m, t)
    PROVE  /\ Bagged(downlink') /\ downlink' = Take(downlink, m) /\ DownGap' = DownGap
           /\ m.sound /\ down_rx'.malformed = down_rx.malformed
           /\ down_rx'.logical_received = down_rx.logical_received + 1
           /\ UNCHANGED <<uplink, up_tx, up_rx, down_tx, events, scode, faults>> /\ UpGap' = UpGap
<1> DEFINE how == IF down_drop THEN "modeled_command_loss" ELSE "forwarded_to_delay"
           S == {"received_raw", "received"} \union {"logical_received", how}
<1>1. m.sound /\ downlink' = Take(downlink, m)
  BY DEF RecvReply
<1>2. m.veh_tick = tick
  <2>1. m = session.reply /\ Newest = tick BY AcceptFacts
  <2> QED BY <2>1 DEF LockstepInv, Turns
<1>3. UNCHANGED <<uplink, up_tx, up_rx, down_tx, events, scode, faults>>
  BY <1>2 DEF RecvReply, vehicle, vehCounts
<1>4. down_rx' = Up(down_rx, S)
  BY Zenon, AcceptFacts
<1>5. how \in {"modeled_command_loss", "forwarded_to_delay"}
  OBVIOUS
<1> HIDE DEF how
<1>6. down_rx \in [DownRxFields -> Int]
  BY DEF LockstepInv, Tallies
<1>7. \A k \in DownRxFields : down_rx'[k] = IF k \in S THEN down_rx[k] + 1 ELSE down_rx[k]
  BY <1>4, <1>6, TallyFacts
<1>8. /\ down_rx.received_raw \in Int /\ down_rx.malformed \in Int /\ down_rx.logical_received \in Int
      /\ {"received_raw", "malformed", "logical_received"} \subseteq DownRxFields
  BY <1>6 DEF DownRxFields
<1>9. /\ down_rx'.received_raw = down_rx.received_raw + 1
      /\ down_rx'.malformed = down_rx.malformed
      /\ down_rx'.logical_received = down_rx.logical_received + 1
  BY <1>5, <1>7, <1>8
<1>10. Bagged(downlink') /\ Load(downlink') = Load(downlink) - 1 /\ Load(downlink) \in Nat
  BY <1>1, TakeFacts DEF Loads
<1>11. down_tx.transmitted \in Int
  BY CountTypes DEF SendFields
<1>12. DownGap' = DownGap
  BY <1>3, <1>8, <1>9, <1>10, <1>11 DEF DownGap
<1> QED
  BY <1>1, <1>3, <1>9, <1>10, <1>12, GapsSame

\* What the vehicle's receipt of a sample counts.
LEMMA ReceiveEffects ==
    ASSUME LockstepInv, Loads, NEW m \in BagToSet(uplink), Receive(m)
    PROVE  /\ Bagged(uplink') /\ uplink' = Take(uplink, m) /\ UpGap' = UpGap
           /\ up_rx'.malformed = up_rx.malformed + One(~m.sound)
           /\ UNCHANGED <<downlink, up_tx, down_rx, scode, faults>> /\ DownGap' = DownGap
           /\ session'.fault = session.fault
           /\ events'.ring_drops = events.ring_drops
           /\ down_tx'.transmitted = down_tx.transmitted /\ down_tx'.send_pending = down_tx.send_pending
           /\ down_tx'.original_tx_fail = down_tx.original_tx_fail
           /\ IF Disposition(m) = "new"
              THEN /\ vpc' = "reply" /\ m.sound /\ ~session'.reply_transmitted
                   /\ session'.integrity = session.integrity
                   /\ down_tx'.generated = down_tx.generated + 1
                   /\ down_tx'.not_attempted = down_tx.not_attempted + 1
                   /\ down_tx'.never_transmitted = down_tx.never_transmitted + 1
                   /\ events'.record_pending = events.record_pending + 1
              ELSE /\ down_tx' = down_tx /\ events' = events /\ SameAnswer
                   /\ vpc' \in {"top", "reply_cached"}
                   /\ vpc' = "reply_cached" => Newest # NoTick
                   /\ m.sound => session' = session
<1> DEFINE S == Receipt(m)
           d == Disposition(m)
           use == IF Usable(m) THEN "admitted" ELSE IF m.valid THEN "sample_nonfinite" ELSE "sample_invalid"
           F == SendFields \union {"original_tx_fail"}
<1>1. d \in {"malformed", "cached", "old", "new"} /\ (m.sound <=> d # "malformed")
  BY DispositionFacts DEF Disposition
<1>2. /\ uplink' = Take(uplink, m) /\ up_rx' = Up(up_rx, S) /\ (ReceiveNew(m) \/ ReceiveOther(m))
      /\ UNCHANGED <<downlink, up_tx, down_rx, scode, faults>>
  BY DEF Receive, sim, simCounts
<1>3. S = CASE d = "malformed" -> {"received_raw", "malformed"}
            [] d = "cached" -> {"received_raw", "received", "discarded_duplicate"}
            [] d = "conflict" ->
                 {"received_raw", "received", "rejected_received", "discarded_tick_conflict"}
            [] d = "old" -> {"received_raw", "received", "rejected_received", "discarded_old"}
            [] d = "skipped" -> {"received_raw", "received", "rejected_received", "skipped_tick"}
            [] d = "new" -> {"received_raw", "received", "logical_received", use}
  BY DEF Receipt
<1>4. use \in {"admitted", "sample_nonfinite", "sample_invalid"}
  OBVIOUS
<1> HIDE DEF S, d, use
<1>5. "received_raw" \in S /\ ("malformed" \in S <=> ~m.sound)
  BY <1>1, <1>3, <1>4
<1>6. up_rx \in [UpRxFields -> Int] /\ up_tx.transmitted \in Int /\ down_tx.transmitted \in Int
  BY CountTypes DEF LockstepInv, Tallies, SendFields
<1>7. \A k \in UpRxFields : up_rx'[k] = IF k \in S THEN up_rx[k] + 1 ELSE up_rx[k]
  BY <1>2, <1>6, TallyFacts
<1>8. /\ up_rx'.malformed = up_rx.malformed + One(~m.sound)
      /\ up_rx'.received_raw = up_rx.received_raw + 1 /\ up_rx.received_raw \in Int
  BY <1>5, <1>6, <1>7 DEF UpRxFields, One
<1>9. Bagged(uplink') /\ Load(uplink') = Load(uplink) - 1 /\ Load(uplink) \in Nat
  BY <1>2, TakeFacts DEF Loads
<1>10. UpGap' = UpGap
  BY <1>2, <1>6, <1>8, <1>9 DEF UpGap
<1>11. down_tx \in [F -> Int] /\ events \in [EventFields -> Int] /\ SendFields \subseteq F
  BY DEF LockstepInv, Tallies
<1>12. CASE d = "new"
  <2> DEFINE in == Intake(frame, sampled)
             result == step(agreed, in)
             T == {"episode_transitions", "record_pending"} \union
                      IF in.fresh /\ result.state.mode = "FLYING" THEN {"pid_calls"} ELSE {}
             s == Answered(frame, in, result)
  <2>1. session' = s /\ events' = Up(events, T) /\ frame.tick = up_rx.logical_received
    BY <1>12, ReceiveNewFacts, DispositionFacts DEF d
  <2>2. "record_pending" \in T /\ "ring_drops" \notin T
    OBVIOUS
  <2>3. down_tx' = Generate(down_tx) /\ vpc' = "reply"
    BY <1>2, <1>12 DEF d, ReceiveNew, ReceiveOther
  <2>4. Shaped(session, SessionFields)
    BY DEF LockstepInv, Types
  <2> HIDE DEF in, result, T, F
  <2>5. ~s.reply_transmitted /\ s.integrity = session.integrity /\ s.fault = session.fault
    BY <2>1, <2>4, AnsweredMarks, AnsweredFacts
  <2> HIDE DEF s
  <2>6. \A k \in EventFields : events'[k] = IF k \in T THEN events[k] + 1 ELSE events[k]
    BY <1>11, <2>1, TallyFacts
  <2>7. events'.ring_drops = events.ring_drops /\ events'.record_pending = events.record_pending + 1
    BY <2>2, <2>6 DEF EventFields
  <2>8. /\ down_tx'.generated = down_tx.generated + 1
        /\ down_tx'.not_attempted = down_tx.not_attempted + 1
        /\ down_tx'.never_transmitted = down_tx.never_transmitted + 1
        /\ \A k \in F \ {"generated", "not_attempted", "never_transmitted"} : down_tx'[k] = down_tx[k]
    BY <1>11, <2>3, GenerateCounts
  <2>9. /\ down_tx'.transmitted = down_tx.transmitted /\ down_tx'.send_pending = down_tx.send_pending
        /\ down_tx'.original_tx_fail = down_tx.original_tx_fail
    BY <2>8 DEF F, SendFields
  <2>10. DownGap' = DownGap
    BY <1>2, <2>9 DEF DownGap
  <2>11. ~session'.reply_transmitted
    BY Zenon, <2>1, <2>5
  <2>12. session'.integrity = session.integrity /\ session'.fault = session.fault
    BY <2>1, <2>5
  <2> QED
    BY <1>1, <1>2, <1>8, <1>9, <1>10, <1>12, <2>3, <2>7, <2>8, <2>9, <2>10, <2>11, <2>12 DEF d
<1>13. CASE d # "new"
  <2>1. /\ session' = IF d = "malformed" THEN [session EXCEPT !.integrity = TRUE] ELSE session
        /\ vpc' = IF d = "cached" THEN "reply_cached" ELSE "top"
        /\ UNCHANGED <<events, down_tx>>
    BY <1>1, <1>2, <1>13 DEF d, ReceiveNew, ReceiveOther
  <2>2. SameAnswer /\ session'.fault = session.fault
    BY <2>1 DEF SameAnswer, LockstepInv, Types, Shaped, SessionFields
  <2>3. d = "cached" => Newest # NoTick
    BY DEF d, Disposition, Newest
  <2>4. DownGap' = DownGap
    BY <1>2, <2>1, GapsSame
  <2> QED
    BY <1>1, <1>2, <1>8, <1>9, <1>10, <1>13, <2>1, <2>2, <2>3, <2>4 DEF d
<1> QED
  BY <1>12, <1>13

\* A lost datagram widens a gap, a garbled one is under way.
LEMMA NetworkEffects ==
    ASSUME LockstepInv, Loads, Lose \/ Corrupt
    PROVE  /\ Bagged(uplink') /\ Bagged(downlink')
           /\ UNCHANGED <<up_tx, up_rx, down_tx, down_rx, events>>
           /\ UpGap' >= UpGap /\ DownGap' >= DownGap
           /\ Lose => (UpGap' > 0 \/ DownGap' > 0) /\ faults' = Append(faults, "lost")
           /\ ~Lose => Damaged' /\ faults' = Append(faults, "corrupt")
<1>1. UNCHANGED <<up_tx, up_rx, down_tx, down_rx, events>>
  BY DEF Lose, Corrupt, sim, simCounts, vehicle, vehCounts
<1>2. /\ up_tx.transmitted \in Int /\ down_tx.transmitted \in Int
      /\ up_rx.received_raw \in Int /\ down_rx.received_raw \in Int
  BY CountTypes DEF SendFields, UpRxFields, DownRxFields
<1>3. Load(uplink) \in Nat /\ Load(downlink) \in Nat /\ UpGap \in Nat /\ DownGap \in Nat
  BY GapTypes
<1>4. ASSUME Lose
      PROVE  /\ Bagged(uplink') /\ Bagged(downlink')
             /\ UpGap' >= UpGap /\ DownGap' >= DownGap
             /\ (UpGap' > 0 \/ DownGap' > 0) /\ faults' = Append(faults, "lost")
  <2>1. CASE \E m \in BagToSet(uplink) : uplink' = Take(uplink, m) /\ UNCHANGED downlink
    <3>1. /\ Bagged(uplink') /\ Load(uplink') = Load(uplink) - 1
          /\ Bagged(downlink') /\ Load(downlink') = Load(downlink)
      BY <2>1, TakeFacts DEF Loads
    <3>2. UpGap' = UpGap + 1 /\ DownGap' = DownGap
      BY <1>1, <1>2, <1>3, <3>1 DEF UpGap, DownGap
    <3> QED BY <1>3, <1>4, <3>1, <3>2 DEF Lose, Fault
  <2>2. CASE \E m \in BagToSet(downlink) : downlink' = Take(downlink, m) /\ UNCHANGED uplink
    <3>1. /\ Bagged(downlink') /\ Load(downlink') = Load(downlink) - 1
          /\ Bagged(uplink') /\ Load(uplink') = Load(uplink)
      BY <2>2, TakeFacts DEF Loads
    <3>2. DownGap' = DownGap + 1 /\ UpGap' = UpGap
      BY <1>1, <1>2, <1>3, <3>1 DEF UpGap, DownGap
    <3> QED BY <1>3, <1>4, <3>1, <3>2 DEF Lose, Fault
  <2> QED BY <1>4, <2>1, <2>2 DEF Lose
<1>5. ASSUME Corrupt
      PROVE  /\ Bagged(uplink') /\ Bagged(downlink') /\ UpGap' = UpGap /\ DownGap' = DownGap
             /\ Damaged' /\ faults' = Append(faults, "corrupt")
  <2>1. ASSUME NEW m \in BagToSet(uplink), uplink' = Put(Take(uplink, m), Garbled(m)), downlink' = downlink
        PROVE  Bagged(uplink') /\ Bagged(downlink') /\ UpGap' = UpGap /\ DownGap' = DownGap /\ Damaged'
    <3> DEFINE rest == Take(uplink, m)
               g == Garbled(m)
    <3>1. Bagged(rest) /\ Load(rest) = Load(uplink) - 1
      BY TakeFacts DEF Loads
    <3>2. ~g.sound
      BY GarbledFacts DEF LockstepInv, Wires, SampleFields
    <3>3. uplink' = Put(rest, g) BY <2>1
    <3> HIDE DEF rest, g
    <3>4. Bagged(uplink') /\ Load(uplink') = Load(rest) + 1 /\ Load(rest) \in Nat
      BY <3>1, <3>3, PutFacts
    <3>5. g \in BagToSet(uplink')
      BY <3>3, BagFacts
    <3>6. UpGap' = UpGap /\ DownGap' = DownGap
      BY <1>1, <1>2, <1>3, <2>1, <3>1, <3>4 DEF UpGap, DownGap
    <3> QED BY <2>1, <3>2, <3>4, <3>5, <3>6 DEF Loads, Damaged
  <2>2. ASSUME NEW m \in BagToSet(downlink), downlink' = Put(Take(downlink, m), Garbled(m)), uplink' = uplink
        PROVE  Bagged(uplink') /\ Bagged(downlink') /\ UpGap' = UpGap /\ DownGap' = DownGap /\ Damaged'
    <3> DEFINE rest == Take(downlink, m)
               g == Garbled(m)
    <3>1. Bagged(rest) /\ Load(rest) = Load(downlink) - 1
      BY TakeFacts DEF Loads
    <3>2. ~g.sound
      BY GarbledFacts DEF LockstepInv, Wires, ReplyFields
    <3>3. downlink' = Put(rest, g) BY <2>2
    <3> HIDE DEF rest, g
    <3>4. Bagged(downlink') /\ Load(downlink') = Load(rest) + 1 /\ Load(rest) \in Nat
      BY <3>1, <3>3, PutFacts
    <3>5. g \in BagToSet(downlink')
      BY <3>3, BagFacts
    <3>6. UpGap' = UpGap /\ DownGap' = DownGap
      BY <1>1, <1>2, <1>3, <2>2, <3>1, <3>4 DEF UpGap, DownGap
    <3> QED BY <2>2, <3>2, <3>4, <3>5, <3>6 DEF Loads, Damaged
  <2> QED BY <1>5, <2>1, <2>2 DEF Corrupt, Fault
<1> QED
  BY <1>1, <1>3, <1>4, <1>5

\* No step hides a loss or a damage from the counters.
Linked ==
    /\ Loads' /\ UpGap' >= UpGap /\ DownGap' >= DownGap
    /\ up_rx'.malformed >= up_rx.malformed /\ down_rx'.malformed >= down_rx.malformed
    /\ events'.ring_drops >= events.ring_drops
    /\ down_tx'.original_tx_fail >= down_tx.original_tx_fail
    /\ Damaged => \/ Damaged' \/ UpGap' > 0 \/ DownGap' > 0
                  \/ up_rx'.malformed > 0 \/ down_rx'.malformed > 0

\* A step that touches neither counters nor sockets.
LEMMA LinkedIdle ==
    ASSUME LockstepInv, Loads, UNCHANGED <<simCounts, vehCounts, uplink, downlink>>
    PROVE  Linked /\ UpGap' = UpGap /\ DownGap' = DownGap
<1>1. UNCHANGED <<up_tx, down_rx, up_rx, down_tx, events, uplink, downlink>>
  BY DEF simCounts, vehCounts
<1>2. UpGap' = UpGap /\ DownGap' = DownGap /\ UpGap \in Int /\ DownGap \in Int
  BY <1>1, GapsSame, GapTypes
<1>3. /\ up_rx.malformed \in Int /\ down_rx.malformed \in Int /\ events.ring_drops \in Int
      /\ down_tx.original_tx_fail \in Int
  BY CountTypes DEF UpRxFields, DownRxFields, EventFields
<1>4. Loads' BY <1>1, <1>2 DEF Loads
<1>5. Damaged' <=> Damaged BY <1>1 DEF Damaged
<1> QED BY <1>1, <1>2, <1>3, <1>4, <1>5 DEF Linked

\* The steps that send, receive, lose or damage.
LEMMA LinkedSteps ==
    ASSUME LockstepInv, Loads,
           \/ SendSample \/ SendReply \/ Lose \/ Corrupt
           \/ \E m \in BagToSet(downlink) : RecvOther(m)
           \/ \E m \in BagToSet(downlink), t \in Truths : RecvReply(m, t)
           \/ \E m \in BagToSet(uplink) : Receive(m)
    PROVE  Linked
<1>1. /\ up_rx.malformed \in Int /\ down_rx.malformed \in Int /\ events.ring_drops \in Int
      /\ up_rx.malformed >= 0 /\ down_rx.malformed >= 0 /\ events.ring_drops >= 0
      /\ down_tx.original_tx_fail \in Int /\ down_tx.original_tx_fail >= 0
      /\ UpGap \in Nat /\ DownGap \in Nat /\ Bagged(uplink) /\ Bagged(downlink)
  BY CountTypes, GapTypes DEF UpRxFields, DownRxFields, EventFields, Loads
<1>2. CASE SendSample
  <2>1. UNCHANGED <<downlink, up_rx, down_rx, down_tx, events>>
    BY <1>2 DEF SendSample, vehicle, vehCounts
  <2>2. /\ Bagged(uplink') /\ UpGap' \in Int /\ UpGap' >= UpGap
        /\ BagToSet(uplink) \subseteq BagToSet(uplink')
    BY <1>1, <1>2, SendSampleEffects DEF One
  <2>3. DownGap' = DownGap BY <2>1, GapsSame
  <2>4. Damaged => Damaged' BY <2>1, <2>2 DEF Damaged
  <2>5. Loads' BY <1>1, <2>1, <2>2, <2>3 DEF Loads
  <2>6. /\ UpGap' >= UpGap /\ DownGap' >= DownGap
        /\ up_rx'.malformed >= up_rx.malformed /\ down_rx'.malformed >= down_rx.malformed
        /\ events'.ring_drops >= events.ring_drops
        /\ down_tx'.original_tx_fail >= down_tx.original_tx_fail
    BY <1>1, <2>1, <2>2, <2>3
  <2> QED BY Zenon, <2>4, <2>5, <2>6 DEF Linked
<1>3. CASE SendReply
  <2>1. UNCHANGED <<uplink, up_tx, up_rx, down_rx>>
    BY <1>3 DEF SendReply, sim, simCounts
  <2>2. /\ Bagged(downlink') /\ DownGap' \in Int /\ DownGap' >= DownGap
        /\ BagToSet(downlink) \subseteq BagToSet(downlink')
        /\ events'.ring_drops \in Int /\ events'.ring_drops >= events.ring_drops
        /\ down_tx'.original_tx_fail \in Int
        /\ down_tx'.original_tx_fail >= down_tx.original_tx_fail
    BY <1>1, <1>3, SendReplyEffects DEF One
  <2>3. UpGap' = UpGap BY <2>1, GapsSame
  <2>4. Damaged => Damaged' BY <2>1, <2>2 DEF Damaged
  <2>5. Loads' BY <1>1, <2>1, <2>2, <2>3 DEF Loads
  <2>6. /\ UpGap' >= UpGap /\ DownGap' >= DownGap
        /\ up_rx'.malformed >= up_rx.malformed /\ down_rx'.malformed >= down_rx.malformed
        /\ events'.ring_drops >= events.ring_drops
        /\ down_tx'.original_tx_fail >= down_tx.original_tx_fail
    BY <1>1, <2>1, <2>2, <2>3
  <2> QED BY Zenon, <2>4, <2>5, <2>6 DEF Linked
<1>4. CASE Lose \/ Corrupt
  <2>1. /\ Bagged(uplink') /\ Bagged(downlink')
        /\ UNCHANGED <<up_tx, up_rx, down_tx, down_rx, events>>
        /\ UpGap' >= UpGap /\ DownGap' >= DownGap
        /\ Lose => UpGap' > 0 \/ DownGap' > 0
        /\ ~Lose => Damaged'
    BY <1>4, NetworkEffects
  <2>2. UpGap' \in Int /\ DownGap' \in Int
    <3>1. /\ up_tx.transmitted \in Int /\ down_tx.transmitted \in Int
          /\ up_rx.received_raw \in Int /\ down_rx.received_raw \in Int
      BY CountTypes DEF SendFields, UpRxFields, DownRxFields
    <3>2. Load(uplink') \in Nat /\ Load(downlink') \in Nat BY <2>1, PutFacts
    <3> QED BY <2>1, <3>1, <3>2 DEF UpGap, DownGap
  <2>3. Loads' BY <1>1, <2>1, <2>2 DEF Loads
  <2>4. /\ up_rx'.malformed >= up_rx.malformed /\ down_rx'.malformed >= down_rx.malformed
        /\ events'.ring_drops >= events.ring_drops
        /\ down_tx'.original_tx_fail >= down_tx.original_tx_fail
    BY <1>1, <2>1
  <2> QED BY Zenon, <2>1, <2>3, <2>4 DEF Linked
<1>5. ASSUME NEW m \in BagToSet(downlink), RecvOther(m) PROVE Linked
  <2>1. /\ Bagged(downlink') /\ downlink' = Take(downlink, m) /\ DownGap' = DownGap
        /\ down_rx'.malformed = down_rx.malformed + One(~m.sound)
        /\ UNCHANGED <<uplink, up_tx, up_rx, down_tx, events>> /\ UpGap' = UpGap
    BY <1>5, RecvOtherEffects
  <2>2. Damaged => Damaged' \/ ~m.sound
    BY <1>1, <2>1, RestStays DEF Damaged
  <2> QED BY <1>1, <2>1, <2>2 DEF Linked, Loads, One
<1>6. ASSUME NEW m \in BagToSet(downlink), NEW t \in Truths, RecvReply(m, t) PROVE Linked
  <2>1. /\ Bagged(downlink') /\ downlink' = Take(downlink, m) /\ DownGap' = DownGap
        /\ m.sound /\ down_rx'.malformed = down_rx.malformed
        /\ UNCHANGED <<uplink, up_tx, up_rx, down_tx, events>> /\ UpGap' = UpGap
    BY <1>6, RecvReplyEffects
  <2>2. Damaged => Damaged'
    BY <1>1, <2>1, RestStays DEF Damaged
  <2> QED BY <1>1, <2>1, <2>2 DEF Linked, Loads
<1>7. ASSUME NEW m \in BagToSet(uplink), Receive(m) PROVE Linked
  <2>1. /\ Bagged(uplink') /\ uplink' = Take(uplink, m) /\ UpGap' = UpGap
        /\ up_rx'.malformed = up_rx.malformed + One(~m.sound)
        /\ UNCHANGED <<downlink, down_rx>> /\ DownGap' = DownGap
        /\ events'.ring_drops = events.ring_drops
        /\ down_tx'.original_tx_fail = down_tx.original_tx_fail
    BY <1>7, ReceiveEffects
  <2>2. Damaged => Damaged' \/ ~m.sound
    BY <1>1, <2>1, RestStays DEF Damaged
  <2> QED BY <1>1, <2>1, <2>2 DEF Linked, Loads, One
<1> QED
  BY <1>2, <1>3, <1>4, <1>5, <1>6, <1>7

\* No step takes back what tells of a fault.
Lasting ==
    /\ Linked
    /\ session.fault # NoTerminal => session'.fault # NoTerminal
    /\ spc = "done" => spc' = "done" /\ scode' = scode
    /\ vpc = "exited" => vpc' = "exited" /\ vcode' = vcode
    /\ stop_requested => stop_requested'
    /\ rcode # 0 /\ rpc \notin {"sim", "vehicle"} => rcode' # 0 /\ rpc' \notin {"sim", "vehicle"}

\* The gaps after a step are integers too.
LEMMA NextTypes ==
    ASSUME LockstepInv', Loads'
    PROVE  /\ UpGap' \in Nat /\ DownGap' \in Nat
           /\ up_rx'.malformed \in Nat /\ down_rx'.malformed \in Nat /\ events'.ring_drops \in Nat
           /\ down_tx'.original_tx_fail \in Nat
<1>1. Load(uplink') \in Nat /\ Load(downlink') \in Nat
  BY PutFacts DEF Loads
<1>2. /\ up_tx'.transmitted \in Int /\ down_tx'.transmitted \in Int
      /\ up_rx'.received_raw \in Int /\ down_rx'.received_raw \in Int
      /\ up_rx'.malformed \in Int /\ down_rx'.malformed \in Int /\ events'.ring_drops \in Int
      /\ down_tx'.original_tx_fail \in Int
  BY DEF LockstepInv, Tallies, SendFields, UpRxFields, DownRxFields, EventFields
<1> QED BY <1>1, <1>2 DEF Loads, UpGap, DownGap

\* A trace stays.
LEMMA TraceStays ==
    ASSUME LockstepInv, Loads, LockstepInv', Lasting, NEW kind, Trace(kind)
    PROVE  Trace(kind)'
<1>1. /\ up_rx.malformed \in Int /\ down_rx.malformed \in Int /\ events.ring_drops \in Int
      /\ down_tx.original_tx_fail \in Int
      /\ UpGap \in Nat /\ DownGap \in Nat
  BY CountTypes, GapTypes DEF UpRxFields, DownRxFields, EventFields
<1>2. /\ UpGap' \in Nat /\ DownGap' \in Nat
      /\ up_rx'.malformed \in Nat /\ down_rx'.malformed \in Nat /\ events'.ring_drops \in Nat
      /\ down_tx'.original_tx_fail \in Nat
  BY NextTypes DEF Lasting, Linked
<1>3. /\ UpGap' >= UpGap /\ DownGap' >= DownGap
      /\ up_rx'.malformed >= up_rx.malformed /\ down_rx'.malformed >= down_rx.malformed
      /\ events'.ring_drops >= events.ring_drops
      /\ down_tx'.original_tx_fail >= down_tx.original_tx_fail
      /\ Damaged => \/ Damaged' \/ UpGap' > 0 \/ DownGap' > 0
                    \/ up_rx'.malformed > 0 \/ down_rx'.malformed > 0
  BY DEF Lasting, Linked
<1>4. /\ UpGap > 0 => UpGap' > 0
      /\ DownGap > 0 => DownGap' > 0
      /\ up_rx.malformed > 0 => up_rx'.malformed > 0
      /\ down_rx.malformed > 0 => down_rx'.malformed > 0
      /\ events.ring_drops > 0 => events'.ring_drops > 0
      /\ down_tx.original_tx_fail > 0 => down_tx'.original_tx_fail > 0
  BY <1>1, <1>2, <1>3
<1> QED
  BY Zenon, <1>3, <1>4 DEF Trace, Lasting

\* The kinds of fault that the counters show elsewhere need no trace.
Traceless == {"fail_sensor", "drop_actuator", "reply"}

\* Such a fault has all the traces it needs.
LEMMA TracelessFacts ==
    ASSUME NEW kind \in Traceless
    PROVE  kind \in FaultKinds /\ Trace(kind)'
<1>1. /\ kind \in FaultKinds
      /\ kind \notin {"lost", "corrupt", "ring", "original_reply", "recv", "kill_at", "write",
                     "signal", "slow"}
  BY DEF Traceless, FaultKinds
<1> QED BY Zenon, <1>1 DEF Trace

\* The faults remain shown: a step leaves them alone, or adds one with its trace.
LEMMA ShownStays ==
    ASSUME LockstepInv, Loads, Shown, LockstepInv', Lasting,
           \/ faults' = faults
           \/ \E kind \in FaultKinds : faults' = Append(faults, kind) /\ Trace(kind)'
    PROVE  Shown'
<1>1. \A kind : Trace(kind) => Trace(kind)'
  BY TraceStays
<1>2. CASE faults' = faults
  <2>1. Kinds' = Kinds BY <1>2 DEF Kinds
  <2> QED BY <1>1, <1>2, <2>1 DEF Shown
<1>3. ASSUME NEW kind \in FaultKinds, faults' = Append(faults, kind), Trace(kind)'
      PROVE  Shown'
  <2>1. faults' \in Seq(FaultKinds) /\ Kinds' = Kinds \union {kind}
    BY <1>3, FaultFacts DEF Shown
  <2>2. \A k \in Kinds' : Trace(k)'
    BY <1>1, <1>3, <2>1 DEF Shown
  <2> QED BY <2>1, <2>2 DEF Shown
<1> QED BY <1>2, <1>3

\* What Eligible reads.
judged == <<vcode, scode, up_tx, up_rx, down_tx, down_rx, events, matched, final_reason, session,
            vehicle_seen>>

\* The verdict depends on nothing else.
LEMMA EligibleStays == judged' = judged => (Eligible' <=> Eligible)
  BY DEF judged, Eligible, Closed, Complete, RecordsClose, TerminalsAgree, Paired, SenderCloses,
         ReceiverCloses, Reason, ReasonTick

\* A step of the simulator, while the runner waits for it.
LEMMA SimStep ==
    ASSUME Watched, spc # "done", UNCHANGED <<vpc, vcode, session, stop_requested, rpc, rcode>>,
           spc' # "done" => scode' = scode, Linked
    PROVE  Watched' /\ Lasting
<1>1. rpc = "sim" BY DEF Watched
<1>2. rpc' = "sim" BY <1>1
<1> QED BY <1>1, <1>2 DEF Watched, Lasting

\* A step of the vehicle, which the runner cannot have judged.
LEMMA VehicleStep ==
    ASSUME Watched, vpc # "exited", UNCHANGED <<spc, scode, stop_requested, rpc, rcode>>,
           vpc' \in {"top", "recv", "reply", "reply_cached", "after", "exited"},
           vpc' \in {"top", "recv", "reply_cached"} => session'.state.terminal = NoTerminal,
           vpc' = "exited" /\ stop_requested => vcode' # 0,
           session.fault # NoTerminal => session'.fault # NoTerminal, Linked
    PROVE  Watched' /\ Lasting
<1>1. rpc \notin {"report", "done"} BY DEF Watched
<1>2. rpc' \notin {"report", "done"} BY <1>1
<1> QED BY <1>1, <1>2 DEF Watched, Lasting

\* A step of neither process.
LEMMA OutsideStep ==
    ASSUME Watched, judged' = judged, UNCHANGED <<spc, vpc, rpc, rcode>>, Linked,
           stop_requested => stop_requested', vpc = "exited" => stop_requested' = stop_requested
    PROVE  Watched' /\ Lasting
<1>1. (Eligible' <=> Eligible) /\ UNCHANGED <<vcode, scode, session>>
  BY EligibleStays DEF judged
<1>2. Lasting BY <1>1 DEF Lasting
<1>3. vpc' = "exited" /\ stop_requested' => vcode' # 0
  BY Zenon, <1>1 DEF Watched
<1>4. rpc' = "done" /\ rcode' = 0 => Eligible'
  BY Zenon, <1>1 DEF Watched
<1>5. Watched'
  BY <1>1, <1>3, <1>4 DEF Watched
<1> QED BY <1>2, <1>5

\* At the start nothing is under way and nothing went wrong.
LEMMA FaultStarts == Init => FaultInv
<1> SUFFICES ASSUME Init PROVE FaultInv OBVIOUS
<1>1. Bagged(uplink) /\ Bagged(downlink) /\ Load(uplink) = 0 /\ Load(downlink) = 0
  BY EmptyFacts DEF Init
<1>2. /\ up_tx.transmitted = 0 /\ down_tx.transmitted = 0 /\ up_rx.received_raw = 0
      /\ down_rx.received_raw = 0 /\ up_rx.malformed = 0 /\ down_rx.malformed = 0
      /\ events.ring_drops = 0 /\ down_tx.original_tx_fail = 0
  BY DEF Init, Zero, SendFields, UpRxFields, DownRxFields, EventFields
<1>3. Loads
  BY <1>1, <1>2 DEF Loads, UpGap, DownGap
<1>4. Shown
  <2>1. faults = <<>> BY DEF Init
  <2>2. faults \in Seq(FaultKinds) /\ Kinds = {} BY <2>1 DEF Kinds, Range
  <2> QED BY <2>2 DEF Shown
<1>5. Watched
  BY DEF Init, Watched, initial
<1> QED BY <1>3, <1>4, <1>5 DEF FaultInv

\* The steps of the simulator.
LEMMA SimFaults ==
    ASSUME LockstepInv, FaultInv, LockstepInv',
           \/ \E up_drop, drop_reply, opcode : BuildSample(up_drop, drop_reply, opcode)
           \/ SendSample \/ Timeout \/ RecvRefused \/ SimKilled
           \/ \E m \in BagToSet(downlink) : RecvOther(m)
           \/ \E m \in BagToSet(downlink), t \in Truths : RecvReply(m, t)
    PROVE  FaultInv'
<1>1. Loads /\ Shown /\ Watched BY DEF FaultInv
<1>2. CASE \E up_drop, drop_reply, opcode : BuildSample(up_drop, drop_reply, opcode)
  <2>1. /\ spc # "done" /\ UNCHANGED <<vpc, vcode, session, stop_requested, rpc, rcode, faults, scode>>
        /\ UNCHANGED <<vehCounts, down_rx, uplink, downlink>> /\ up_tx' = Generate(up_tx)
    BY <1>2 DEF BuildSample, vehicle, runner, net
  <2>2. up_tx'.transmitted = up_tx.transmitted
    <3>1. up_tx \in [SendFields -> Int] /\ SendFields \subseteq SendFields BY DEF LockstepInv, Tallies
    <3>2. \A k \in SendFields \ {"generated", "not_attempted", "never_transmitted"} : up_tx'[k] = up_tx[k]
      BY <2>1, <3>1, GenerateCounts
    <3> QED BY <3>2 DEF SendFields
  <2>3. UNCHANGED <<up_rx, down_tx, events>> BY <2>1 DEF vehCounts
  <2>4. UpGap' = UpGap /\ DownGap' = DownGap BY <2>1, <2>2, <2>3 DEF UpGap, DownGap
  <2>5. /\ up_rx.malformed \in Int /\ down_rx.malformed \in Int /\ events.ring_drops \in Int
        /\ down_tx.original_tx_fail \in Int
        /\ UpGap \in Nat /\ DownGap \in Nat
    BY <1>1, CountTypes, GapTypes DEF UpRxFields, DownRxFields, EventFields
  <2>6. Loads' BY <1>1, <2>1, <2>3, <2>4 DEF Loads
  <2>7. Damaged => Damaged' BY <2>1 DEF Damaged
  <2>8. Linked BY <2>1, <2>3, <2>4, <2>5, <2>6, <2>7 DEF Linked
  <2>9. Watched' /\ Lasting BY <1>1, <2>1, <2>8, SimStep
  <2> QED BY <1>1, <2>1, <2>6, <2>9, ShownStays DEF FaultInv
<1>3. CASE SendSample
  <2>1. /\ spc # "done" /\ spc' # "done" /\ UNCHANGED <<vpc, vcode, session, stop_requested, rpc, rcode, scode>>
    BY <1>3 DEF SendSample, vehicle, runner
  <2>2. Linked BY <1>1, <1>3, LinkedSteps
  <2>3. Watched' /\ Lasting BY <1>1, <2>1, <2>2, SimStep
  <2>4. faults' = faults \/ faults' = Append(faults, "fail_sensor")
    BY <1>3 DEF SendSample, Fault
  <2>5. "fail_sensor" \in FaultKinds /\ Trace("fail_sensor")' BY TracelessFacts DEF Traceless
  <2>6. Shown' BY <1>1, <2>3, <2>4, <2>5, ShownStays
  <2> QED BY <2>2, <2>3, <2>6 DEF FaultInv, Linked
<1>4. CASE Timeout \/ RecvRefused
  <2>1. /\ spc # "done" /\ UNCHANGED <<vpc, vcode, session, stop_requested, rpc, rcode, faults>>
        /\ spc' # "done" => scode' = scode
        /\ UNCHANGED <<simCounts, vehCounts, uplink, downlink>>
    BY <1>4 DEF Timeout, RecvRefused, SimFails, vehicle, runner, simCounts, net
  <2>2. Linked BY <1>1, <2>1, LinkedIdle
  <2>3. Watched' /\ Lasting BY <1>1, <2>1, <2>2, SimStep
  <2> QED BY <1>1, <2>1, <2>2, <2>3, ShownStays DEF FaultInv, Linked
<1>5. CASE SimKilled
  <2>1. /\ spc # "done" /\ UNCHANGED <<vpc, vcode, session, stop_requested, rpc, rcode>>
        /\ spc' = "done" /\ scode' = Killed /\ faults' = Append(faults, "kill_at")
        /\ UNCHANGED <<simCounts, vehCounts, uplink, downlink>>
    BY <1>5 DEF SimKilled, Fault, vehicle, runner, net
  <2>2. Linked BY <1>1, <2>1, LinkedIdle
  <2>3. Watched' /\ Lasting BY <1>1, <2>1, <2>2, SimStep
  <2>4. "kill_at" \in FaultKinds /\ Trace("kill_at")' BY <2>1 DEF FaultKinds, Trace
  <2>5. Shown' BY <1>1, <2>1, <2>3, <2>4, ShownStays
  <2> QED BY <2>2, <2>3, <2>5 DEF FaultInv, Linked
<1>6. ASSUME NEW m \in BagToSet(downlink), RecvOther(m) PROVE FaultInv'
  <2>1. /\ spc # "done" /\ UNCHANGED <<vpc, vcode, session, stop_requested, rpc, rcode, spc, scode>>
    BY <1>6 DEF RecvOther, vehicle, runner
  <2>2. Linked BY <1>1, <1>6, LinkedSteps
  <2>3. Watched' /\ Lasting BY <1>1, <2>1, <2>2, SimStep
  <2>4. faults' = faults \/ faults' = Append(faults, "drop_actuator")
    BY <1>1, <1>6, RecvOtherEffects
  <2>5. "drop_actuator" \in FaultKinds /\ Trace("drop_actuator")' BY TracelessFacts DEF Traceless
  <2>6. Shown' BY <1>1, <2>3, <2>4, <2>5, ShownStays
  <2> QED BY <2>2, <2>3, <2>6 DEF FaultInv, Linked
<1>7. ASSUME NEW m \in BagToSet(downlink), NEW t \in Truths, RecvReply(m, t) PROVE FaultInv'
  <2>1. /\ spc # "done" /\ UNCHANGED <<vpc, vcode, session, stop_requested, rpc, rcode>>
    BY <1>7 DEF RecvReply, SimFails, vehicle, runner
  <2>2. Linked BY <1>1, <1>7, LinkedSteps
  <2>3. scode' = scode /\ faults' = faults BY <1>1, <1>7, RecvReplyEffects
  <2>4. Watched' /\ Lasting BY <1>1, <2>1, <2>2, <2>3, SimStep
  <2>5. Shown' BY <1>1, <2>3, <2>4, ShownStays
  <2> QED BY <2>2, <2>4, <2>5 DEF FaultInv, Linked
<1> QED BY <1>2, <1>3, <1>4, <1>5, <1>6, <1>7

\* The steps of the vehicle.
LEMMA VehicleFaults ==
    ASSUME LockstepInv, FaultInv, LockstepInv',
           \/ LoopTop \/ ReceiveFails \/ SendReply \/ Exit
           \/ \E m \in BagToSet(uplink) : Receive(m)
    PROVE  FaultInv'
<1>1. Loads /\ Shown /\ Watched BY DEF FaultInv
<1>2. CASE LoopTop
  <2>1. /\ vpc = "top" /\ vpc' \in {"recv", "after"}
        /\ UNCHANGED <<spc, scode, session, stop_requested, rpc, rcode, faults>>
        /\ UNCHANGED <<simCounts, vehCounts, uplink, downlink>>
    BY <1>2 DEF LoopTop, sim, runner, net
  <2>2. Linked BY <1>1, <2>1, LinkedIdle
  <2>3. session'.state.terminal = NoTerminal BY <1>1, <2>1 DEF Watched
  <2>4. Watched' /\ Lasting BY <1>1, <2>1, <2>2, <2>3, VehicleStep
  <2>5. Shown' BY <1>1, <2>1, <2>4, ShownStays
  <2> QED BY <2>2, <2>4, <2>5 DEF FaultInv, Linked
<1>3. CASE ReceiveFails
  <2> DEFINE why == IF stop_requested THEN "SIGNAL" ELSE "PEER_LOST"
  <2>1. /\ vpc = "recv" /\ vpc' = "after" /\ session' = Stopped(why)
        /\ UNCHANGED <<spc, scode, stop_requested, rpc, rcode>>
        /\ UNCHANGED <<simCounts, vehCounts, uplink, downlink>>
        /\ faults' = faults \/ faults' = Append(faults, "recv")
    BY <1>3 DEF ReceiveFails, Fault, sim, runner
  <2>2. Linked BY <1>1, <2>1, LinkedIdle
  <2>3. session'.fault # NoTerminal
    <3>1. session.state.terminal = NoTerminal BY <1>1, <2>1 DEF Watched
    <3>2. CASE session.fault # NoTerminal
      <4>1. session' = session BY <2>1, <3>2 DEF Stopped
      <4> QED BY <3>2, <4>1
    <3>3. CASE session.fault = NoTerminal
      <4> DEFINE end == [reason |-> why, tick |-> IF session.newest_answered = NoTick THEN 0
                                                  ELSE session.newest_answered]
      <4>1. session' = [session EXCEPT !.fault = end] BY <2>1, <3>1, <3>3 DEF Stopped
      <4>2. end # NoTerminal
        <5>1. end.reason \in {"SIGNAL", "PEER_LOST"} BY Zenon
        <5>2. NoTerminal.reason = "NONE" BY DEF NoTerminal
        <5> QED BY <5>1, <5>2
      <4> HIDE DEF end
      <4>3. session'.fault = end BY <4>1 DEF LockstepInv, Types, Shaped, SessionFields
      <4> QED BY <4>2, <4>3
    <3> QED BY <3>2, <3>3
  <2> HIDE DEF why
  <2>4. Watched' /\ Lasting BY <1>1, <2>1, <2>2, <2>3, VehicleStep
  <2>5. "recv" \in FaultKinds /\ Trace("recv")' BY <2>3 DEF FaultKinds, Trace
  <2>6. Shown' BY <1>1, <2>1, <2>4, <2>5, ShownStays
  <2> QED BY <2>2, <2>4, <2>6 DEF FaultInv, Linked
<1>4. CASE SendReply
  <2>1. /\ vpc \in {"reply", "reply_cached"}
        /\ vpc' = IF vpc = "reply" /\ session.state.terminal # NoTerminal THEN "after" ELSE "top"
        /\ UNCHANGED <<spc, scode, stop_requested, rpc, rcode>>
    BY <1>4 DEF SendReply, sim, runner
  <2>2. Linked BY <1>1, <1>4, LinkedSteps
  <2>3. PICK success \in BOOLEAN, pushed \in BOOLEAN :
          /\ \/ (success \/ veh_refused) /\ pushed /\ faults' = faults
             \/ ~success /\ FailedReply
             \/ ~pushed /\ faults' = Append(faults, "ring")
          /\ events'.ring_drops = events.ring_drops + One(~pushed)
          /\ down_tx'.original_tx_fail = down_tx.original_tx_fail + One(vpc = "reply" /\ ~success)
          /\ SameAnswer /\ session'.fault = session.fault
    BY <1>1, <1>4, SendReplyEffects
  <2>4. vpc' = "top" => session'.state.terminal = NoTerminal
    BY <1>1, <2>1, <2>3 DEF SameAnswer, Watched
  <2>5. Watched' /\ Lasting BY <1>1, <2>1, <2>2, <2>3, <2>4, VehicleStep
  <2>6. "reply" \in FaultKinds /\ Trace("reply")' BY TracelessFacts DEF Traceless
  <2>7. ASSUME faults' = Append(faults, "ring"), ~pushed
        PROVE  "ring" \in FaultKinds /\ Trace("ring")'
    <3>1. events.ring_drops \in Int /\ events.ring_drops >= 0
      BY <1>1, CountTypes DEF EventFields, Loads
    <3>2. events'.ring_drops > 0 BY <2>3, <2>7, <3>1 DEF One
    <3> QED BY <3>2 DEF FaultKinds, Trace
  <2>8. ASSUME vpc = "reply", ~success
        PROVE  "original_reply" \in FaultKinds /\ Trace("original_reply")'
    <3>1. down_tx.original_tx_fail \in Int /\ down_tx.original_tx_fail >= 0
      BY <1>1, CountTypes DEF Loads
    <3>2. down_tx'.original_tx_fail > 0 BY <2>3, <2>8, <3>1 DEF One
    <3> QED BY <3>2 DEF FaultKinds, Trace
  <2>9. Shown' BY <1>1, <2>3, <2>5, <2>6, <2>7, <2>8, ShownStays DEF FailedReply
  <2> QED BY <2>2, <2>5, <2>9 DEF FaultInv, Linked
<1>5. CASE Exit
  <2>1. /\ vpc = "after" /\ vpc' = "exited"
        /\ \/ session' = session
           \/ session' = Stopped("SIGNAL")
           \/ session' = Stopped("INTERNAL")
        /\ UNCHANGED <<spc, scode, stop_requested, rpc, rcode>>
        /\ UNCHANGED <<simCounts, vehCounts, uplink, downlink>>
        /\ \/ vcode' = ExitCode(session', FALSE) /\ faults' = faults
           \/ vcode' = ExitCode(session', TRUE) /\ faults' = Append(faults, "write")
    BY <1>5 DEF Exit, Fault, sim, runner, net
  <2>2. Linked BY <1>1, <2>1, LinkedIdle
  <2>3. session.fault # NoTerminal => session' = session
    BY <2>1 DEF Stopped
  <2>4. stop_requested => vcode' # 0 BY <2>1 DEF ExitCode
  <2>5. Watched' /\ Lasting BY <1>1, <2>1, <2>2, <2>3, <2>4, VehicleStep
  <2>6. ASSUME faults' = Append(faults, "write"), vcode' = ExitCode(session', TRUE)
        PROVE  "write" \in FaultKinds /\ Trace("write")'
    <3>1. vcode' # 0 BY <2>6 DEF ExitCode
    <3> QED BY <2>1, <3>1 DEF FaultKinds, Trace
  <2>7. Shown' BY <1>1, <2>1, <2>5, <2>6, ShownStays
  <2> QED BY <2>2, <2>5, <2>7 DEF FaultInv, Linked
<1>6. ASSUME NEW m \in BagToSet(uplink), Receive(m) PROVE FaultInv'
  <2>1. vpc = "recv" /\ UNCHANGED <<spc, scode, stop_requested, rpc, rcode, faults>>
    BY <1>6 DEF Receive, sim, runner
  <2>2. Linked BY <1>1, <1>6, LinkedSteps
  <2>3. /\ session'.fault = session.fault
        /\ \/ vpc' = "reply"
           \/ SameAnswer /\ vpc' \in {"top", "reply_cached"}
    BY <1>1, <1>6, ReceiveEffects
  <2>4. vpc' \in {"top", "reply_cached"} => session'.state.terminal = NoTerminal
    BY <1>1, <2>1, <2>3 DEF SameAnswer, Watched
  <2>5. Watched' /\ Lasting BY <1>1, <2>1, <2>2, <2>3, <2>4, VehicleStep
  <2>6. Shown' BY <1>1, <2>1, <2>5, ShownStays
  <2> QED BY <2>2, <2>5, <2>6 DEF FaultInv, Linked
<1> QED BY <1>2, <1>3, <1>4, <1>5, <1>6

\* The steps of the network, the runner and the signals.
LEMMA RunnerFaults ==
    ASSUME LockstepInv, FaultInv, LockstepInv',
           Lose \/ Corrupt \/ Signal \/ WaitExpires \/ Runner \/ UNCHANGED vars
    PROVE  FaultInv'
<1>1. Loads /\ Shown /\ Watched BY DEF FaultInv
<1>2. CASE Lose \/ Corrupt
  <2>1. judged' = judged /\ UNCHANGED <<spc, vpc, rpc, rcode, stop_requested>>
    BY <1>2 DEF Lose, Corrupt, judged, sim, simTick, simCounts, vehicle, vehCounts, runner
  <2>2. Linked BY <1>1, <1>2, LinkedSteps
  <2>3. Watched' /\ Lasting BY <1>1, <2>1, <2>2, OutsideStep
  <2>4. \E kind \in FaultKinds : faults' = Append(faults, kind) /\ Trace(kind)'
    <3>1. /\ Lose => (UpGap' > 0 \/ DownGap' > 0) /\ faults' = Append(faults, "lost")
          /\ ~Lose => Damaged' /\ faults' = Append(faults, "corrupt")
      BY <1>1, <1>2, NetworkEffects
    <3>2. "lost" \in FaultKinds /\ "corrupt" \in FaultKinds BY DEF FaultKinds
    <3>3. CASE Lose
      <4>1. Trace("lost")' BY <3>1, <3>3 DEF Trace
      <4> QED BY <3>1, <3>2, <3>3, <4>1
    <3>4. CASE ~Lose
      <4>1. Trace("corrupt")' BY <3>1, <3>4 DEF Trace
      <4> QED BY <3>1, <3>2, <3>4, <4>1
    <3> QED BY <3>3, <3>4
  <2>5. Shown' BY <1>1, <2>3, <2>4, ShownStays
  <2> QED BY <2>2, <2>3, <2>5 DEF FaultInv, Linked
<1>3. CASE Signal
  <2>1. /\ judged' = judged /\ UNCHANGED <<spc, vpc, rpc, rcode>> /\ stop_requested' /\ vpc # "exited"
        /\ UNCHANGED <<simCounts, vehCounts, uplink, downlink>>
        /\ faults' = Append(faults, "signal")
    BY <1>3 DEF Signal, RaiseStop, Fault, judged, sim, simTick, simCounts, vehCounts, runner, net
  <2>2. Linked BY <1>1, <2>1, LinkedIdle
  <2>3. Watched' /\ Lasting BY <1>1, <2>1, <2>2, OutsideStep
  <2>4. "signal" \in FaultKinds /\ Trace("signal")' BY Zenon, <2>1 DEF FaultKinds, Trace
  <2>5. Shown' BY <1>1, <2>1, <2>3, <2>4, ShownStays
  <2> QED BY <2>2, <2>3, <2>5 DEF FaultInv, Linked
<1>4. CASE WaitExpires
  <2>1. /\ \/ rpc = "sim" /\ spc # "done" /\ spc' = "done"
           \/ rpc = "vehicle" /\ vpc # "exited" /\ UNCHANGED <<spc, scode>>
        /\ rcode' # 0 /\ rpc' = "stop"
        /\ UNCHANGED <<vpc, vcode, session, stop_requested>>
        /\ UNCHANGED <<simCounts, vehCounts, uplink, downlink>>
        /\ faults' = Append(faults, "slow")
    BY <1>4 DEF WaitExpires, Fault, vehicle, net
  <2>2. Linked BY <1>1, <2>1, LinkedIdle
  <2>3. spc \in {"tick", "send", "wait", "done"} BY DEF LockstepInv, Types
  <2>4. Lasting BY <1>1, <2>1, <2>2, <2>3 DEF Lasting, Watched
  <2>5. Watched' BY <1>1, <2>1, <2>3 DEF Watched
  <2>6. "slow" \in FaultKinds /\ Trace("slow")' BY <2>1 DEF FaultKinds, Trace
  <2>7. Shown' BY <1>1, <2>1, <2>4, <2>6, ShownStays
  <2> QED BY <2>2, <2>5, <2>7 DEF FaultInv, Linked
<1>5. CASE Runner
  <2>1. /\ UNCHANGED <<spc, scode, session, simCounts, vehCounts, uplink, downlink, faults>>
        /\ stop_requested => stop_requested'
    BY <1>5 DEF Runner, SimEnded, VehicleEnded, StopProcess, Kill, Reconcile, RaiseStop, sim,
                vehicle, net
  <2>2. Linked BY <1>1, <2>1, LinkedIdle
  <2>3. /\ vpc = "exited" => vpc' = "exited" /\ vcode' = vcode /\ stop_requested' = stop_requested
        /\ rcode # 0 /\ rpc \notin {"sim", "vehicle"} => rcode' # 0 /\ rpc' \notin {"sim", "vehicle"}
    BY <1>5 DEF Runner, SimEnded, VehicleEnded, StopProcess, Kill, Reconcile, vehicle
  <2>4. Lasting BY <2>1, <2>2, <2>3 DEF Lasting
  <2>5. Shown' BY <1>1, <2>1, <2>4, ShownStays
  <2>6. Watched'
    <3>1. CASE SimEnded
      BY <1>1, <3>1 DEF SimEnded, Watched, sim, vehicle
    <3>2. CASE VehicleEnded
      BY <1>1, <3>2 DEF VehicleEnded, Watched, sim, vehicle
    <3>3. CASE StopProcess
      BY <1>1, <3>3 DEF StopProcess, RaiseStop, Watched, sim
    <3>4. CASE Kill
      BY <1>1, <3>4 DEF Kill, Watched, sim, Killed
    <3>5. CASE Reconcile
      <4>1. /\ rpc = "report" /\ rpc' = "done" /\ judged' = judged
            /\ UNCHANGED <<spc, vpc, stop_requested>>
            /\ rcode' = IF rcode = 0 /\ ~Eligible THEN 8 ELSE rcode
        BY <3>5 DEF Reconcile, judged, sim, simTick, simCounts, vehicle, vehCounts
      <4>2. (Eligible' <=> Eligible) /\ UNCHANGED <<vcode, scode, session>>
        BY <4>1, EligibleStays DEF judged
      <4>3. rcode' = 0 => rcode = 0 /\ Eligible'
        BY <4>1, <4>2
      <4> QED BY <1>1, <4>1, <4>2, <4>3 DEF Watched
    <3> QED BY <1>5, <3>1, <3>2, <3>3, <3>4, <3>5 DEF Runner
  <2> QED BY <2>2, <2>5, <2>6 DEF FaultInv, Linked
<1>6. CASE UNCHANGED vars
  <2>1. judged' = judged /\ UNCHANGED <<spc, vpc, rpc, rcode, stop_requested, faults>>
        /\ UNCHANGED <<simCounts, vehCounts, uplink, downlink>>
    BY <1>6 DEF vars, judged, sim, simTick, simCounts, vehicle, vehCounts, runner, net
  <2>2. Linked BY <1>1, <2>1, LinkedIdle
  <2>3. Watched' /\ Lasting BY <1>1, <2>1, <2>2, OutsideStep
  <2>4. Shown' BY <1>1, <2>1, <2>3, ShownStays
  <2> QED BY <2>2, <2>3, <2>4 DEF FaultInv, Linked
<1> QED BY <1>2, <1>3, <1>4, <1>5, <1>6

\* Every fault stays shown, and the runner knows it.
LEMMA FaultSteps ==
    ASSUME LockstepInv, FaultInv, [Next]_vars
    PROVE  FaultInv'
<1>1. LockstepInv' BY LockstepSteps
<1>2. CASE \E up_drop, drop_reply \in IF Lossy THEN BOOLEAN ELSE {FALSE}, opcode \in Requests \union {"NONE"} :
              BuildSample(up_drop, drop_reply, opcode)
  BY <1>1, <1>2, SimFaults
<1>3. CASE \/ SendSample \/ Timeout \/ RecvRefused \/ SimKilled
           \/ \E m \in BagToSet(downlink) : RecvOther(m)
           \/ \E m \in BagToSet(downlink), t \in Truths : RecvReply(m, t)
  BY <1>1, <1>3, SimFaults
<1>4. CASE Vehicle
  BY <1>1, <1>4, VehicleFaults DEF Vehicle
<1>5. CASE Lose \/ Corrupt \/ Signal \/ WaitExpires \/ Runner \/ Finished \/ UNCHANGED vars
  BY <1>1, <1>5, RunnerFaults DEF Finished
<1> QED
  BY <1>2, <1>3, <1>4, <1>5 DEF Next, Sim

\* Every fault leaves a trace that lasts: a gap between the copies sent and
\* received, a malformed receipt, a dropped record, a first reply counted as failed, a
\* fault of the session, an exit code, a stop, or the runner's own code.
THEOREM LockstepFaultTraces == Spec => []FaultInv
<1>1. LockstepInv /\ FaultInv /\ [Next]_vars => FaultInv'
  BY FaultSteps
<1> QED
  BY <1>1, FaultStarts, LockstepInvariant, PTL DEF Spec

\* run_case reports 0 only when nothing was lost, damaged, dropped or stopped:
\* reconcile.py's comparison of the two reports finds every trace that the exit
\* codes do not tell.
THEOREM LockstepFaultsReported == Spec => []FaultsAreReported
<1>1. LockstepInv /\ FaultInv => FaultsAreReported
  <2> SUFFICES ASSUME LockstepInv, FaultInv, rpc = "done", rcode = 0, NEW kind \in Range(faults)
               PROVE  kind \in {"fail_sensor", "drop_actuator", "reply"}
    BY DEF FaultsAreReported
  <2>1. kind \in FaultKinds /\ Trace(kind)
    BY DEF FaultInv, Shown, Kinds, Range
  <2>2. /\ vpc = "exited" /\ scode = 0 /\ vcode = 0 /\ Eligible /\ ~stop_requested
    BY DEF FaultInv, Watched
  <2>3. session.fault = NoTerminal
    BY <2>2 DEF LockstepInv, Faulted
  <2>4. /\ up_tx.transmitted = up_rx.received_raw /\ up_rx.malformed = 0
        /\ down_tx.transmitted = down_rx.received_raw /\ down_rx.malformed = 0
        /\ events.ring_drops = 0 /\ down_tx.original_tx_fail = 0
    BY <2>2 DEF Eligible, Complete
  <2>5. UpGap = 0 /\ DownGap = 0 /\ Load(uplink) = 0 /\ Load(downlink) = 0
    <3>1. UpGap \in Nat /\ DownGap \in Nat /\ Load(uplink) \in Nat /\ Load(downlink) \in Nat
      BY GapTypes DEF FaultInv
    <3>2. up_rx.received_raw \in Int /\ down_rx.received_raw \in Int
      BY CountTypes DEF UpRxFields, DownRxFields
    <3> QED BY <2>4, <3>1, <3>2 DEF UpGap, DownGap
  <2>6. BagToSet(uplink) = {} /\ BagToSet(downlink) = {}
    BY <2>5, EmptyFacts DEF FaultInv, Loads
  <2>7. ~Damaged BY <2>6 DEF Damaged
  <2>8. kind \notin {"lost", "corrupt", "ring", "original_reply", "recv", "kill_at", "write",
                       "signal", "slow"}
    BY <2>1, <2>2, <2>3, <2>4, <2>5, <2>7 DEF Trace, Killed
  <2> QED BY <2>1, <2>8 DEF FaultKinds
<1> QED
  BY <1>1, LockstepInvariant, LockstepFaultTraces, PTL

-----------------------------------------------------------------------------
(* A calm run: the datagrams balance and nobody stops the vehicle. *)

\* The runner's account of the lives of both processes.
LEMMA FaultsGrow ==
    ASSUME [Next]_vars
    PROVE  /\ \/ faults' = faults
              \/ \E kind \in FaultKinds : faults' = Append(faults, kind)
           /\ spc = "done" => scode' = scode
<1>1. CASE Sim
  <2>1. \/ faults' = faults \/ faults' = Append(faults, "fail_sensor")
        \/ faults' = Append(faults, "drop_actuator")
    BY <1>1 DEF Sim, BuildSample, SendSample, Timeout, RecvRefused, RecvOther, RecvReply, Fault
  <2>2. spc # "done"
    BY <1>1 DEF Sim, BuildSample, SendSample, Timeout, RecvRefused, RecvOther, RecvReply
  <2> QED BY <2>1, <2>2 DEF FaultKinds
<1>2. CASE Vehicle
  <2>1. \/ faults' = faults \/ faults' = Append(faults, "recv") \/ faults' = Append(faults, "reply")
        \/ faults' = Append(faults, "original_reply")
        \/ faults' = Append(faults, "ring") \/ faults' = Append(faults, "write")
    BY <1>2 DEF Vehicle, LoopTop, ReceiveFails, SendReply, Exit, Receive, Fault
  <2>2. scode' = scode
    BY <1>2 DEF Vehicle, LoopTop, ReceiveFails, SendReply, Exit, Receive, sim
  <2> QED BY <2>1, <2>2 DEF FaultKinds
<1>3. CASE SimKilled \/ Lose \/ Corrupt \/ WaitExpires \/ Signal
  <2>1. \/ faults' = Append(faults, "kill_at") \/ faults' = Append(faults, "lost")
        \/ faults' = Append(faults, "corrupt") \/ faults' = Append(faults, "slow")
        \/ faults' = Append(faults, "signal")
    BY <1>3 DEF SimKilled, Lose, Corrupt, WaitExpires, Signal, Fault
  <2>2. spc = "done" => scode' = scode
    BY <1>3 DEF SimKilled, Lose, Corrupt, WaitExpires, Signal, sim
  <2> QED BY <2>1, <2>2 DEF FaultKinds
<1>4. CASE Runner \/ Finished \/ UNCHANGED vars
  BY <1>4 DEF Runner, SimEnded, VehicleEnded, StopProcess, Kill, Reconcile, Finished, vars, sim
<1> QED BY <1>1, <1>2, <1>3, <1>4 DEF Next

\* A calm run was calm before, and its last step was none of the other faults.
LEMMA CalmBefore ==
    ASSUME FaultInv, [Next]_vars, Calm'
    PROVE  /\ Calm /\ scode' = scode
           /\ \A kind \in FaultKinds :
                 faults' = Append(faults, kind) => kind \in {"fail_sensor", "drop_actuator"}
<1>1. faults \in Seq(FaultKinds) /\ (spc # "done" => scode = 0)
  BY DEF FaultInv, Shown, Watched
<1>2. scode' = 0 /\ scode = 0
  BY <1>1, FaultsGrow DEF Calm
<1>3. \A kind \in FaultKinds :
         faults' = Append(faults, kind) => kind \in {"fail_sensor", "drop_actuator"}
  BY <1>1, FaultFacts DEF Calm
<1>4. Kinds \subseteq Kinds'
  <2>1. CASE faults' = faults BY <2>1 DEF Kinds
  <2>2. CASE \E kind \in FaultKinds : faults' = Append(faults, kind) BY <1>1, <2>2, FaultFacts
  <2> QED BY <2>1, <2>2, FaultsGrow
<1> QED BY <1>2, <1>3, <1>4 DEF Calm

\* Steps that leave the simulator's sample alone.
LEMMA SamplingStays ==
    ASSUME Sampling, UNCHANGED <<spc, scode, attempt, logged, up_tx, frame, tick>>,
           down_rx'.logical_received = down_rx.logical_received,
           session'.newest_answered = session.newest_answered,
           \A m \in BagToSet(uplink') : m \in BagToSet(uplink) \/ ~m.sound
    PROVE  Sampling'
<1>1. Newest' = Newest BY DEF Newest
<1>2. \A m \in BagToSet(uplink') : m.sound /\ m.tick = tick /\ frame # NoFrame => logged
  BY DEF Sampling
<1>3. scode' = 0 =>
           /\ up_tx'.generated = tick' + One(spc' # "tick")
           /\ up_tx'.not_attempted = One(spc' = "send" /\ attempt' = 0)
           /\ up_tx'.never_transmitted = One(spc' \in {"send", "wait"} /\ ~logged')
           /\ down_rx'.logical_received = tick' + One(spc' = "done")
  BY DEF Sampling, One
<1> QED BY <1>1, <1>2, <1>3 DEF Sampling

\* The simulator ends with an error.
LEMMA SamplingEnds ==
    ASSUME Sampling, UNCHANGED <<attempt, logged, up_tx, frame, tick, uplink, session>>, scode' # 0
    PROVE  Sampling'
  BY DEF Sampling, Newest

\* The steps of the simulator.
LEMMA SamplingMoves ==
    ASSUME LockstepInv, FaultInv, Sampling, [Next]_vars,
           \/ \E up_drop, drop_reply, opcode : BuildSample(up_drop, drop_reply, opcode)
           \/ SendSample \/ Timeout
           \/ \E m \in BagToSet(downlink), t \in Truths : RecvReply(m, t)
           \/ \E m \in BagToSet(uplink) : Receive(m) /\ Disposition(m) = "new"
    PROVE  Sampling'
<1>1. /\ up_tx \in [SendFields -> Int] /\ SendFields \subseteq SendFields /\ tick \in Nat /\ Newest \in Int
      /\ \A k \in SendFields : up_tx[k] \in Int
      /\ down_rx.logical_received \in Int
  BY CountTypes DEF LockstepInv, Tallies, Types, DownRxFields
<1>2. Loads /\ (spc # "done" => scode = 0) BY DEF FaultInv, Watched
<1>3. ASSUME NEW up_drop, NEW drop_reply, NEW opcode, BuildSample(up_drop, drop_reply, opcode)
      PROVE  Sampling'
  <2>1. /\ spc = "tick" /\ spc' = "send" /\ attempt' = 0 /\ logged' = FALSE /\ up_tx' = Generate(up_tx)
        /\ UNCHANGED <<tick, scode, down_rx, session, uplink>>
    BY <1>3 DEF BuildSample, simTick, vehicle, net
  <2>2. /\ up_tx'.generated = up_tx.generated + 1 /\ up_tx'.not_attempted = up_tx.not_attempted + 1
        /\ up_tx'.never_transmitted = up_tx.never_transmitted + 1
        /\ \A k \in SendFields \ {"generated", "not_attempted", "never_transmitted"} : up_tx'[k] = up_tx[k]
    BY <1>1, <2>1, GenerateCounts
  <2>3. up_tx'.send_pending = 0 BY <2>2 DEF SendFields, Sampling
  <2>4. Newest' = tick - 1 /\ frame = NoFrame
    BY <2>1 DEF LockstepInv, Turns, Newest
  <2>5. \A m \in BagToSet(uplink') : ~(m.sound /\ m.tick = tick)
    <3> SUFFICES ASSUME NEW m \in BagToSet(uplink), m.sound, m.tick = tick PROVE FALSE
      BY <2>1
    <3>1. m.tick = Newest + 1 /\ m = frame BY <1>1, <2>1 DEF LockstepInv, Turns, Wires
    <3>2. m.tick = NoTick BY <2>4, <3>1 DEF NoFrame, Sample
    <3> QED BY <1>1, <3>2 DEF NoTick
  <2>6. scode = 0 => /\ up_tx.generated = tick /\ up_tx.not_attempted = 0 /\ up_tx.never_transmitted = 0
                     /\ down_rx.logical_received = tick
    BY <1>1, <2>1 DEF Sampling, One
  <2>7. scode' = 0 => /\ up_tx'.generated = tick' + One(spc' # "tick")
                      /\ up_tx'.not_attempted = One(spc' = "send" /\ attempt' = 0)
                      /\ up_tx'.never_transmitted = One(spc' \in {"send", "wait"} /\ ~logged')
                      /\ down_rx'.logical_received = tick' + One(spc' = "done")
    BY <1>1, <2>1, <2>2, <2>6 DEF One
  <2>8. ~(Newest' = tick') BY <1>1, <2>1, <2>4
  <2> QED BY <2>1, <2>3, <2>5, <2>7, <2>8 DEF Sampling
<1>4. CASE SendSample
  <2>1. PICK success \in BOOLEAN :
             /\ up_tx'.send_pending = up_tx.send_pending /\ up_tx'.generated = up_tx.generated
             /\ up_tx'.not_attempted = up_tx.not_attempted - One(attempt = 0)
             /\ up_tx'.never_transmitted = up_tx.never_transmitted - One(success /\ ~logged)
             /\ BagToSet(uplink') \subseteq BagToSet(uplink) \union {frame}
             /\ ~success => uplink' = uplink
             /\ logged' = (logged \/ success)
    BY <1>2, <1>4, SendSampleEffects
  <2>2. /\ spc = "send" /\ spc' = "wait" /\ UNCHANGED <<attempt, frame, tick, scode, down_rx, session>>
    BY <1>4 DEF SendSample, simTick, vehicle
  <2>3. Newest' = Newest /\ logged \in BOOLEAN /\ logged' \in BOOLEAN /\ (logged => logged')
    BY <2>1, <2>2 DEF Newest, Sampling
  <2>4. \A m \in BagToSet(uplink') : m.sound /\ m.tick = tick /\ frame # NoFrame => logged'
    BY <2>1, <2>3 DEF Sampling
  <2>5. /\ up_tx.not_attempted = One(attempt = 0) /\ up_tx.never_transmitted = One(~logged)
        /\ up_tx.generated = tick + 1 /\ down_rx.logical_received = tick
    BY <1>1, <1>2, <2>2 DEF Sampling, One
  <2>6. /\ up_tx'.not_attempted = 0 /\ up_tx'.never_transmitted = One(~logged')
    BY <2>1, <2>3, <2>5 DEF One
  <2>7. /\ up_tx'.generated = tick' + One(spc' # "tick")
        /\ up_tx'.not_attempted = One(spc' = "send" /\ attempt' = 0)
        /\ up_tx'.never_transmitted = One(spc' \in {"send", "wait"} /\ ~logged')
        /\ down_rx'.logical_received = tick' + One(spc' = "done")
    BY <1>1, <2>1, <2>2, <2>5, <2>6 DEF One
  <2> QED BY <2>1, <2>2, <2>3, <2>4, <2>7 DEF Sampling
<1>5. CASE Timeout
  <2>1. CASE scode' # 0
    <3>1. UNCHANGED <<attempt, logged, up_tx, frame, tick, uplink, session>>
      BY <1>2, <1>5, <2>1 DEF Timeout, SimFails, simTick, simSend, vehicle, net
    <3> QED BY <2>1, <3>1, SamplingEnds
  <2>2. CASE scode' = 0
    <3>1. /\ spc = "wait" /\ spc' = "send" /\ attempt' = attempt + 1
          /\ UNCHANGED <<logged, up_tx, frame, tick, uplink, session, down_rx, scode>>
      BY <1>5, <2>2 DEF Timeout, SimFails, simTick, vehicle, net
    <3>2. attempt' \in Nat /\ attempt' # 0 /\ Newest' = Newest BY <3>1 DEF Sampling, Newest
    <3> QED BY <1>1, <3>1, <3>2 DEF Sampling, One
  <2> QED BY <2>1, <2>2
<1>6. ASSUME NEW m \in BagToSet(downlink), NEW t \in Truths, RecvReply(m, t) PROVE Sampling'
  <2>1. /\ down_rx'.logical_received = down_rx.logical_received + 1
        /\ UNCHANGED <<uplink, up_tx, scode>>
    BY <1>2, <1>6, RecvReplyEffects
  <2>2. /\ spc = "wait" /\ Newest = tick /\ frame # NoFrame /\ frame' = NoFrame
        /\ \/ spc' = "done" /\ tick' = tick
           \/ spc' = "tick" /\ tick' = tick + 1
    BY <1>6, AcceptFacts
  <2>3. m.veh_tick = tick
    <3>1. m = session.reply BY <1>6, AcceptFacts
    <3> QED BY <2>2, <3>1 DEF LockstepInv, Turns
  <2>4. UNCHANGED <<attempt, logged>> BY <1>6, <2>3 DEF RecvReply
  <2>5. logged /\ scode = 0 BY <1>2, <2>2 DEF Sampling
  <2>6. /\ up_tx.generated = tick + 1 /\ up_tx.not_attempted = 0 /\ up_tx.never_transmitted = 0
        /\ down_rx.logical_received = tick
    BY <1>1, <2>2, <2>5 DEF Sampling, One
  <2>7. /\ up_tx'.generated = tick' + One(spc' # "tick")
        /\ up_tx'.not_attempted = One(spc' = "send" /\ attempt' = 0)
        /\ up_tx'.never_transmitted = One(spc' \in {"send", "wait"} /\ ~logged')
        /\ down_rx'.logical_received = tick' + One(spc' = "done")
    BY <1>1, <2>1, <2>2, <2>6 DEF One
  <2> QED BY <2>1, <2>2, <2>4, <2>7 DEF Sampling
<1>7. ASSUME NEW m \in BagToSet(uplink), Receive(m), Disposition(m) = "new" PROVE Sampling'
  <2>1. /\ UNCHANGED <<spc, scode, attempt, logged, up_tx, frame, tick, down_rx>>
        /\ BagToSet(uplink') \subseteq BagToSet(uplink)
    BY <1>7, BagFacts DEF Receive, sim, simTick, simSend, simCounts
  <2>2. m = frame /\ m.tick = tick /\ frame # NoFrame BY <1>7, ReceiveNewFacts
  <2>3. m.sound BY <2>2 DEF LockstepInv, Turns
  <2>4. logged BY <2>2, <2>3 DEF Sampling
  <2>5. scode' = 0 =>
           /\ up_tx'.generated = tick' + One(spc' # "tick")
           /\ up_tx'.not_attempted = One(spc' = "send" /\ attempt' = 0)
           /\ up_tx'.never_transmitted = One(spc' \in {"send", "wait"} /\ ~logged')
           /\ down_rx'.logical_received = tick' + One(spc' = "done")
    BY <2>1 DEF Sampling, One
  <2> QED BY <2>1, <2>4, <2>5 DEF Sampling
<1> QED BY <1>3, <1>4, <1>5, <1>6, <1>7

\* Steps that leave the vehicle's reply alone.
LEMMA ReplyingStays ==
    ASSUME Replying, UNCHANGED <<vpc, vcode, session, down_tx, events, veh_refused>>,
           \A m \in BagToSet(downlink') : m \in BagToSet(downlink) \/ ~m.sound,
           scode' = 0 => scode = 0,
           scode' = 0 /\ spc' = "done" => spc = "done" \/ vpc \in {"after", "exited"}
    PROVE  Replying'
<1>1. Newest' = Newest BY DEF Newest
<1>2. vpc = "reply" => \A m \in BagToSet(downlink') : m.sound => m.tick < Newest
  BY DEF Replying
<1>3. scode' = 0 => ~veh_refused'
  BY Zenon DEF Replying
<1>4. /\ down_tx'.send_pending = 0 /\ down_tx'.generated = Newest' + 1
      /\ vcode' # Killed => /\ down_tx'.not_attempted = One(vpc' = "reply")
                            /\ events'.record_pending = One(vpc' = "reply")
      /\ vpc' # "exited" => vcode' = 0
      /\ vpc' = "reply_cached" => Newest' # NoTick
      /\ scode' = 0 /\ spc' = "done" => vpc' \in {"after", "exited"}
  BY <1>1 DEF Replying, One
<1>5. vpc' = "reply" => ~session'.reply_transmitted
  BY Zenon DEF Replying
<1> QED BY <1>1, <1>2, <1>3, <1>4, <1>5 DEF Replying

\* The simulator's end finds the vehicle past its last reply.
LEMMA ReplyEnds ==
    ASSUME Ticks > 1, LockstepInv, LockstepInv', FaultInv, Replying, NEW m \in BagToSet(downlink), NEW t \in Truths,
           RecvReply(m, t), spc' = "done"
    PROVE  vpc \in {"after", "exited"}
<1>1. /\ m = session.reply /\ Newest = tick /\ session.state = agreed' /\ tick' = tick
      /\ final_reason' # "peer_lost" /\ tick \in Nat
  <2>1. /\ m = session.reply /\ Newest = tick /\ session.state = agreed'
        /\ spc' = "done" => tick' = tick
    BY AcceptFacts
  <2>2. scode' = scode /\ spc # "done" BY RecvReplyEffects DEF FaultInv, RecvReply
  <2>3. scode' = 0 BY <2>2 DEF FaultInv, Watched
  <2> QED BY <2>1, <2>3 DEF LockstepInv, Known, Types
<1>2. m.sound /\ m.tick = Newest /\ Newest \in Int BY <1>1 DEF LockstepInv, Turns, Types
<1>3. vpc # "reply" BY <1>2 DEF Replying
<1>4. session.state.terminal # NoTerminal
  <2>1. /\ final_reason' # "none" BY <1>1 DEF LockstepInv, Known
  <2>2. PICK staleness : Loop!Paired(final_reason', agreed'.terminal.reason, staleness)
    BY <1>1, <2>1, SameAbsent DEF LockstepInv, Looping, Loop!EndsPaired
  <2>3. agreed'.terminal.reason # "NONE" BY <2>2 DEF Loop!Paired
  <2>4. NoTerminal.reason = "NONE" BY DEF NoTerminal
  <2> QED BY <1>1, <2>3, <2>4
<1> QED BY <1>3, <1>4 DEF FaultInv, Watched

\* The steps of the vehicle and the kill.
LEMMA ReplyingMoves ==
    ASSUME LockstepInv, FaultInv, Replying, Vehicle \/ Kill
    PROVE  Replying'
<1>1. /\ Loads /\ Newest \in Int /\ Newest \in {tick - 1, tick} /\ tick \in Nat
      /\ vpc \in {"top", "recv", "reply", "reply_cached", "after", "exited"}
  BY DEF FaultInv, Watched, LockstepInv, Types, Turns
<1>2. CASE LoopTop
  <2>1. /\ vpc = "top" /\ vpc' \in {"recv", "after"}
        /\ UNCHANGED <<spc, scode, session, vcode, down_tx, events, downlink, veh_refused>>
    BY <1>2 DEF LoopTop, sim, vehCounts, net
  <2>2. scode = 0 => ~veh_refused' BY Zenon, <2>1 DEF Replying
  <2>3. Newest' = Newest BY <2>1 DEF Newest
  <2> QED BY <2>1, <2>2, <2>3 DEF Replying, One
<1>3. CASE ReceiveFails
  <2>1. /\ vpc = "recv" /\ vpc' = "after" /\ ~veh_refused'
        /\ UNCHANGED <<spc, scode, vcode, down_tx, events, downlink>>
    BY <1>3 DEF ReceiveFails, sim, vehCounts
  <2>2. SameAnswer BY <1>3, StoppedFacts DEF ReceiveFails
  <2>3. Newest' = Newest BY <2>2 DEF Newest, SameAnswer
  <2> QED BY <2>1, <2>3 DEF Replying, One
<1>4. CASE Exit
  <2>1. /\ vpc = "after" /\ vpc' = "exited"
        /\ UNCHANGED <<spc, scode, down_tx, events, downlink, veh_refused>>
        /\ session' = Stopped("SIGNAL") \/ session' = Stopped("INTERNAL") \/ session' = session
    BY <1>4 DEF Exit, sim, vehCounts, net
  <2>2. Newest' = Newest BY <2>1, StoppedFacts DEF Newest, SameAnswer
  <2>3. scode = 0 => ~veh_refused' BY Zenon, <2>1 DEF Replying
  <2>4. vcode = 0 /\ Killed # 0 BY <2>1 DEF Replying, Killed
  <2> QED BY <2>1, <2>2, <2>3, <2>4 DEF Replying, One
<1>5. CASE SendReply
  <2>1. PICK success \in BOOLEAN, pushed \in BOOLEAN :
             /\ down_tx'.send_pending = down_tx.send_pending /\ down_tx'.generated = down_tx.generated
             /\ down_tx'.not_attempted = down_tx.not_attempted - One(vpc = "reply")
             /\ veh_refused' = (success /\ spc = "done")
             /\ events'.record_pending = events.record_pending - One(vpc = "reply")
             /\ SameAnswer
    BY <1>1, <1>5, SendReplyEffects
  <2>2. /\ vpc \in {"reply", "reply_cached"} /\ vpc' \in {"after", "top"}
        /\ UNCHANGED <<spc, scode, vcode>>
    BY <1>5 DEF SendReply, sim
  <2>3. Newest' = Newest BY <2>1 DEF Newest, SameAnswer
  <2>4. scode = 0 => spc # "done" BY <2>2 DEF Replying
  <2>5. scode' = 0 => ~veh_refused' BY <2>1, <2>2, <2>4
  <2>6. vcode = 0 /\ Killed # 0 BY <2>2 DEF Replying, Killed
  <2>7. down_tx'.not_attempted = 0 /\ events'.record_pending = 0
    BY <2>1, <2>2, <2>6 DEF Replying, One
  <2> QED BY <2>1, <2>2, <2>3, <2>4, <2>5, <2>6, <2>7 DEF Replying, One
<1>6. ASSUME NEW m \in BagToSet(uplink), Receive(m) PROVE Replying'
  <2>1. /\ vpc = "recv" /\ UNCHANGED <<spc, scode, vcode, veh_refused, downlink>>
    BY <1>6 DEF Receive, sim
  <2>2. vcode = 0 /\ Killed # 0 /\ (scode = 0 => spc # "done") BY <2>1 DEF Replying, Killed
  <2>3. scode' = 0 => ~veh_refused' BY Zenon, <2>1 DEF Replying
  <2>4. CASE Disposition(m) = "new"
    <3>1. /\ vpc' = "reply" /\ ~session'.reply_transmitted
          /\ down_tx'.generated = down_tx.generated + 1 /\ down_tx'.send_pending = down_tx.send_pending
          /\ down_tx'.not_attempted = down_tx.not_attempted + 1
          /\ events'.record_pending = events.record_pending + 1
      BY <1>1, <1>6, <2>4, ReceiveEffects
    <3>2. Newest' = Newest + 1
      <4>1. /\ m = frame /\ frame.tick = tick /\ Newest = tick - 1
            /\ session' = Answered(frame, Intake(frame, sampled), step(agreed, Intake(frame, sampled)))
            /\ frame.tick = up_rx.logical_received
        BY <1>6, <2>4, ReceiveNewFacts, DispositionFacts
      <4>2. Shaped(session, SessionFields) BY DEF LockstepInv, Types
      <4>3. session'.newest_answered = frame.tick BY <4>1, <4>2, AnsweredFacts
      <4> QED BY <1>1, <4>1, <4>3 DEF Newest
    <3>3. \A n \in BagToSet(downlink') : n.sound => n.tick < Newest'
      BY <1>1, <2>1, <3>2 DEF LockstepInv, Wires
    <3>4. down_tx'.send_pending = 0 /\ down_tx'.generated = Newest' + 1
      BY <1>1, <3>1, <3>2 DEF Replying
    <3>5. down_tx'.not_attempted = 1 /\ events'.record_pending = 1
      BY <2>1, <2>2, <3>1 DEF Replying, One
    <3> QED BY <2>1, <2>2, <2>3, <3>1, <3>3, <3>4, <3>5 DEF Replying, One
  <2>5. CASE Disposition(m) # "new"
    <3>1. /\ down_tx' = down_tx /\ events' = events /\ SameAnswer
          /\ vpc' \in {"top", "reply_cached"}
          /\ vpc' = "reply_cached" => Newest # NoTick
      BY <1>1, <1>6, <2>5, ReceiveEffects
    <3>2. Newest' = Newest BY <3>1 DEF Newest, SameAnswer
    <3> QED BY <2>1, <2>2, <2>3, <3>1, <3>2 DEF Replying, One
  <2> QED BY <2>4, <2>5
<1>7. CASE Kill
  <2>1. /\ UNCHANGED <<spc, scode, session, down_tx, events, downlink, veh_refused>>
        /\ \/ vpc = "exited" /\ UNCHANGED <<vpc, vcode>>
           \/ vpc' = "exited" /\ vcode' = Killed
    BY <1>7 DEF Kill, sim, vehCounts, net
  <2>2. CASE vpc = "exited" /\ UNCHANGED <<vpc, vcode>>
    BY <2>1, <2>2, ReplyingStays
  <2>3. CASE vpc' = "exited" /\ vcode' = Killed
    <3>1. scode' = 0 => ~veh_refused' BY Zenon, <2>1 DEF Replying
    <3>2. Newest' = Newest BY <2>1 DEF Newest
    <3> QED BY <2>1, <2>3, <3>1, <3>2 DEF Replying
  <2> QED BY <2>1, <2>2, <2>3
<1> QED BY <1>2, <1>3, <1>4, <1>5, <1>6, <1>7 DEF Vehicle

\* Session::stop touches neither mark of the session.
LEMMA StoppedMarks ==
    ASSUME LockstepInv, NEW why, session' = Stopped(why)
    PROVE  /\ session'.reply_transmitted = session.reply_transmitted
           /\ session'.integrity = session.integrity
<1> DEFINE at == IF session.newest_answered = NoTick THEN 0 ELSE session.newest_answered
           end == [reason |-> why, tick |-> at]
<1>1. session' = session \/ session' = [session EXCEPT !.fault = end]
  BY DEF Stopped
<1>2. Shaped(session, SessionFields)
  BY DEF LockstepInv, Types
<1> HIDE DEF end
<1> QED
  BY <1>1, <1>2 DEF Shaped, SessionFields

\* Steps that leave the balance as it is.
LEMMA EvenStays ==
    ASSUME Even, Cardinality(Failed)' = Cardinality(Failed), UpGap' = UpGap, DownGap' = DownGap,
           up_tx'.tx_fail = up_tx.tx_fail, sim_refused' = sim_refused,
           spc' = "done" => spc = "done" \/ ~sim_refused,
           up_rx'.malformed = up_rx.malformed, down_rx'.malformed = down_rx.malformed,
           BagToSet(uplink') \subseteq BagToSet(uplink),
           BagToSet(downlink') \subseteq BagToSet(downlink),
           events'.ring_drops = events.ring_drops,
           down_tx'.original_tx_fail = down_tx.original_tx_fail,
           down_tx'.never_transmitted = down_tx.never_transmitted,
           vpc' = "reply" <=> vpc = "reply",
           session'.newest_answered = session.newest_answered,
           session'.reply_transmitted = session.reply_transmitted
    PROVE  Even'
<1>1. Newest' = Newest BY DEF Newest
<1>2. UpGap' = up_tx'.tx_fail - Cardinality(Failed)' + One(sim_refused') /\ DownGap' = 0
  BY DEF Even, One
<1>3. spc' = "done" => ~sim_refused'
  BY Zenon DEF Even
<1>4. vpc' # "reply" /\ Newest' # NoTick => session'.reply_transmitted
  BY Zenon, <1>1 DEF Even
<1>5. /\ up_rx'.malformed = 0 /\ down_rx'.malformed = 0
      /\ \A m \in BagToSet(uplink') \union BagToSet(downlink') : m.sound
      /\ events'.ring_drops = 0 /\ down_tx'.original_tx_fail = 0
      /\ down_tx'.never_transmitted = One(vpc' = "reply")
  BY DEF Even, One
<1> QED BY <1>2, <1>3, <1>4, <1>5 DEF Even

\* The number of failed sends after a step.
LEMMA FailedSame ==
    ASSUME FaultInv, faults' = faults \/ faults' = Append(faults, "drop_actuator")
    PROVE  Cardinality(Failed)' = Cardinality(Failed)
<1>1. CASE faults' = faults
  <2>1. Failed' = Failed BY <1>1 DEF Failed
  <2> QED BY <2>1
<1>2. CASE faults' = Append(faults, "drop_actuator")
  <2>1. "drop_actuator" \in FaultKinds /\ faults \in Seq(FaultKinds) BY DEF FaultKinds, FaultInv, Shown
  <2>2. Failed' = Failed BY <1>2, <2>1, FaultFacts
  <2> QED BY <2>2
<1> QED BY <1>1, <1>2

\* The simulator's steps keep the balance.
LEMMA EvenSim ==
    ASSUME LockstepInv, FaultInv, Even, scode' = 0,
           \A kind \in FaultKinds :
              faults' = Append(faults, kind) => kind \in {"fail_sensor", "drop_actuator"},
           Sim \/ SimKilled
    PROVE  Even'
<1>1. Loads /\ (spc # "done" => scode = 0) BY DEF FaultInv, Watched
<1>2. ASSUME NEW up_drop, NEW drop_reply, NEW opcode, BuildSample(up_drop, drop_reply, opcode)
      PROVE  Even'
  <2>1. /\ spc' # "done" /\ UNCHANGED <<vpc, session, faults, up_rx, down_tx, events, down_rx>>
        /\ UNCHANGED <<uplink, downlink, sim_refused>> /\ up_tx' = Generate(up_tx)
    BY <1>2 DEF BuildSample, vehicle, vehCounts, net
  <2>2. up_tx'.transmitted = up_tx.transmitted /\ up_tx'.tx_fail = up_tx.tx_fail
    <3>1. up_tx \in [SendFields -> Int] /\ SendFields \subseteq SendFields BY DEF LockstepInv, Tallies
    <3>2. \A k \in SendFields \ {"generated", "not_attempted", "never_transmitted"} : up_tx'[k] = up_tx[k]
      BY <2>1, <3>1, GenerateCounts
    <3> QED BY <3>2 DEF SendFields
  <2>3. UpGap' = UpGap /\ DownGap' = DownGap BY <2>1, <2>2 DEF UpGap, DownGap
  <2> QED BY <2>1, <2>2, <2>3, FailedSame, EvenStays
<1>3. CASE SendSample
  <2>1. PICK success \in BOOLEAN :
             /\ up_tx'.tx_fail = up_tx.tx_fail + One(~success)
             /\ UpGap' = UpGap + One(success /\ vpc = "exited")
             /\ BagToSet(uplink') \subseteq BagToSet(uplink) \union {frame}
             /\ sim_refused' = (success /\ vpc = "exited")
             /\ \/ success /\ ~sim_refused /\ faults' = faults
                \/ ~success /\ sim_refused /\ faults' = faults
                \/ ~success /\ ~sim_refused /\ faults' = Append(faults, "fail_sensor")
    BY <1>1, <1>3, SendSampleEffects
  <2>2. /\ spc = "send" /\ spc' = "wait"
        /\ UNCHANGED <<vpc, session, up_rx, down_tx, events, down_rx, downlink>>
    BY <1>3 DEF SendSample, vehicle, vehCounts
  <2>3. DownGap' = DownGap BY <2>2, GapsSame
  <2>4. frame.sound BY <2>2 DEF LockstepInv, Turns
  <2>5. /\ up_tx.tx_fail \in Int /\ Cardinality(Failed) \in Int
    BY CountTypes, FailedFacts DEF SendFields, FaultInv, Shown
  <2>6. Cardinality(Failed)' = Cardinality(Failed) + One(~success /\ ~sim_refused)
    <3>1. CASE faults' = faults
      <4>1. Failed' = Failed BY <3>1 DEF Failed
      <4>2. faults # Append(faults, "fail_sensor")
        <5>1. faults \in Seq(FaultKinds) /\ "fail_sensor" \in FaultKinds BY DEF FaultInv, Shown, FaultKinds
        <5>2. Len(Append(faults, "fail_sensor")) = Len(faults) + 1 /\ Len(faults) \in Nat BY <5>1
        <5> QED BY <5>2
      <4> QED BY <2>1, <2>5, <3>1, <4>1, <4>2 DEF One
    <3>2. CASE ~success /\ ~sim_refused /\ faults' = Append(faults, "fail_sensor")
      <4>1. faults \in Seq(FaultKinds) /\ "fail_sensor" \in FaultKinds BY DEF FaultInv, Shown, FaultKinds
      <4>2. Cardinality(Failed') = Cardinality(Failed) + 1 BY <3>2, <4>1, FailedFacts DEF One
      <4> QED BY <3>2, <4>2 DEF One
    <3> QED BY <2>1, <3>1, <3>2
  <2>7. UpGap = up_tx.tx_fail - Cardinality(Failed) + One(sim_refused) /\ DownGap = 0
    BY DEF Even
  <2>8. UpGap' = up_tx'.tx_fail - Cardinality(Failed)' + One(sim_refused') /\ DownGap' = 0
    <3>1. PICK f, g, u, v, w :
            /\ f = Cardinality(Failed) /\ g = Cardinality(Failed)' /\ u = up_tx.tx_fail
            /\ v = One(success /\ vpc = "exited") /\ w = One(sim_refused)
      OBVIOUS
    <3>2. One(sim_refused') = v
      BY <2>1, <3>1 DEF One
    <3>3. /\ f \in Int /\ u \in Int /\ v \in Int /\ w \in Int
          /\ g = f + One(~success /\ ~sim_refused) /\ UpGap' = UpGap + v /\ UpGap = u - f + w
          /\ up_tx'.tx_fail = u + One(~success)
      BY <2>1, <2>5, <2>6, <2>7, <3>1 DEF One
    <3>4. One(~success) = One(~success /\ ~sim_refused) + w
      BY <2>1, <3>1 DEF One
    <3>5. One(~success) \in Int /\ One(~success /\ ~sim_refused) \in Int
      BY DEF One
    <3>6. UpGap' = up_tx'.tx_fail - g + v
      BY <3>3, <3>4, <3>5
    <3> QED BY <2>3, <2>7, <3>1, <3>2, <3>6
  <2>9. \A m \in BagToSet(uplink') \union BagToSet(downlink') : m.sound
    BY <2>1, <2>2, <2>4 DEF Even
  <2>10. vpc' # "reply" /\ Newest' # NoTick => session'.reply_transmitted
    BY Zenon, <2>2 DEF Even, Newest
  <2>11. /\ up_rx'.malformed = 0 /\ down_rx'.malformed = 0
         /\ events'.ring_drops = 0 /\ down_tx'.original_tx_fail = 0
         /\ down_tx'.never_transmitted = One(vpc' = "reply")
    BY <2>2 DEF Even, One
  <2> QED BY <2>2, <2>8, <2>9, <2>10, <2>11 DEF Even
<1>4. CASE Timeout \/ RecvRefused
  <2>1. /\ spc' = "send" /\ UNCHANGED <<vpc, session, faults, up_tx, down_rx, up_rx, down_tx, events>>
        /\ UNCHANGED <<uplink, downlink, sim_refused>>
    BY <1>4 DEF Timeout, RecvRefused, SimFails, vehicle, vehCounts, net
  <2>2. UpGap' = UpGap /\ DownGap' = DownGap BY <2>1, GapsSame
  <2> QED BY <2>1, <2>2, FailedSame, EvenStays
<1>5. ASSUME NEW m \in BagToSet(downlink), RecvOther(m) PROVE Even'
  <2>1. /\ downlink' = Take(downlink, m) /\ DownGap' = DownGap
        /\ down_rx'.malformed = down_rx.malformed + One(~m.sound)
        /\ UNCHANGED <<uplink, up_tx, up_rx, down_tx, events>> /\ UpGap' = UpGap
        /\ faults' = faults \/ faults' = Append(faults, "drop_actuator")
    BY <1>1, <1>5, RecvOtherEffects
  <2>2. UNCHANGED <<spc, vpc, session, sim_refused>> BY <1>5 DEF RecvOther, vehicle
  <2>3. down_rx'.malformed = down_rx.malformed
    <3>1. down_rx.malformed = 0 /\ m.sound BY DEF Even
    <3> QED BY <2>1, <3>1 DEF One
  <2>4. BagToSet(downlink') \subseteq BagToSet(downlink) BY <2>1, BagFacts
  <2> QED BY <2>1, <2>2, <2>3, <2>4, FailedSame, EvenStays
<1>6. ASSUME NEW m \in BagToSet(downlink), NEW t \in Truths, RecvReply(m, t) PROVE Even'
  <2>1. /\ downlink' = Take(downlink, m) /\ DownGap' = DownGap
        /\ down_rx'.malformed = down_rx.malformed
        /\ UNCHANGED <<uplink, up_tx, up_rx, down_tx, events, faults>> /\ UpGap' = UpGap
    BY <1>1, <1>6, RecvReplyEffects
  <2>2. ~sim_refused /\ UNCHANGED <<vpc, session, sim_refused>> BY <1>6 DEF RecvReply, SimFails, vehicle
  <2>3. BagToSet(downlink') \subseteq BagToSet(downlink) BY <2>1, BagFacts
  <2> QED BY <2>1, <2>2, <2>3, FailedSame, EvenStays
<1>7. CASE SimKilled
  BY <1>7 DEF SimKilled, Killed
<1> QED BY <1>2, <1>3, <1>4, <1>5, <1>6, <1>7 DEF Sim

\* The vehicle's steps keep the balance.
LEMMA EvenVehicle ==
    ASSUME LockstepInv, FaultInv, Replying, Even, Unstopped, scode = 0,
           \A kind \in FaultKinds :
              faults' = Append(faults, kind) => kind \in {"fail_sensor", "drop_actuator"},
           Vehicle
    PROVE  Even'
<1>1. Loads /\ Newest \in Int BY DEF FaultInv, LockstepInv, Types
<1>2. faults' = faults
  <2>1. \/ faults' = faults \/ faults' = Append(faults, "recv") \/ faults' = Append(faults, "reply")
        \/ faults' = Append(faults, "original_reply")
        \/ faults' = Append(faults, "ring") \/ faults' = Append(faults, "write")
    BY DEF Vehicle, LoopTop, ReceiveFails, SendReply, Exit, Receive, Fault
  <2> QED BY <2>1 DEF FaultKinds
<1>3. Cardinality(Failed)' = Cardinality(Failed) BY <1>2, FailedSame
<1>4. UNCHANGED <<spc, up_tx, down_rx, sim_refused>>
  BY DEF Vehicle, LoopTop, ReceiveFails, SendReply, Exit, Receive, sim, simCounts, net
<1>5. CASE LoopTop
  <2>1. /\ vpc = "top" /\ vpc' \in {"recv", "after"}
        /\ UNCHANGED <<session, up_rx, down_tx, events, uplink, downlink>>
    BY <1>5 DEF LoopTop, vehCounts, net
  <2>2. UpGap' = UpGap /\ DownGap' = DownGap BY <1>4, <2>1, GapsSame
  <2> QED BY <1>3, <1>4, <2>1, <2>2, EvenStays
<1>6. CASE ReceiveFails \/ Exit
  <2>1. /\ vpc \in {"recv", "after"} /\ vpc' \in {"after", "exited"}
        /\ UNCHANGED <<up_rx, down_tx, events, uplink, downlink>>
        /\ session' = session \/ \E why : session' = Stopped(why)
    BY <1>6 DEF ReceiveFails, Exit, vehCounts, net
  <2>2. /\ session'.newest_answered = session.newest_answered
        /\ session'.reply_transmitted = session.reply_transmitted
    BY <2>1, StoppedFacts, StoppedMarks DEF SameAnswer
  <2>3. UpGap' = UpGap /\ DownGap' = DownGap BY <1>4, <2>1, GapsSame
  <2> QED BY <1>3, <1>4, <2>1, <2>2, <2>3, EvenStays
<1>7. CASE SendReply
  <2>1. PICK success \in BOOLEAN, pushed \in BOOLEAN :
             /\ \/ (success \/ veh_refused) /\ pushed /\ faults' = faults
                \/ ~success /\ ~veh_refused /\ pushed /\ FailedReply
                \/ ~pushed /\ faults' = Append(faults, "ring")
             /\ down_tx'.never_transmitted =
                    down_tx.never_transmitted - One(success /\ ~session.reply_transmitted)
             /\ down_tx'.original_tx_fail = down_tx.original_tx_fail + One(vpc = "reply" /\ ~success)
             /\ DownGap' = DownGap + One(success /\ spc = "done")
             /\ BagToSet(downlink') \subseteq BagToSet(downlink) \union {session.reply}
             /\ events'.ring_drops = events.ring_drops + One(~pushed)
             /\ SameAnswer
             /\ session'.reply_transmitted <=> session.reply_transmitted \/ success
    BY <1>1, <1>7, SendReplyEffects
  <2>2. /\ vpc \in {"reply", "reply_cached"} /\ vpc' \in {"after", "top"} /\ UNCHANGED <<up_rx, uplink>>
    BY <1>7 DEF SendReply
  <2>3. ~veh_refused BY Zenon DEF Replying
  <2>4. faults \in Seq(FaultKinds) BY DEF FaultInv, Shown
  <2>5. ~FailedReply /\ faults' # Append(faults, "ring")
    <3>1. \A kind \in FaultKinds : Len(faults) \in Nat /\ Len(Append(faults, kind)) = Len(faults) + 1
      BY <2>4
    <3>2. \A kind \in FaultKinds : faults # Append(faults, kind)
      BY <3>1
    <3> QED BY <1>2, <3>2 DEF FaultKinds, FailedReply
  <2>6. success /\ pushed BY Zenon, <1>2, <2>1, <2>3, <2>5
  <2>7. spc # "done" BY <2>2 DEF Replying
  <2>8. UpGap' = UpGap BY <1>4, <2>2, GapsSame
  <2>9. UpGap' = up_tx'.tx_fail - Cardinality(Failed)' + One(sim_refused')
    BY <1>3, <1>4, <2>8 DEF Even, One
  <2>10. DownGap' = 0 /\ events'.ring_drops = 0 /\ down_tx'.original_tx_fail = 0
    BY <2>1, <2>6, <2>7 DEF Even, One
  <2>11. /\ vpc = "reply" => ~session.reply_transmitted
         /\ vpc = "reply_cached" => session.reply_transmitted
    <3>1. vpc = "reply" => ~session.reply_transmitted BY Zenon DEF Replying
    <3>2. vpc = "reply_cached" => session.reply_transmitted
      <4> SUFFICES ASSUME vpc = "reply_cached" PROVE session.reply_transmitted OBVIOUS
      <4>1. Newest # NoTick BY DEF Replying
      <4>2. vpc # "reply" OBVIOUS
      <4> QED BY Zenon, <4>1, <4>2 DEF Even
    <3> QED BY <3>1, <3>2
  <2>12. down_tx'.never_transmitted = One(vpc' = "reply")
    <3>1. down_tx.never_transmitted = One(vpc = "reply") BY DEF Even
    <3> DEFINE sent == session.reply_transmitted
    <3>2. /\ vpc = "reply" => ~sent
          /\ vpc = "reply_cached" => sent
          /\ down_tx'.never_transmitted = down_tx.never_transmitted - One(success /\ ~sent)
      BY <2>1, <2>11
    <3> HIDE DEF sent
    <3> QED BY <2>2, <2>6, <3>1, <3>2 DEF One
  <2>13. session'.reply_transmitted BY Zenon, <2>1, <2>6
  <2>14. session.reply.sound BY DEF LockstepInv, Turns
  <2>15. \A m \in BagToSet(uplink') \union BagToSet(downlink') : m.sound
    BY <2>1, <2>2, <2>14 DEF Even
  <2>16. spc' = "done" => ~sim_refused' BY Zenon, <1>4 DEF Even
  <2>17. up_rx'.malformed = 0 /\ down_rx'.malformed = 0 BY <1>4, <2>2 DEF Even
  <2> QED BY <2>9, <2>10, <2>12, <2>13, <2>15, <2>16, <2>17 DEF Even
<1>8. ASSUME NEW m \in BagToSet(uplink), Receive(m) PROVE Even'
  <2>1. m.sound BY DEF Even
  <2>2. /\ uplink' = Take(uplink, m) /\ UpGap' = UpGap
        /\ up_rx'.malformed = up_rx.malformed + One(~m.sound)
        /\ UNCHANGED <<downlink, down_rx>> /\ DownGap' = DownGap
        /\ events'.ring_drops = events.ring_drops
        /\ down_tx'.original_tx_fail = down_tx.original_tx_fail
    BY <1>1, <1>8, ReceiveEffects
  <2>3. vpc = "recv" BY <1>8 DEF Receive
  <2>4. BagToSet(uplink') \subseteq BagToSet(uplink) BY <2>2, BagFacts
  <2>5. up_rx'.malformed = up_rx.malformed
    <3>1. up_rx.malformed = 0 BY DEF Even
    <3> QED BY <2>1, <2>2, <3>1 DEF One
  <2>6. CASE Disposition(m) = "new"
    <3>1. vpc' = "reply" /\ down_tx'.never_transmitted = down_tx.never_transmitted + 1
      BY <1>1, <1>8, <2>6, ReceiveEffects
    <3>2. down_tx'.never_transmitted = One(vpc' = "reply")
      BY <2>3, <3>1 DEF Even, One
    <3>3. UpGap' = up_tx'.tx_fail - Cardinality(Failed)' + One(sim_refused')
      BY <1>3, <1>4, <2>2 DEF Even, One
    <3>4. spc' = "done" => ~sim_refused' BY Zenon, <1>4 DEF Even
    <3>5. \A n \in BagToSet(uplink') \union BagToSet(downlink') : n.sound
      BY <2>2, <2>4 DEF Even
    <3>6. /\ up_rx'.malformed = 0 /\ down_rx'.malformed = 0 /\ DownGap' = 0
          /\ events'.ring_drops = 0 /\ down_tx'.original_tx_fail = 0
      BY <1>4, <2>2, <2>5 DEF Even
    <3> QED BY <3>1, <3>2, <3>3, <3>4, <3>5, <3>6 DEF Even
  <2>7. CASE Disposition(m) # "new"
    <3>1. /\ down_tx' = down_tx /\ events' = events /\ session' = session
          /\ vpc' \in {"top", "reply_cached"}
      BY <1>1, <1>8, <2>1, <2>7, ReceiveEffects
    <3> QED BY <1>3, <1>4, <2>2, <2>3, <2>4, <2>5, <3>1, EvenStays
  <2> QED BY <2>6, <2>7
<1> QED BY <1>5, <1>6, <1>7, <1>8 DEF Vehicle

\* The other steps keep the balance.
LEMMA EvenOthers ==
    ASSUME LockstepInv, FaultInv, Even, Unstopped,
           \A kind \in FaultKinds :
              faults' = Append(faults, kind) => kind \in {"fail_sensor", "drop_actuator"},
           Lose \/ Corrupt \/ Signal \/ WaitExpires \/ Runner \/ UNCHANGED vars
    PROVE  Even'
<1>1. ~(Lose \/ Corrupt \/ Signal \/ WaitExpires)
  BY DEF Lose, Corrupt, Signal, WaitExpires, Fault, FaultKinds
<1>2. UNCHANGED <<spc, vpc, session, up_tx, up_rx, down_tx, down_rx, events, uplink, downlink, sim_refused, faults>>
  <2>1. CASE Runner
    <3>1. ~Kill BY DEF Kill, Unstopped
    <3> QED BY <2>1, <3>1 DEF Runner, SimEnded, VehicleEnded, StopProcess, Reconcile, sim, simCounts,
                              vehicle, vehCounts, net
  <2>2. CASE UNCHANGED vars
    BY <2>2 DEF vars, sim, simCounts, vehicle, vehCounts, net
  <2> QED BY <1>1, <2>1, <2>2
<1>3. UpGap' = UpGap /\ DownGap' = DownGap BY <1>2, GapsSame
<1> QED BY <1>2, <1>3, FailedSame, EvenStays

\* Steps that do not touch the vehicle's end or the runner's codes.
LEMMA UnstoppedStays ==
    ASSUME Unstopped, UNCHANGED <<stop_requested, rpc, rcode, rt_ok>>,
           interrupted' = interrupted \/ interrupted' = FALSE,
           session'.integrity = session.integrity, session'.fault = session.fault,
           vpc' = "exited" => vpc = "exited" /\ UNCHANGED <<vcode, session>>,
           rpc \in {"report", "done"} => vcode' = vcode,
           rpc = "done" => (Eligible' <=> Eligible)
    PROVE  Unstopped'
<1>1. ~session'.integrity /\ ~stop_requested' /\ ~interrupted'
  <2>1. ~session.integrity /\ ~stop_requested /\ ~interrupted BY DEF Unstopped
  <2>2. ~interrupted'
    <3>1. CASE interrupted' = interrupted BY Zenon, <2>1, <3>1
    <3>2. CASE interrupted' = FALSE BY <3>2
    <3> QED BY <3>1, <3>2
  <2>3. ~stop_requested' BY Zenon, <2>1
  <2>4. ~session'.integrity BY Zenon, <2>1
  <2> QED BY <2>2, <2>3, <2>4
<1>2. /\ rpc' \notin {"stop", "kill"}
      /\ rpc' = "report" => rcode' = IF vcode' = 0 THEN 0 ELSE 2
  BY DEF Unstopped
<1>3. rt_ok' => session'.fault = NoTerminal
  BY Zenon DEF Unstopped
<1>4. vpc' = "exited" /\ rt_ok' =>
         vcode' = 0 \/ session'.state.terminal.reason \in {"PEER_LOST", "INTERNAL", "NONE"}
  BY Zenon DEF Unstopped
<1>5. rpc' = "done" => rcode' = IF vcode' # 0 THEN 2 ELSE IF Eligible' THEN 0 ELSE 8
  <2> SUFFICES ASSUME rpc = "done" PROVE rcode' = IF vcode' # 0 THEN 2 ELSE IF Eligible' THEN 0 ELSE 8
    OBVIOUS
  <2>1. rcode = IF vcode # 0 THEN 2 ELSE IF Eligible THEN 0 ELSE 8
    BY Zenon DEF Unstopped
  <2>2. vcode' = vcode /\ rcode' = rcode /\ (Eligible' <=> Eligible)
    OBVIOUS
  <2> QED BY Zenon, <2>1, <2>2
<1> QED BY Zenon, <1>1, <1>2, <1>3, <1>4, <1>5 DEF Unstopped

\* The vehicle ends by its own loop, with a code that its terminal state explains.
LEMMA UnstoppedVehicle ==
    ASSUME LockstepInv, FaultInv, Replying, Even, Unstopped, scode = 0,
           \A kind \in FaultKinds :
              faults' = Append(faults, kind) => kind \in {"fail_sensor", "drop_actuator"},
           Vehicle
    PROVE  Unstopped'
<1>1. Loads /\ (rpc \in {"report", "done"} => vpc = "exited") BY DEF FaultInv, Watched
<1>2. ~interrupted /\ ~stop_requested /\ ~veh_refused BY Zenon DEF Unstopped, Replying
<1>3. UNCHANGED <<stop_requested, rpc, rcode, rt_ok>>
  BY DEF Vehicle, LoopTop, ReceiveFails, SendReply, Exit, Receive, runner
<1>4. CASE LoopTop
  <2>1. /\ vpc = "top" /\ vpc' # "exited" /\ UNCHANGED <<session, interrupted>>
    BY <1>4 DEF LoopTop
  <2> QED BY <1>1, <1>3, <2>1, UnstoppedStays
<1>5. ~ReceiveFails
  BY <1>2 DEF ReceiveFails, Fault, FaultKinds
<1>6. CASE SendReply
  <2>1. /\ vpc \in {"reply", "reply_cached"} /\ vpc' # "exited" /\ UNCHANGED interrupted
    BY <1>6 DEF SendReply
  <2>2. session'.integrity = session.integrity /\ session'.fault = session.fault
    BY <1>1, <1>6, SendReplyEffects
  <2> QED BY <1>1, <1>3, <2>1, <2>2, UnstoppedStays
<1>7. ASSUME NEW m \in BagToSet(uplink), Receive(m) PROVE Unstopped'
  <2>1. vpc = "recv" /\ interrupted' = FALSE BY <1>7 DEF Receive
  <2>2. m.sound BY DEF Even
  <2>3. session'.fault = session.fault /\ vpc' # "exited" BY <1>1, <1>7, ReceiveEffects
  <2>4. session'.integrity = session.integrity BY <1>1, <1>7, <2>2, ReceiveEffects
  <2> QED BY <1>1, <1>3, <2>1, <2>3, <2>4, UnstoppedStays
<1>8. CASE Exit
  <2>1. /\ vpc = "after" /\ vpc' = "exited" /\ interrupted' = FALSE
        /\ session' = IF ~rt_ok THEN Stopped("INTERNAL") ELSE session
        /\ \/ vcode' = ExitCode(session', FALSE)
           \/ faults' = Append(faults, "write")
    BY <1>2, <1>8 DEF Exit, Fault
  <2>2. vcode' = ExitCode(session', FALSE) BY <2>1 DEF FaultKinds
  <2>3. ~session'.integrity
    <3>1. session'.integrity = session.integrity BY <2>1, StoppedMarks
    <3> QED BY Zenon, <3>1 DEF Unstopped
  <2>4. rt_ok => session' = session /\ session.fault = NoTerminal
    <3>1. rt_ok => session.fault = NoTerminal BY Zenon DEF Unstopped
    <3> QED BY <2>1, <3>1
  <2>5. events.ring_drops = 0 /\ down_tx.original_tx_fail = 0 BY DEF Even
  <2>6. rt_ok => vcode' = 0 \/ session'.state.terminal.reason \in {"PEER_LOST", "INTERNAL", "NONE"}
    <3> SUFFICES ASSUME rt_ok
                 PROVE  vcode' = 0 \/ session'.state.terminal.reason \in {"PEER_LOST", "INTERNAL", "NONE"}
      OBVIOUS
    <3>1. Reason(session') = session'.state.terminal.reason BY <2>4 DEF Reason
    <3> QED BY Zenon, <1>2, <2>2, <2>3, <2>5, <3>1 DEF ExitCode
  <2>7. rpc' \notin {"stop", "kill", "report", "done"} BY <1>1, <1>3, <2>1 DEF Unstopped
  <2>8. rt_ok' => session'.fault = NoTerminal BY Zenon, <1>3, <2>4
  <2>9. ~stop_requested' /\ ~interrupted' BY Zenon, <1>2, <1>3, <2>1
  <2>10. rt_ok' => vcode' = 0 \/ session'.state.terminal.reason \in {"PEER_LOST", "INTERNAL", "NONE"}
    BY Zenon, <1>3, <2>6
  <2> QED BY <2>3, <2>7, <2>8, <2>9, <2>10 DEF Unstopped
<1> QED BY <1>4, <1>5, <1>6, <1>7, <1>8 DEF Vehicle

\* The other steps: the runner only follows the two exits.
LEMMA UnstoppedOthers ==
    ASSUME LockstepInv, FaultInv, Unstopped, scode' = 0, scode = 0,
           \A kind \in FaultKinds :
              faults' = Append(faults, kind) => kind \in {"fail_sensor", "drop_actuator"},
           \/ Sim \/ SimKilled
           \/ Lose \/ Corrupt \/ Signal \/ WaitExpires \/ Runner \/ UNCHANGED vars
    PROVE  Unstopped'
<1>1. rpc # "sim" => spc = "done" BY DEF FaultInv, Watched
<1>2. ~(SimKilled \/ Lose \/ Corrupt \/ Signal \/ WaitExpires)
  BY DEF SimKilled, Lose, Corrupt, Signal, WaitExpires, Fault, FaultKinds
<1>3. CASE Sim
  <2>1. spc # "done" /\ UNCHANGED <<vpc, vcode, session, rt_ok, interrupted, stop_requested, rpc, rcode>>
    BY <1>3 DEF Sim, BuildSample, SendSample, Timeout, RecvRefused, RecvOther, RecvReply, vehicle, runner
  <2>2. rpc = "sim" BY <1>1, <2>1
  <2> QED BY <2>1, <2>2, UnstoppedStays
<1>4. CASE UNCHANGED vars
  <2>1. /\ UNCHANGED <<vpc, vcode, session, rt_ok, interrupted, stop_requested, rpc, rcode>>
        /\ judged' = judged
    BY <1>4 DEF vars, judged, sim, simTick, simCounts, vehicle, vehCounts, runner
  <2>2. Eligible' <=> Eligible BY <2>1, EligibleStays
  <2> QED BY <2>1, <2>2, UnstoppedStays
<1>5. CASE Runner
  <2>1. ~StopProcess /\ ~Kill BY DEF StopProcess, Kill, Unstopped
  <2>2. /\ UNCHANGED <<vpc, vcode, session, rt_ok, interrupted, stop_requested>>
        /\ judged' = judged
    BY <1>5, <2>1 DEF Runner, SimEnded, VehicleEnded, Reconcile, judged, sim, simTick, simCounts,
                      vehicle, vehCounts
  <2>3. Eligible' <=> Eligible BY <2>2, EligibleStays
  <2>4. /\ ~session'.integrity /\ ~stop_requested' /\ ~interrupted'
        /\ rt_ok' => session'.fault = NoTerminal
        /\ vpc' = "exited" /\ rt_ok' =>
              vcode' = 0 \/ session'.state.terminal.reason \in {"PEER_LOST", "INTERNAL", "NONE"}
    BY Zenon, <2>2 DEF Unstopped
  <2>5. CASE SimEnded
    <3>1. rpc' = "vehicle" BY <2>5 DEF SimEnded
    <3> QED BY <2>4, <3>1 DEF Unstopped
  <2>6. CASE VehicleEnded
    <3>1. rpc' = "report" /\ rcode' = IF vcode' = 0 THEN 0 ELSE 2 BY <2>2, <2>6 DEF VehicleEnded
    <3> QED BY <2>4, <3>1 DEF Unstopped
  <2>7. CASE Reconcile
    <3>1. /\ rpc = "report" /\ rpc' = "done" /\ rcode' = IF rcode = 0 /\ ~Eligible THEN 8 ELSE rcode
      BY <2>7 DEF Reconcile
    <3>2. rcode = IF vcode = 0 THEN 0 ELSE 2 BY <3>1 DEF Unstopped
    <3>3. rcode' = IF vcode # 0 THEN 2 ELSE IF Eligible THEN 0 ELSE 8
      <4>1. CASE vcode = 0 BY <3>1, <3>2, <4>1
      <4>2. CASE vcode # 0 BY <3>1, <3>2, <4>2
      <4> QED BY <4>1, <4>2
    <3>4. rcode' = IF vcode' # 0 THEN 2 ELSE IF Eligible' THEN 0 ELSE 8
      BY Zenon, <2>2, <2>3, <3>3
    <3>5. rpc' \notin {"stop", "kill", "report"} BY <3>1
    <3> QED BY Zenon, <2>4, <3>4, <3>5 DEF Unstopped
  <2> QED BY <1>5, <2>1, <2>5, <2>6, <2>7 DEF Runner
<1> QED BY <1>2, <1>3, <1>4, <1>5

\* The network adds no sound datagram.
LEMMA NetworkAddsNone ==
    ASSUME LockstepInv, Lose \/ Corrupt
    PROVE  /\ \A m \in BagToSet(uplink') : m \in BagToSet(uplink) \/ ~m.sound
           /\ \A m \in BagToSet(downlink') : m \in BagToSet(downlink) \/ ~m.sound
<1>1. CASE Lose
  <2>1. BagToSet(uplink') \subseteq BagToSet(uplink) /\ BagToSet(downlink') \subseteq BagToSet(downlink)
    BY <1>1, BagFacts DEF Lose
  <2> QED BY <2>1
<1>2. ASSUME NEW m \in BagToSet(uplink), uplink' = Put(Take(uplink, m), Garbled(m)), UNCHANGED downlink
      PROVE  /\ \A n \in BagToSet(uplink') : n \in BagToSet(uplink) \/ ~n.sound
             /\ \A n \in BagToSet(downlink') : n \in BagToSet(downlink) \/ ~n.sound
  <2>1. ~Garbled(m).sound BY GarbledFacts DEF LockstepInv, Wires, SampleFields
  <2>2. BagToSet(uplink') \subseteq BagToSet(uplink) \union {Garbled(m)} BY <1>2, BagFacts
  <2> QED BY <1>2, <2>1, <2>2
<1>3. ASSUME NEW m \in BagToSet(downlink), downlink' = Put(Take(downlink, m), Garbled(m)), UNCHANGED uplink
      PROVE  /\ \A n \in BagToSet(uplink') : n \in BagToSet(uplink) \/ ~n.sound
             /\ \A n \in BagToSet(downlink') : n \in BagToSet(downlink) \/ ~n.sound
  <2>1. ~Garbled(m).sound BY GarbledFacts DEF LockstepInv, Wires, ReplyFields
  <2>2. BagToSet(downlink') \subseteq BagToSet(downlink) \union {Garbled(m)} BY <1>3, BagFacts
  <2> QED BY <1>3, <2>1, <2>2
<1> QED BY <1>1, <1>2, <1>3 DEF Corrupt

\* Every step keeps the simulator's account of its samples.
LEMMA SamplingSteps ==
    ASSUME LockstepInv, FaultInv, Sampling, [Next]_vars
    PROVE  Sampling'
<1>1. Loads /\ Killed # 0 BY DEF FaultInv, Killed
<1>2. ASSUME UNCHANGED <<spc, scode, simTick, simSend, simCounts>>,
             session'.newest_answered = session.newest_answered,
             \A m \in BagToSet(uplink') : m \in BagToSet(uplink) \/ ~m.sound
      PROVE  Sampling'
  <2>1. UNCHANGED <<spc, scode, attempt, logged, up_tx, frame, tick, down_rx>>
    BY <1>2 DEF simTick, simSend, simCounts
  <2> QED BY <1>2, <2>1, SamplingStays
<1>3. CASE \/ \E up_drop, drop_reply \in IF Lossy THEN BOOLEAN ELSE {FALSE}, opcode \in Requests \union {"NONE"} :
                 BuildSample(up_drop, drop_reply, opcode)
           \/ SendSample \/ Timeout
           \/ \E m \in BagToSet(downlink), t \in Truths : RecvReply(m, t)
  BY <1>3, SamplingMoves
<1>4. CASE RecvRefused \/ SimKilled
  <2>1. UNCHANGED <<attempt, logged, up_tx, frame, tick, uplink, session>> /\ scode' # 0
    BY <1>1, <1>4 DEF RecvRefused, SimKilled, SimFails, simTick, simSend, simCounts, vehicle, net
  <2> QED BY <2>1, SamplingEnds
<1>5. ASSUME NEW m \in BagToSet(downlink), RecvOther(m) PROVE Sampling'
  <2>1. UNCHANGED <<spc, scode, attempt, logged, up_tx, frame, tick, session, uplink>>
    BY <1>5 DEF RecvOther, simTick, simSend, vehicle
  <2>2. down_rx'.logical_received = down_rx.logical_received BY <1>1, <1>5, RecvOtherEffects
  <2> QED BY <2>1, <2>2, SamplingStays
<1>6. ASSUME NEW m \in BagToSet(uplink), Receive(m) PROVE Sampling'
  <2>1. CASE Disposition(m) = "new" BY <1>6, <2>1, SamplingMoves
  <2>2. CASE Disposition(m) # "new"
    <3>1. UNCHANGED <<spc, scode, simTick, simSend, simCounts>> /\ uplink' = Take(uplink, m)
      BY <1>6 DEF Receive, sim
    <3>2. SameAnswer BY <1>1, <1>6, <2>2, ReceiveEffects
    <3>3. BagToSet(uplink') \subseteq BagToSet(uplink) BY <3>1, BagFacts
    <3> QED BY <1>2, <3>1, <3>2, <3>3 DEF SameAnswer
  <2> QED BY <2>1, <2>2
<1>7. CASE LoopTop \/ ReceiveFails \/ SendReply \/ Exit
  <2>1. UNCHANGED <<spc, scode, simTick, simSend, simCounts, uplink>>
    BY <1>7 DEF LoopTop, ReceiveFails, SendReply, Exit, sim, net
  <2>2. session'.newest_answered = session.newest_answered
    <3>1. CASE LoopTop BY <3>1 DEF LoopTop
    <3>2. CASE SendReply
      <4>1. SameAnswer BY <1>1, <3>2, SendReplyEffects
      <4> QED BY <4>1 DEF SameAnswer
    <3>3. CASE ReceiveFails \/ Exit
      <4>1. session' = session \/ \E why : session' = Stopped(why) BY <3>3 DEF ReceiveFails, Exit
      <4> QED BY <4>1, StoppedFacts DEF SameAnswer
    <3> QED BY <1>7, <3>1, <3>2, <3>3
  <2> QED BY <1>2, <2>1, <2>2
<1>8. CASE Lose \/ Corrupt
  <2>1. UNCHANGED <<spc, scode, simTick, simSend, simCounts, session>>
    BY <1>8 DEF Lose, Corrupt, sim, vehicle
  <2> QED BY <1>2, <1>8, <2>1, NetworkAddsNone
<1>9. CASE Runner \/ Signal \/ UNCHANGED vars
  <2>1. UNCHANGED <<spc, scode, simTick, simSend, simCounts, uplink, session>>
    BY <1>9 DEF Runner, SimEnded, VehicleEnded, StopProcess, Kill, Reconcile, Signal, vars, sim, vehicle, net
  <2> QED BY <1>2, <2>1
<1>10. CASE WaitExpires
  <2>1. UNCHANGED <<simTick, simSend, simCounts, uplink, session>>
    BY <1>10 DEF WaitExpires, vehicle, net
  <2>2. CASE UNCHANGED <<spc, scode>> BY <1>2, <2>1, <2>2
  <2>3. CASE scode' = Killed
    <3>1. UNCHANGED <<attempt, logged, up_tx, frame, tick>> BY <2>1 DEF simTick, simSend, simCounts
    <3> QED BY <1>1, <2>1, <2>3, <3>1, SamplingEnds
  <2> QED BY <1>10, <2>2, <2>3 DEF WaitExpires
<1> QED BY <1>3, <1>4, <1>5, <1>6, <1>7, <1>8, <1>9, <1>10 DEF Next, Sim, Vehicle, Finished

\* Every step keeps the vehicle's account of its replies.
LEMMA ReplyingSteps ==
    ASSUME Ticks > 1, LockstepInv, FaultInv, Replying, [Next]_vars
    PROVE  Replying'
<1>1. Loads /\ Killed # 0 /\ (spc # "done" => scode = 0) BY DEF FaultInv, Watched, Killed
<1>2. ASSUME UNCHANGED <<vehicle, veh_refused>>,
             \A m \in BagToSet(downlink') : m \in BagToSet(downlink) \/ ~m.sound,
             scode' = 0 => scode = 0,
             scode' = 0 /\ spc' = "done" => spc = "done" \/ vpc \in {"after", "exited"}
      PROVE  Replying'
  <2>1. UNCHANGED <<vpc, vcode, session, down_tx, events, veh_refused>>
    BY <1>2 DEF vehicle, vehCounts
  <2> QED BY <1>2, <2>1, ReplyingStays
<1>3. CASE Vehicle \/ Kill BY <1>3, ReplyingMoves
<1>4. CASE \/ \E up_drop, drop_reply \in IF Lossy THEN BOOLEAN ELSE {FALSE}, opcode \in Requests \union {"NONE"} :
                 BuildSample(up_drop, drop_reply, opcode)
           \/ SendSample \/ Timeout \/ RecvRefused \/ SimKilled
  <2>1. /\ UNCHANGED <<vehicle, veh_refused, downlink>> /\ spc # "done"
        /\ spc' = "done" => scode' # 0
    <3>1. UNCHANGED <<vehicle, veh_refused, downlink>>
      BY <1>4 DEF BuildSample, SendSample, Timeout, RecvRefused, SimKilled, net
    <3>2. spc # "done"
      BY <1>4 DEF BuildSample, SendSample, Timeout, RecvRefused, SimKilled
    <3>3. spc' = "done" => scode' # 0
      BY <1>1, <1>4 DEF BuildSample, SendSample, Timeout, RecvRefused, SimKilled, SimFails
    <3> QED BY <3>1, <3>2, <3>3
  <2> QED BY <1>1, <1>2, <2>1
<1>5. ASSUME NEW m \in BagToSet(downlink), RecvOther(m) PROVE Replying'
  <2>1. UNCHANGED <<vehicle, veh_refused, spc, scode>> /\ downlink' = Take(downlink, m)
    BY <1>5 DEF RecvOther
  <2>2. BagToSet(downlink') \subseteq BagToSet(downlink) BY <2>1, BagFacts
  <2> QED BY <1>2, <2>1, <2>2
<1>6. ASSUME NEW m \in BagToSet(downlink), NEW t \in Truths, RecvReply(m, t) PROVE Replying'
  <2>1. UNCHANGED <<vehicle, veh_refused>> /\ spc # "done" /\ downlink' = Take(downlink, m)
    BY <1>6 DEF RecvReply
  <2>2. BagToSet(downlink') \subseteq BagToSet(downlink) BY <2>1, BagFacts
  <2>3. spc' = "done" => vpc \in {"after", "exited"} BY <1>6, LockstepSteps, ReplyEnds
  <2> QED BY <1>1, <1>2, <2>1, <2>2, <2>3
<1>7. CASE Lose \/ Corrupt
  <2>1. UNCHANGED <<vehicle, veh_refused, spc, scode>> BY <1>7 DEF Lose, Corrupt, sim
  <2> QED BY <1>2, <1>7, <2>1, NetworkAddsNone
<1>8. CASE SimEnded \/ VehicleEnded \/ StopProcess \/ Reconcile \/ Signal \/ UNCHANGED vars
  <2>1. UNCHANGED <<vpc, vcode, session, down_tx, events, veh_refused, downlink, spc, scode>>
    BY <1>8 DEF SimEnded, VehicleEnded, StopProcess, Reconcile, Signal, vars, sim, vehicle, vehCounts, net
  <2> QED BY <2>1, ReplyingStays
<1>9. CASE WaitExpires
  <2>1. UNCHANGED <<vehicle, veh_refused, downlink>>
    BY <1>9 DEF WaitExpires, net
  <2>2. UNCHANGED <<spc, scode>> \/ (scode' = Killed /\ spc # "done") BY <1>9 DEF WaitExpires
  <2> QED BY <1>1, <1>2, <2>1, <2>2
<1> QED BY <1>3, <1>4, <1>5, <1>6, <1>7, <1>8, <1>9 DEF Next, Sim, Runner, Finished

\* At the start nothing is under way.
LEMMA CalmStarts == Init => CalmInv
<1> SUFFICES ASSUME Init PROVE CalmInv OBVIOUS
<1>1. Bagged(uplink) /\ Bagged(downlink) /\ Load(uplink) = 0 /\ Load(downlink) = 0
  BY EmptyFacts DEF Init
<1>2. BagToSet(uplink) = {} /\ BagToSet(downlink) = {} BY <1>1, EmptyFacts
<1>3. /\ \A k \in SendFields : up_tx[k] = 0 /\ down_tx[k] = 0
      /\ down_tx.original_tx_fail = 0
      /\ up_rx.received_raw = 0 /\ down_rx.received_raw = 0 /\ down_rx.logical_received = 0
      /\ up_rx.malformed = 0 /\ down_rx.malformed = 0
      /\ events.ring_drops = 0 /\ events.record_pending = 0
  BY DEF Init, Zero, UpRxFields, DownRxFields, EventFields
<1>4. Newest = -1 /\ ~session.reply_transmitted /\ ~session.integrity /\ session.fault = NoTerminal
  BY DEF Init, Newest, NoTick
<1>5. /\ spc = "tick" /\ tick = 0 /\ attempt = 0 /\ logged = FALSE /\ frame = NoFrame /\ vpc = "top"
      /\ scode = 0 /\ vcode = 0 /\ rpc = "sim" /\ faults = <<>>
      /\ ~sim_refused /\ ~veh_refused /\ ~stop_requested /\ ~interrupted
  BY DEF Init
<1>6. Sampling
  <2>1. /\ up_tx.send_pending = 0 /\ up_tx.generated = 0 /\ up_tx.not_attempted = 0
        /\ up_tx.never_transmitted = 0
    BY <1>3 DEF SendFields
  <2>2. up_tx.generated = tick + One(spc # "tick") /\ down_rx.logical_received = tick + One(spc = "done")
    BY <1>3, <1>5, <2>1 DEF One
  <2>3. /\ up_tx.not_attempted = One(spc = "send" /\ attempt = 0)
        /\ up_tx.never_transmitted = One(spc \in {"send", "wait"} /\ ~logged)
    BY <1>5, <2>1 DEF One
  <2> QED BY <1>2, <1>5, <2>1, <2>2, <2>3 DEF Sampling
<1>7. Replying BY <1>2, <1>3, <1>4, <1>5 DEF Replying, One, SendFields, NoTick
<1>8. Cardinality(Failed) = 0
  <2>1. Failed = {} BY <1>5 DEF Failed
  <2> QED BY <2>1, FS_EmptySet
<1>9. Even
  <2>1. UpGap = 0 /\ DownGap = 0 /\ up_tx.tx_fail = 0 /\ down_tx.never_transmitted = 0
    BY <1>1, <1>3 DEF UpGap, DownGap, SendFields
  <2> QED BY <1>2, <1>3, <1>4, <1>5, <1>8, <2>1 DEF Even, One, NoTick
<1>10. Unstopped BY <1>4, <1>5 DEF Unstopped
<1> QED BY <1>6, <1>7, <1>9, <1>10 DEF CalmInv

\* Every step keeps a calm run calm.
LEMMA CalmSteps ==
    ASSUME Ticks > 1, LockstepInv, FaultInv, CalmInv, [Next]_vars
    PROVE  CalmInv'
<1>1. Sampling /\ Replying BY DEF CalmInv
<1>2. Sampling' /\ Replying' BY <1>1, SamplingSteps, ReplyingSteps
<1>3. ASSUME Calm' PROVE Even' /\ Unstopped'
  <2>1. /\ Calm /\ scode' = scode
        /\ \A kind \in FaultKinds :
              faults' = Append(faults, kind) => kind \in {"fail_sensor", "drop_actuator"}
    BY <1>3, CalmBefore
  <2>2. Even /\ Unstopped /\ scode = 0 /\ scode' = 0 BY <2>1 DEF CalmInv, Calm
  <2>3. CASE Sim \/ SimKilled BY <2>1, <2>2, <2>3, EvenSim, UnstoppedOthers
  <2>4. CASE Vehicle BY <1>1, <2>1, <2>2, <2>4, EvenVehicle, UnstoppedVehicle
  <2>5. CASE Lose \/ Corrupt \/ Signal \/ WaitExpires \/ Runner \/ UNCHANGED vars
    BY <2>1, <2>2, <2>5, EvenOthers, UnstoppedOthers
  <2> QED BY <2>3, <2>4, <2>5 DEF Next, Finished
<1> QED BY <1>2, <1>3 DEF CalmInv

\* As long as nothing goes wrong but sends of samples and dropped replies, every
\* copy is received, under way or refused by the vehicle's closed port, no reply
\* fails, and the runner only follows the two processes' own ends.
THEOREM LockstepCalm == ASSUME Ticks > 1 PROVE Spec => []CalmInv
<1>1. LockstepInv /\ FaultInv /\ CalmInv /\ [Next]_vars => CalmInv'
  BY CalmSteps
<1> QED
  BY <1>1, CalmStarts, LockstepInvariant, LockstepFaultTraces, PTL DEF Spec

\* What reconcile.py decides about a calm run.
LEMMA CalmEnd ==
    ASSUME Ticks > 1, LockstepInv, FaultInv, CalmInv, rpc = "done", Calm, rt_ok
    PROVE  rcode = 0 <=> /\ uplink = EmptyBag /\ downlink = EmptyBag
                         /\ up_tx.tx_fail = Cardinality(Failed)
<1>1. Sampling /\ Replying /\ Even /\ Unstopped /\ scode = 0 BY DEF CalmInv, Calm
<1>2. spc = "done" /\ vpc = "exited" BY DEF FaultInv, Watched
<1>3. /\ final_reason # "peer_lost" /\ frame = NoFrame /\ Newest = tick /\ tick \in Nat
      /\ final_reason # "none"
  BY <1>1, <1>2 DEF LockstepInv, Known, Types
<1>4. vcode = 0
  <2>1. session.state = agreed BY <1>3 DEF LockstepInv, Stepped, Level
  <2>2. PICK staleness : Loop!Paired(final_reason, agreed.terminal.reason, staleness)
    BY <1>3, SameAbsent DEF LockstepInv, Looping, Loop!EndsPaired
  <2>3. agreed.terminal.reason \notin {"PEER_LOST", "INTERNAL", "NONE"} BY <2>2 DEF Loop!Paired
  <2> QED BY <1>1, <1>2, <2>1, <2>3 DEF Unstopped
<1>5. TerminalsAgree /\ matched BY <1>1, <1>2, <1>4, Agreement DEF SuccessMeansAgreement
<1>6. rcode = 0 <=> Eligible
  <2>1. rcode = IF vcode # 0 THEN 2 ELSE IF Eligible THEN 0 ELSE 8 BY <1>1 DEF Unstopped
  <2> QED BY <1>4, <2>1
<1>7. /\ Load(uplink) \in Nat /\ Load(downlink) \in Nat
      /\ Load(uplink) = 0 <=> uplink = EmptyBag
      /\ Load(downlink) = 0 <=> downlink = EmptyBag
  BY GapTypes, EmptyFacts DEF FaultInv, Loads
<1>8. /\ \A k \in SendFields : up_tx[k] \in Int /\ down_tx[k] \in Int
      /\ \A k \in UpRxFields : up_rx[k] \in Int
      /\ \A k \in DownRxFields : down_rx[k] \in Int
      /\ \A k \in EventFields : events[k] \in Int
  BY CountTypes
<1>9. Cardinality(Failed) \in Nat BY FailedFacts DEF FaultInv, Shown
<1>10. UpGap = up_tx.tx_fail - Cardinality(Failed) /\ DownGap = 0
  BY <1>1, <1>2, <1>8, <1>9 DEF Even, One, SendFields
<1>11. up_tx.transmitted = up_rx.received_raw
       <=> uplink = EmptyBag /\ up_tx.tx_fail = Cardinality(Failed)
  <2>1. /\ up_tx.transmitted \in Int /\ up_tx.tx_fail \in Int /\ up_rx.received_raw \in Int
    BY <1>8 DEF SendFields, UpRxFields
  <2>2. /\ up_tx.transmitted - up_rx.received_raw - Load(uplink) = up_tx.tx_fail - Cardinality(Failed)
        /\ UpGap \in Nat
    BY <1>10, GapTypes DEF UpGap, FaultInv
  <2> DEFINE a == up_tx.transmitted
             b == up_rx.received_raw
             c == up_tx.tx_fail
             n == Cardinality(Failed)
             unread == Load(uplink)
  <2>3. a \in Int /\ b \in Int /\ c \in Int /\ n \in Nat /\ unread \in Nat
        /\ a - b - unread = c - n /\ c - n \in Nat
    BY <1>7, <1>9, <1>10, <2>1, <2>2
  <2> HIDE DEF a, b, c, n, unread
  <2>4. (a = b) <=> (unread = 0 /\ c = n) BY <2>3
  <2> QED BY <1>7, <2>4 DEF a, b, c, n, unread
<1>12. down_tx.transmitted = down_rx.received_raw <=> downlink = EmptyBag
  <2>1. down_tx.transmitted \in Int /\ down_rx.received_raw \in Int
    BY <1>8 DEF SendFields, DownRxFields
  <2>2. down_tx.transmitted - down_rx.received_raw - Load(downlink) = 0
    BY <1>10 DEF DownGap
  <2> DEFINE a == down_tx.transmitted
             b == down_rx.received_raw
             unread == Load(downlink)
  <2>3. a \in Int /\ b \in Int /\ unread \in Nat /\ a - b - unread = 0 BY <1>7, <2>1, <2>2
  <2> HIDE DEF a, b, unread
  <2>4. (a = b) <=> (unread = 0) BY <2>3
  <2> QED BY <1>7, <2>4 DEF a, b, unread
<1>13. /\ up_tx.generated = tick + 1 /\ up_tx.not_attempted = 0 /\ up_tx.never_transmitted = 0
       /\ up_tx.send_pending = 0 /\ down_rx.logical_received = tick + 1
  BY <1>1, <1>2 DEF Sampling, One
<1>14. /\ down_tx.send_pending = 0 /\ down_tx.generated = tick + 1 /\ down_tx.not_attempted = 0
       /\ events.record_pending = 0
  BY <1>1, <1>2, <1>3, <1>4 DEF Replying, One, Killed
<1>15. /\ up_rx.malformed = 0 /\ down_rx.malformed = 0 /\ events.ring_drops = 0
       /\ down_tx.original_tx_fail = 0 /\ down_tx.never_transmitted = 0
  BY <1>1, <1>2 DEF Even, One
<1>16. up_rx.logical_received = tick + 1 /\ events.episode_transitions = tick + 1
  BY <1>3 DEF LockstepInv, Counted
<1>17. Closed /\ RecordsClose BY DEF LockstepInv, CountersClose
<1>18. up_tx.first_transmitted = tick + 1
  BY <1>8, <1>13, <1>17 DEF Closed, SenderCloses, SendFields
<1>19. events.records_pushed = tick + 1
  BY <1>8, <1>14, <1>15, <1>16, <1>17 DEF RecordsClose, EventFields
<1>20. Complete(up_tx, up_rx) <=> uplink = EmptyBag /\ up_tx.tx_fail = Cardinality(Failed)
  BY <1>11, <1>13, <1>15 DEF Complete
<1>21. Complete(down_tx, down_rx) <=> downlink = EmptyBag
  BY <1>12, <1>14, <1>15 DEF Complete
<1>22. vcode # Killed /\ scode # Killed BY <1>1, <1>4 DEF Killed
<1>23. /\ up_rx.logical_received > 0
       /\ events.episode_transitions = up_rx.logical_received
       /\ up_tx.generated = up_rx.logical_received /\ up_tx.first_transmitted = up_rx.logical_received
       /\ down_tx.generated = up_rx.logical_received
       /\ down_rx.logical_received = up_rx.logical_received
       /\ events.records_pushed = up_rx.logical_received
  BY <1>3, <1>13, <1>14, <1>16, <1>18, <1>19
<1>24. Eligible <=> Complete(up_tx, up_rx) /\ Complete(down_tx, down_rx)
  BY <1>5, <1>14, <1>15, <1>17, <1>21, <1>22, <1>23 DEF Eligible
<1> QED BY Zenon, <1>6, <1>20, <1>21, <1>24

\* Retries do no harm but two: a run whose only faults are failed sends of samples
\* and dropped replies is eligible, unless a copy stays unread in a closing socket,
\* or the simulator retried into the port that the vehicle's exit had closed and a
\* further send met the refusal.
THEOREM LockstepRetriesHarmless == ASSUME Ticks > 1 PROVE Spec => []RetriesAreHarmless
<1>1. LockstepInv /\ FaultInv /\ CalmInv => RetriesAreHarmless
  <2> SUFFICES ASSUME LockstepInv, FaultInv, CalmInv, rpc = "done", scode = 0, rt_ok,
                      Range(faults) \subseteq {"fail_sensor", "drop_actuator"}
               PROVE  rcode = 0 <=> /\ uplink = EmptyBag /\ downlink = EmptyBag
                                    /\ up_tx.tx_fail = Cardinality(Failed)
    BY DEF RetriesAreHarmless
  <2>1. Calm BY DEF Calm, Kinds
  <2> QED BY <2>1, CalmEnd
<1> QED
  BY <1>1, LockstepInvariant, LockstepFaultTraces, LockstepCalm, PTL
=============================================================================
