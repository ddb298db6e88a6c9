--------------------------- MODULE FreerunProofs ---------------------------
(***************************************************************************)
(* The invariants of Freerun hold for every skew limit, batch size,        *)
(* warm-up, grace and number of faults.  The inductive invariant is built  *)
(* in parts, each preserved by the steps of Next with the help of the      *)
(* parts before it:                                                        *)
(*   Core       types, the admission between two cycles, the frames under  *)
(*              way and kept, their order and where the processes are      *)
(*   EndsOk     how each side ends and what it knows of the other's end    *)
(*   UpOk       where every sample sent is; RunnerOk, what the runner knows*)
(*   DownOk     where every reply sent is; SimCloses, the simulator's books*)
(*   Measured   the recording against the counters of both windows         *)
(* StepKinds sorts the steps of Next into the kinds that the parts treat.  *)
(***************************************************************************)
EXTENDS AdmissionCyclesProofs

-----------------------------------------------------------------------------
(* The steps. *)

\* The history of faults only grows.
Graver == faults' \in Seq(FaultKinds) /\ (faults' = faults \/ faults' # <<>>)

\* A fault is recorded, or none.
LEMMA FaultFacts ==
  ASSUME faults \in Seq(FaultKinds), NEW what \in FaultKinds, Fault(what) \/ NoFault \/ faults' = faults
  PROVE  Graver
<1>1. CASE Fault(what)
  <2>1. faults' = Append(faults, what)
    BY <1>1 DEF Fault
  <2>2. Append(faults, what) \in Seq(FaultKinds) /\ Append(faults, what) # <<>>
    <3>1. Append(faults, what) \in Seq(FaultKinds) /\ Len(Append(faults, what)) = Len(faults) + 1
      OBVIOUS
    <3>2. Len(faults) + 1 # 0 /\ Len(<<>>) = 0
      OBVIOUS
    <3> QED
      BY <3>1, <3>2
  <2> QED
    BY <2>1, <2>2 DEF Graver
<1>2. CASE NoFault \/ faults' = faults
  BY <1>2 DEF NoFault, Graver
<1> QED
  BY <1>1, <1>2

\* A step that moves no datagram, of a signal, the runner or the wait for the
\* first datagram.
Quiet ==
    /\ UNCHANGED <<spc, model, k, offset, scode, r, carry, acquired, uplink, downlink, sim_refused,
                   veh_refused, damaged, vcode>>
    /\ \/ vpc' = vpc /\ rt_ok' = rt_ok
       \/ vpc = "acquire" /\ vpc' = "after"
    /\ rt_ok' \in BOOLEAN /\ stop' \in BOOLEAN /\ stopped' \in BOOLEAN
    /\ stop => stop'
    /\ vpc = "exited" => stop' = stop
    /\ Graver

\* These steps are quiet.
LEMMA QuietSteps ==
  ASSUME Typed,
         \/ SimSignal \/ Signal \/ SimEnded \/ VehicleEnded \/ WaitExpires \/ StopVehicle
         \/ Stopped \/ Judge \/ Finished \/ AcquireFails \/ UNCHANGED vars
  PROVE  Quiet
<1>0. faults \in Seq(FaultKinds)
  BY DEF Typed
<1>1. CASE SimSignal
  <2>1. "sim_signal" \in FaultKinds
    BY DEF FaultKinds
  <2>2. Graver
    BY <1>0, <1>1, <2>1, FaultFacts DEF SimSignal
  <2> QED
    BY <1>1, <2>2 DEF SimSignal, Quiet, Typed, sim, vehicle, net, history
<1>2. CASE Signal
  <2>1. "signal" \in FaultKinds
    BY DEF FaultKinds
  <2>2. Graver
    BY <1>0, <1>2, <2>1, FaultFacts DEF Signal
  <2> QED
    BY <1>2, <2>2 DEF Signal, RaiseStop, Quiet, Typed, sim, net, history
<1>11. ASSUME faults' = faults PROVE Graver
  BY <1>0, <1>11 DEF Graver
<1>3. CASE SimEnded
  BY <1>3, <1>11 DEF SimEnded, Quiet, Typed, sim, vehicle, signals, net, history
<1>4. CASE VehicleEnded
  BY <1>4, <1>11 DEF VehicleEnded, Quiet, Typed, sim, vehicle, signals, net, history
<1>5. CASE WaitExpires
  <2>1. "slow" \in FaultKinds
    BY DEF FaultKinds
  <2>2. Graver
    BY <1>0, <1>5, <2>1, FaultFacts DEF WaitExpires
  <2> QED
    BY <1>5, <2>2 DEF WaitExpires, Quiet, Typed, sim, vehicle, net, history
<1>6. CASE StopVehicle
  <2>1. CASE vpc = "exited"
    BY <1>6, <1>11, <2>1 DEF StopVehicle, Quiet, Typed, sim, net, history
  <2>2. CASE vpc # "exited"
    BY <1>6, <1>11, <2>2 DEF StopVehicle, RaiseStop, Quiet, Typed, sim, net, history
  <2> QED
    BY <2>1, <2>2
<1>7. CASE Stopped
  BY <1>7, <1>11 DEF Stopped, Quiet, Typed, sim, vehicle, signals, net, history
<1>8. CASE Judge
  BY <1>8, <1>11 DEF Judge, Quiet, Typed, sim, vehicle, signals, net, history
<1>9. CASE Finished \/ UNCHANGED vars
  BY <1>9, <1>11 DEF Finished, vars, Quiet, Typed, sim, vehicle, signals, net, history
<1>10. CASE AcquireFails
  <2>1. "origin" \in FaultKinds /\ "rt" \in FaultKinds
    BY DEF FaultKinds
  <2>2. Graver
    BY <1>0, <1>10, <2>1, FaultFacts DEF AcquireFails
  <2>3. vpc = "acquire" /\ vpc' = "after" /\ rt_ok' \in BOOLEAN
    BY <1>10 DEF AcquireFails, Typed
  <2> QED
    BY <1>10, <2>2, <2>3 DEF AcquireFails, Quiet, Typed, sim, signals, net, history
<1> QED
  BY <1>1, <1>2, <1>3, <1>4, <1>5, <1>6, <1>7, <1>8, <1>9, <1>10

\* A quiet step keeps the invariant.
LEMMA CoreQuiet ==
  ASSUME Core, Quiet
  PROVE  Core'
<1>1. Typed'
  <2>1. faults' \in Seq(FaultKinds)
    BY DEF Quiet, Graver
  <2>2. vpc' \in {"acquire", "wake", "serve", "resend", "after", "exited"}
    BY DEF Core, Typed, Quiet
  <2> QED
    BY <2>1, <2>2 DEF Core, Typed, Quiet
<1>2. (vpc' = "serve") = (vpc = "serve") /\ (vpc' = "wake") = (vpc = "wake")
  BY DEF Quiet
<1>3. r' = r /\ uplink' = uplink /\ carry' = carry /\ model' = model /\ spc' = spc /\ k' = k
  BY DEF Quiet
<1>4. Admitting(r, vpc = "serve")'
  BY <1>2, <1>3 DEF Core
<1>5. PoolOk(r.admission, uplink, carry, model.envelope, LastTick)'
  BY <1>3 DEF Core, LastTick
<1>6. InOrder(uplink, carry, Pend, r.admission.last_normal_tick)'
  <2>1. Pend' = Pend
    BY <1>2, <1>3 DEF Pend
  <2> QED
    BY <1>3, <2>1 DEF Core
<1>7. SimOk'
  BY DEF Core, SimOk, Quiet
<1>8. VehOk'
  BY DEF Core, VehOk, Quiet
<1> QED
  BY <1>1, <1>4, <1>5, <1>6, <1>7, <1>8 DEF Core

\* A pass of the simulator that sends nothing.
Passes ==
    /\ UNCHANGED <<k, vpc, r, carry, acquired, rt_ok, vcode, stop, stopped, uplink, veh_refused,
                   damaged>>
    /\ spc # "prologue" /\ spc' # "prologue" /\ spc # "done" /\ Graver
    /\ model'.envelope = model.envelope /\ model'.inputs = model.inputs

\* The invariant, if the simulator's part is kept.
LEMMA CorePasses ==
  ASSUME Core, Passes, SimOk', model' \in ModelType, spc' \in {"drain", "offer", "done"},
         offset' \in Nat, scode' \in Int, downlink' \in Seq(ReplyType), sim_refused' \in BOOLEAN
  PROVE  Core'
<1>1. Typed'
  BY DEF Core, Typed, Passes, Graver
<1>2. /\ r' = r /\ uplink' = uplink /\ carry' = carry /\ vpc' = vpc /\ k' = k
      /\ model'.envelope = model.envelope
  BY DEF Passes
<1>3. Admitting(r, vpc = "serve")'
  BY <1>2 DEF Core
<1>4. LastTick' = LastTick
  BY <1>2 DEF LastTick, Passes
<1>5. PoolOk(r.admission, uplink, carry, model.envelope, LastTick)'
  BY <1>2, <1>4 DEF Core
<1>6. InOrder(uplink, carry, Pend, r.admission.last_normal_tick)'
  <2>1. Pend' = Pend
    BY <1>2 DEF Pend
  <2> QED
    BY <1>2, <2>1 DEF Core
<1>7. VehOk'
  BY DEF Core, VehOk, Passes
<1> QED
  BY <1>1, <1>3, <1>5, <1>6, <1>7 DEF Core

\* What a pass drains.
LEMMA DrainsFacts ==
  ASSUME Typed, NEW m \in Drains
  PROVE  /\ Drained(model, m, Batch(downlink)) /\ m \in ModelType
         /\ Batch(downlink) \in Seq(ReplyType) /\ Rest(downlink) \in Seq(ReplyType)
<1>1. model \in ModelType /\ downlink \in Seq(ReplyType) /\ RxMax \in Nat
  BY AdmissionAssumption DEF Typed
<1>2. Batch(downlink) \in Seq(ReplyType) /\ Rest(downlink) \in Seq(ReplyType)
  BY <1>1, BatchFacts
<1>3. PICK drop : m = SimReceive(model, Batch(downlink), drop)
  BY DEF Drains
<1>4. Drained(model, m, Batch(downlink))
  BY <1>1, <1>2, <1>3, SimReceiveFacts
<1> QED
  BY <1>2, <1>4 DEF Drained

\* The simulator's end: an episode without a reason lost its peer.
Ended(m) == [m EXCEPT !.reason = IF @ = "none" THEN "peer_lost" ELSE @]
\* It changes the reason alone.
LEMMA EndedFacts ==
  ASSUME NEW m \in ModelType
  PROVE  /\ Ended(m) \in ModelType /\ Ended(m).reason = IF m.reason = "none" THEN "peer_lost" ELSE m.reason
         /\ Ended(m).vehicle_seen = m.vehicle_seen /\ SameUplink(m, Ended(m))
         /\ Ended(m).down = m.down /\ Ended(m).term = m.term
         /\ Ended(m).last_received_tick = m.last_received_tick
BY DEF ModelType, Ended, SameUplink

\* An interrupted simulator keeps the invariant.
LEMMA CoreInterrupted ==
  ASSUME Core, Interrupted
  PROVE  Core' /\ Passes /\ spc' = "done" /\ model' = Ended(model) /\ downlink' = <<>> /\ scode' # 0
<1>1. /\ spc = "drain" /\ spc' = "done" /\ model' = Ended(model) /\ downlink' = <<>> /\ k' = k
      /\ offset' = offset /\ scode' \in {1, 3} /\ sim_refused' = FALSE /\ faults' = faults
  BY DEF Interrupted, SimEnds, Ended
<1>2. model \in ModelType /\ faults \in Seq(FaultKinds) /\ offset \in Nat /\ SimOk
  BY DEF Core, Typed
<1>3. /\ model' \in ModelType
      /\ model'.reason = IF model.reason = "none" THEN "peer_lost" ELSE model.reason
      /\ SameUplink(model, model')
  BY <1>1, <1>2, EndedFacts
<1>4. Passes
  BY <1>1, <1>2, <1>3 DEF Passes, Interrupted, Graver, SameUplink, vehicle, signals, history
<1>5. SimOk'
  BY <1>1, <1>2, <1>3 DEF SimOk, Ending, SameUplink, Legal, IsTerminal
<1>6. <<>> \in Seq(ReplyType)
  OBVIOUS
<1>8. scode' \in Int /\ scode' # 0 /\ sim_refused' \in BOOLEAN /\ offset' \in Nat
  <2>1. scode' \in Int /\ scode' # 0
    BY <1>1
  <2>2. sim_refused' \in BOOLEAN
    BY <1>1
  <2>3. offset' \in Nat
    BY <1>1, <1>2
  <2> QED
    BY <2>1, <2>2, <2>3
<1>7. Core'
  BY <1>1, <1>3, <1>4, <1>5, <1>6, <1>8, CorePasses
<1> QED
  BY <1>1, <1>4, <1>7, <1>8

\* So does a killed one.
LEMMA CoreSimKilled ==
  ASSUME Core, SimKilled
  PROVE  Core' /\ Passes /\ spc' = "done" /\ model' = model /\ downlink' = <<>> /\ scode' # 0
<1>1. /\ spc = "drain" /\ spc' = "done" /\ model' = model /\ downlink' = <<>> /\ k' = k
      /\ offset' = offset /\ scode' = -9 /\ sim_refused' = sim_refused /\ Fault("kill")
  BY DEF SimKilled, Killed
<1>2. model \in ModelType /\ faults \in Seq(FaultKinds) /\ offset \in Nat /\ SimOk
      /\ sim_refused \in BOOLEAN
  BY DEF Core, Typed
<1>3. Graver
  <2>1. "kill" \in FaultKinds
    BY DEF FaultKinds
  <2> QED
    BY <1>1, <1>2, <2>1, FaultFacts
<1>4. Passes
  BY <1>1, <1>2, <1>3 DEF Passes, SimKilled, vehicle, signals, history
<1>5. SimOk'
  BY <1>1, <1>2 DEF SimOk, Ending
<1>6. <<>> \in Seq(ReplyType)
  OBVIOUS
<1>7. Core'
  BY <1>1, <1>2, <1>4, <1>5, <1>6, CorePasses
<1> QED
  BY <1>1, <1>4, <1>7

\* advance sets the truth and the reason.
LEMMA AdvanceFacts ==
  ASSUME NEW m \in ModelType, NEW n, NEW class \in Truths
  PROVE  LET z == advance(m, n, class) IN
         /\ z \in ModelType /\ z.reason \in {"none"} \union Legal
         /\ z.source = (IF z.reason = "none" THEN m.source ELSE "local")
         /\ z.reason = "none" => z.truth \notin {"diverged", "nonfinite"}
         /\ z.vehicle_seen = m.vehicle_seen /\ z.envelope = m.envelope /\ z.inputs = m.inputs
         /\ z.up = m.up /\ z.down = m.down /\ z.term = m.term
         /\ z.last_received_tick = m.last_received_tick /\ z.terminal_logged = m.terminal_logged
<1> DEFINE why == CASE class = "nonfinite" -> "nonfinite" [] class = "diverged" -> "angle"
                    [] OTHER -> IF n + 1 = Ticks - 1 THEN "horizon" ELSE "none"
           z == advance(m, n, class)
<1>1. why \in {"none"} \union Legal /\ (why = "none" => class \notin {"diverged", "nonfinite"})
  BY DEF Legal
<1>2. z = [m EXCEPT !.truth = class, !.reason = why,
                    !.source = IF why = "none" THEN @ ELSE "local"]
  BY DEF advance
<1> HIDE DEF z, why
<1>3. z \in ModelType
  BY <1>1, <1>2 DEF ModelType
<1>4. /\ z.truth = class /\ z.reason = why /\ z.source = (IF why = "none" THEN m.source ELSE "local")
      /\ z.vehicle_seen = m.vehicle_seen /\ z.envelope = m.envelope /\ z.inputs = m.inputs
      /\ z.up = m.up /\ z.down = m.down /\ z.term = m.term
      /\ z.last_received_tick = m.last_received_tick /\ z.terminal_logged = m.terminal_logged
  BY <1>2 DEF ModelType
<1> QED
  BY <1>1, <1>3, <1>4 DEF z

\* What becomes of the model in a body: the vehicle's ending, or a step of the
\* plant.
Steered(m) ==
    \/ /\ m.vehicle_seen # "NONE" /\ spc' = "done" /\ scode' = 0 /\ downlink' = <<>>
       /\ model' = Ended([m EXCEPT !.source = "vehicle"]) /\ decided' = decided
    \/ /\ m.vehicle_seen = "NONE" /\ spc' = "offer" /\ scode' = scode /\ downlink' = Rest(downlink)
       /\ \E class \in Truths : model' = advance(m, k, class)

\* A body keeps the invariant.
LEMMA CoreBody ==
  ASSUME Core, Body
  PROVE  Core' /\ Passes /\ spc = "drain" /\ offset = 0 /\ \E m \in Drains : Steered(m)
<1>1. /\ spc = "drain" /\ offset = 0 /\ k' = k /\ offset' = offset /\ faults' = faults
      /\ sim_refused' = sim_refused
  BY DEF Body, SimEnds
<1>2. PICK m \in Drains : Steered(m)
  BY DEF Body, SimEnds, Steered, Ended
<1>3. /\ Drained(model, m, Batch(downlink)) /\ m \in ModelType
      /\ Rest(downlink) \in Seq(ReplyType)
  BY DrainsFacts DEF Core
<1>4. /\ model.reason = "none" /\ SimOk /\ faults \in Seq(FaultKinds) /\ offset \in Nat
      /\ sim_refused \in BOOLEAN /\ scode \in Int /\ k \in Nat
  BY <1>1 DEF Core, SimOk, Typed
<1>5. /\ model.source = "none" /\ model.envelope = NoFrame
  BY <1>4 DEF SimOk, Ending, IsTerminal
<1>6. /\ m.reason = (IF m.vehicle_seen # "NONE" THEN "vehicle" ELSE "none") /\ m.source = "none"
      /\ m.envelope = NoFrame /\ m.inputs = model.inputs
  BY <1>3, <1>4, <1>5 DEF Drained, SameUplink
<1>7. Graver
  BY <1>1, <1>4 DEF Graver
<1>8. CASE m.vehicle_seen # "NONE"
  <2> DEFINE x == [m EXCEPT !.source = "vehicle"]
  <2>1. /\ x \in ModelType /\ x.reason = "vehicle" /\ x.source = "vehicle" /\ x.envelope = NoFrame
        /\ x.inputs = model.inputs
    BY <1>3, <1>6, <1>8 DEF ModelType
  <2>2. spc' = "done" /\ scode' = 0 /\ downlink' = <<>> /\ model' = Ended(x)
    BY <1>2, <1>8 DEF Steered
  <2> HIDE DEF x
  <2>3. /\ model' \in ModelType /\ model'.reason = "vehicle" /\ model'.source = "vehicle"
        /\ model'.envelope = NoFrame /\ model'.inputs = model.inputs
    BY <2>1, <2>2, EndedFacts DEF SameUplink
  <2>4. Passes
    BY <1>1, <1>5, <1>7, <2>2, <2>3 DEF Passes, Body, vehicle, signals
  <2>5. SimOk'
    BY <2>2, <2>3 DEF SimOk, Ending, Legal
  <2>6. <<>> \in Seq(ReplyType)
    OBVIOUS
  <2>7. Core'
    BY <1>1, <1>4, <2>2, <2>3, <2>4, <2>5, <2>6, CorePasses
  <2> QED
    BY <1>1, <1>2, <2>4, <2>7
<1>9. CASE m.vehicle_seen = "NONE"
  <2>1. spc' = "offer" /\ scode' = scode /\ downlink' = Rest(downlink)
    BY <1>2, <1>9 DEF Steered
  <2>2. PICK class \in Truths : model' = advance(m, k, class)
    BY <1>2, <1>9 DEF Steered
  <2>3. /\ model' \in ModelType /\ model'.reason \in {"none"} \union Legal
        /\ model'.source = (IF model'.reason = "none" THEN m.source ELSE "local")
        /\ model'.reason = "none" => model'.truth \notin {"diverged", "nonfinite"}
        /\ model'.vehicle_seen = m.vehicle_seen /\ model'.envelope = m.envelope
        /\ model'.inputs = m.inputs
    BY <1>3, <2>2, AdvanceFacts
  <2>4. Passes
    BY <1>1, <1>5, <1>6, <1>7, <2>1, <2>3 DEF Passes, Body, vehicle, signals
  <2>5. SimOk'
    BY <1>1, <1>6, <1>9, <2>1, <2>3 DEF SimOk, Ending, Legal
  <2>6. Core'
    BY <1>1, <1>3, <1>4, <2>1, <2>3, <2>4, <2>5, CorePasses
  <2> QED
    BY <1>1, <1>2, <2>4, <2>6
<1> QED
  BY <1>8, <1>9

\* What becomes of the model in a pass after the terminal tick.
Awaited(m) ==
    \/ /\ m.vehicle_seen # "NONE" /\ spc' = "done" /\ scode' = 0 /\ downlink' = <<>>
       /\ model' = Ended(m) /\ offset' = offset
    \/ /\ m.vehicle_seen = "NONE" /\ spc' = "done" /\ scode' = 3 /\ downlink' = <<>>
       /\ model' = Ended(m) /\ offset' = offset
    \/ /\ m.vehicle_seen = "NONE" /\ spc' \in {"drain", "offer"} /\ scode' = scode
       /\ downlink' = Rest(downlink) /\ model' = m /\ offset' \in {offset, offset + 1}

\* A pass after the terminal tick keeps the invariant.
LEMMA CoreAfter ==
  ASSUME Core, After
  PROVE  Core' /\ Passes /\ spc = "drain" /\ offset # 0 /\ \E m \in Drains : Awaited(m)
<1>1. /\ spc = "drain" /\ offset > 0 /\ k' = k /\ faults' = faults /\ sim_refused' = sim_refused
  BY DEF After, SimEnds
<1>2. PICK m \in Drains : Awaited(m)
  BY DEF After, SimEnds, Awaited, Ended
<1>3. /\ Drained(model, m, Batch(downlink)) /\ m \in ModelType
      /\ Rest(downlink) \in Seq(ReplyType)
  BY DrainsFacts DEF Core
<1>4. /\ offset \in Nat /\ SimOk /\ faults \in Seq(FaultKinds) /\ sim_refused \in BOOLEAN
      /\ scode \in Int
  BY DEF Core, Typed
<1>5. offset # 0 /\ model.reason \in Legal /\ model.reason # "none"
  BY <1>1, <1>4 DEF SimOk, Legal
<1>6. m.reason = model.reason /\ SameUplink(model, m)
  BY <1>3, <1>5 DEF Drained
<1>7. Graver
  BY <1>1, <1>4 DEF Graver
<1>8. CASE model' = Ended(m) /\ spc' = "done"
  <2>1. /\ model' \in ModelType /\ model'.reason = model.reason
        /\ SameUplink(m, model')
    BY <1>3, <1>5, <1>6, <1>8, EndedFacts
  <2>2. Passes
    BY <1>1, <1>6, <1>7, <1>8, <2>1 DEF Passes, After, SameUplink, vehicle, signals, history
  <2>3. SimOk'
    BY <1>1, <1>4, <1>6, <1>8, <2>1 DEF SimOk, Ending, SameUplink
  <2>4. <<>> \in Seq(ReplyType)
    OBVIOUS
  <2>5. scode' \in Int /\ downlink' = <<>> /\ offset' = offset
    BY <1>2, <1>8 DEF Awaited
  <2>6. Core'
    BY <1>1, <1>4, <1>8, <2>1, <2>2, <2>3, <2>4, <2>5, CorePasses
  <2> QED
    BY <1>1, <1>2, <1>5, <2>2, <2>6
<1>9. CASE /\ m.vehicle_seen = "NONE" /\ spc' \in {"drain", "offer"} /\ scode' = scode
           /\ downlink' = Rest(downlink) /\ model' = m /\ offset' \in {offset, offset + 1}
  <2>1. Passes
    BY <1>1, <1>6, <1>7, <1>9 DEF Passes, After, SameUplink, vehicle, signals, history
  <2>2. offset' \in Nat /\ offset' # 0
    BY <1>4, <1>5, <1>9
  <2>3. SimOk'
    BY <1>1, <1>4, <1>5, <1>6, <1>9, <2>2 DEF SimOk, Ending, SameUplink
  <2>4. Core'
    BY <1>1, <1>3, <1>4, <1>9, <2>1, <2>2, <2>3, CorePasses
  <2> QED
    BY <1>1, <1>2, <1>5, <2>1, <2>4
<1> QED
  BY <1>2, <1>8, <1>9 DEF Awaited

\* A frame joins the queue.
LEMMA AppendFacts ==
  ASSUME NEW S, NEW u \in Seq(S), NEW f \in S, NEW w \in {u, Append(u, f)}
  PROVE  /\ w \in Seq(S) /\ DOMAIN u \subseteq DOMAIN w /\ Len(u) \in Nat /\ DOMAIN u = 1 .. Len(u)
         /\ \A i \in DOMAIN w : i \in Nat
         /\ \A i \in DOMAIN u : w[i] = u[i] /\ i < Len(u) + 1
         /\ \A i \in DOMAIN w : i \notin DOMAIN u => i = Len(u) + 1 /\ w[i] = f
<1>1. CASE w = u
  BY <1>1
<1>2. CASE w = Append(u, f)
  <2>1. w \in Seq(S) /\ Len(w) = Len(u) + 1 /\ DOMAIN w = 1 .. Len(u) + 1 /\ DOMAIN u = 1 .. Len(u)
        /\ Len(u) \in Nat
    BY <1>2
  <2>2. w[Len(u) + 1] = f /\ \A i \in 1 .. Len(u) : w[i] = u[i]
    BY <1>2
  <2> QED
    BY <2>1, <2>2
<1> QED
  BY <1>1, <1>2

\* The pool with one frame more.
LEMMA AroundGrows ==
  ASSUME NEW a, NEW u \in Seq(SimFrames \union {Malformed}), NEW f \in SimFrames,
         NEW w \in {u, Append(u, f)}, NEW c, NEW e, NEW d \in {e, f}
  PROVE  Around(a, w, c, d) \subseteq Around(a, u, c, e) \union {f}
<1>1. f \in SimFrames \union {Malformed}
  OBVIOUS
<1>2. /\ \A i \in DOMAIN u : w[i] = u[i]
      /\ \A i \in DOMAIN w : i \notin DOMAIN u => w[i] = f
  BY <1>1, AppendFacts
<1>3. \A i \in DOMAIN w : w[i] = f \/ (i \in DOMAIN u /\ w[i] = u[i])
  BY <1>2
<1> QED
  BY <1>3 DEF Around

\* Next sample.
LEMMA SampleJoins ==
  ASSUME NEW a, NEW u \in Seq(SimFrames \union {Malformed}), NEW f \in SimFrames,
         NEW w \in {u, Append(u, f)}, NEW c \in SimFrames \union {NoFrame}, NEW n \in Int,
         a.last_normal_tick \in Int, PoolOk(a, u, c, NoFrame, n),
         ~IsTerminal(f), f.tick = n + 1, f.body \in {"diverged", "nonfinite"} => f.tick = 0,
         NEW pend, InOrder(u, c, pend, a.last_normal_tick)
  PROVE  PoolOk(a, w, c, NoFrame, n + 1) /\ InOrder(w, c, pend, a.last_normal_tick)
<1> DEFINE P == Around(a, u, c, NoFrame)
           Q == Around(a, w, c, NoFrame)
           last == a.last_normal_tick
           base == IF pend /\ IsSample(c) THEN c.tick ELSE last
<1>1. Q \subseteq P \union {f}
  BY AroundGrows
<1>2. P \subseteq SimFrames /\ Agree(P) /\ (\A g \in P : KnownToSim(g, NoFrame, n)) /\ last <= n
  BY DEF PoolOk
<1>3. NoFrame \notin P
  BY DEF Around
<1>17. ~IsTerminal(Malformed) /\ ~IsTerminal(NoFrame) /\ NoFrame \notin SimFrames /\ Malformed \notin SimFrames
  BY DEF IsTerminal, Malformed, NoFrame, SimFrames
<1>18. \A i \in DOMAIN u : u[i] \in SimFrames => u[i] \in P
  BY <1>17 DEF Around
<1>19. c \in SimFrames => c \in P
  BY <1>17 DEF Around
<1>20. \A i \in DOMAIN u : u[i] \in SimFrames \union {Malformed}
  OBVIOUS
<1> HIDE DEF P, Q
<1>4. \A g \in P : ~IsTerminal(g) /\ g.tick <= n /\ g.tick \in Nat /\ g.tick # f.tick /\ g.tick <= n + 1
  <2> SUFFICES ASSUME NEW g \in P
               PROVE  ~IsTerminal(g) /\ g.tick <= n /\ g.tick \in Nat /\ g.tick # f.tick
                      /\ g.tick <= n + 1
    OBVIOUS
  <2>1. ~IsTerminal(g) /\ g.tick <= n
    BY <1>2, <1>3 DEF KnownToSim
  <2>2. g.tick \in Nat
    BY <1>2 DEF SimFrames
  <2> QED
    BY <2>1, <2>2
<1>5. Q \subseteq SimFrames
  BY <1>1, <1>2
<1>6. Agree(Q)
  BY <1>1, <1>2, <1>4 DEF Agree
<1>7. \A g \in Q : KnownToSim(g, NoFrame, n + 1)
  <2> SUFFICES ASSUME NEW g \in Q PROVE KnownToSim(g, NoFrame, n + 1)
    OBVIOUS
  <2>1. CASE g = f
    <3>1. f.tick <= n + 1
      OBVIOUS
    <3> QED
      BY <2>1, <3>1 DEF KnownToSim
  <2>2. CASE g # f
    BY <1>1, <1>2, <1>4, <2>2 DEF KnownToSim
  <2> QED
    BY <2>1, <2>2
<1>8. last <= n + 1
  BY <1>2
<1>9. PoolOk(a, w, c, NoFrame, n + 1)
  BY <1>5, <1>6, <1>7, <1>8 DEF PoolOk, Q
<1>10. /\ w \in Seq(SimFrames \union {Malformed}) /\ Len(u) \in Nat
       /\ \A i \in DOMAIN w : i \in Nat
       /\ \A i \in DOMAIN u : w[i] = u[i] /\ i < Len(u) + 1
       /\ \A i \in DOMAIN w : i \notin DOMAIN u => i = Len(u) + 1 /\ w[i] = f
  <2>1. f \in SimFrames \union {Malformed}
    OBVIOUS
  <2> QED
    BY <2>1, AppendFacts, SMTT(30)
<1>11. /\ \A i \in DOMAIN u : IsSample(u[i]) => u[i].tick > base
       /\ \A i, j \in DOMAIN u : i < j /\ IsSample(u[i]) /\ IsSample(u[j]) => u[i].tick < u[j].tick
  BY DEF InOrder, Rising
<1>12. \A i \in DOMAIN u : /\ ~IsTerminal(u[i])
                           /\ IsSample(u[i]) => u[i].tick < n + 1
  <2> SUFFICES ASSUME NEW i \in DOMAIN u
               PROVE  ~IsTerminal(u[i]) /\ (IsSample(u[i]) => u[i].tick < n + 1)
    OBVIOUS
  <2>1. CASE u[i] = Malformed
    BY <1>17, <2>1 DEF IsSample
  <2>2. CASE u[i] # Malformed
    <3>1. u[i] \in P
      BY <1>18, <1>20, <2>2
    <3>2. ~IsTerminal(u[i]) /\ u[i].tick <= n /\ u[i].tick \in Nat
      BY <1>4, <3>1
    <3> QED
      BY <3>2
  <2> QED
    BY <2>1, <2>2
<1>13. base < n + 1
  <2>1. c = NoFrame => c.tick < n + 1
    <3>1. n >= -1
      <4>1. f.tick \in Nat
        BY DEF SimFrames
      <4> QED
        BY <4>1
    <3> QED
      BY <3>1 DEF NoFrame
  <2>2. c # NoFrame => c.tick < n + 1
    <3> SUFFICES ASSUME c # NoFrame PROVE c.tick < n + 1
      OBVIOUS
    <3>1. c.tick <= n /\ c.tick \in Nat
      BY <1>4, <1>19
    <3> QED
      BY <3>1
  <2>3. last < n + 1
    BY <1>2
  <2> QED
    BY <2>1, <2>2, <2>3
<1>14. IsSample(f) /\ f # Malformed
  BY <1>17 DEF IsSample
<1> HIDE DEF base, last
<1>15. Rising(w, base)
  <2>1. \A i \in DOMAIN w : IsSample(w[i]) => w[i].tick > base
    <3> SUFFICES ASSUME NEW i \in DOMAIN w, IsSample(w[i]) PROVE w[i].tick > base
      OBVIOUS
    <3>1. CASE i \in DOMAIN u
      BY <1>10, <1>11, <3>1
    <3>2. CASE i \notin DOMAIN u
      BY <1>10, <1>13, <3>2
    <3> QED
      BY <3>1, <3>2
  <2>2. ASSUME NEW i \in DOMAIN w, NEW j \in DOMAIN w, i < j, IsSample(w[i]), IsSample(w[j])
        PROVE  w[i].tick < w[j].tick
    <3>1. i \in DOMAIN u
      <4>1. j <= Len(u) + 1
        BY <1>10
      <4> QED
        BY <1>10, <2>2, <4>1
    <3>2. CASE j \in DOMAIN u
      BY <1>10, <1>11, <2>2, <3>1, <3>2
    <3>3. CASE j \notin DOMAIN u
      BY <1>10, <1>12, <2>2, <3>1, <3>3
    <3> QED
      BY <3>2, <3>3
  <2> QED
    BY <2>1, <2>2 DEF Rising
<1>16. \A i \in DOMAIN w : ~IsTerminal(w[i])
  BY <1>10, <1>12
<1>21. ~IsTerminal(c)
  BY <1>4, <1>17, <1>19
<1>22. InOrder(w, c, pend, a.last_normal_tick)
  BY <1>15, <1>16, <1>21 DEF InOrder, base, last
<1> QED
  BY <1>9, <1>22

\* An envelope f after e: new, or a copy.
Succeeds(f, e, n) == e = f \/ (e = NoFrame /\ f.tick = n + 1)

\* It joins the queue.
LEMMA EnvelopeJoins ==
  ASSUME NEW a, NEW u \in Seq(SimFrames \union {Malformed}), NEW f \in SimFrames,
         NEW w \in {u, Append(u, f)}, NEW c \in SimFrames \union {NoFrame}, NEW n \in Int,
         NEW e, PoolOk(a, u, c, e, n), Succeeds(f, e, n), IsTerminal(f)
  PROVE  PoolOk(a, w, c, f, n)
<1> DEFINE P == Around(a, u, c, e)
           Q == Around(a, w, c, f)
<1>0. e \in {f, NoFrame} /\ (e = NoFrame => f.tick = n + 1)
  <2>1. f # NoFrame
    BY DEF SimFrames, NoFrame
  <2> QED
    BY <2>1 DEF Succeeds
<1>1. Q \subseteq P \union {f}
  <2>1. f \in {e, f}
    OBVIOUS
  <2> QED
    BY <2>1, AroundGrows
<1>2. P \subseteq SimFrames /\ Agree(P) /\ (\A g \in P : KnownToSim(g, e, n)) /\ a.last_normal_tick <= n
  BY DEF PoolOk
<1>3. NoFrame \notin P /\ (e = f => f \in P)
  <2>1. f # NoFrame /\ f # Malformed
    BY DEF SimFrames, NoFrame, Malformed
  <2> QED
    BY <2>1 DEF Around
<1> HIDE DEF P, Q
<1>4. \A g \in P : IF IsTerminal(g) THEN g = f ELSE g.tick <= n /\ g.tick \in Nat
  BY <1>0, <1>2, <1>3 DEF KnownToSim, SimFrames
<1>5. Q \subseteq SimFrames
  BY <1>1, <1>2
<1>6. Agree(Q)
  <2>1. CASE e = f
    <3>1. Q \subseteq P
      BY <1>1, <1>3, <2>1
    <3> QED
      BY <1>2, <3>1 DEF Agree
  <2>2. CASE e = NoFrame
    <3>1. f.tick = n + 1
      BY <1>0, <2>2
    <3>2. \A g \in P : g # f => g.tick # f.tick
      BY <1>4, <3>1
    <3> QED
      BY <1>1, <1>2, <3>2 DEF Agree
  <2> QED
    BY <1>0, <2>1, <2>2
<1>7. \A g \in Q : KnownToSim(g, f, n)
  BY <1>1, <1>2, <1>4 DEF KnownToSim
<1> QED
  BY <1>2, <1>5, <1>6, <1>7 DEF PoolOk, Q

\* And keeps the order.
LEMMA EnvelopeInOrder ==
  ASSUME NEW u \in Seq(SimFrames \union {Malformed}), NEW f \in SimFrames, IsTerminal(f),
         NEW w \in {u, Append(u, f)}, NEW c, NEW pend, NEW last, InOrder(u, c, pend, last)
  PROVE  InOrder(w, c, pend, last)
<1>9. /\ Len(u) \in Nat /\ \A i \in DOMAIN w : i \in Nat
      /\ \A i \in DOMAIN u : w[i] = u[i] /\ i < Len(u) + 1
      /\ \A i \in DOMAIN w : i \notin DOMAIN u => i = Len(u) + 1 /\ w[i] = f
  <2>1. f \in SimFrames \union {Malformed}
    OBVIOUS
  <2> QED
    BY <2>1, AppendFacts
<1>10. ~IsSample(f)
  BY DEF IsSample
<1>11. \A i \in DOMAIN w : /\ IsSample(w[i]) => i \in DOMAIN u /\ w[i] = u[i]
                           /\ \A j \in DOMAIN w : i < j /\ j \in DOMAIN u => i \in DOMAIN u /\ w[i] = u[i]
  <2> SUFFICES ASSUME NEW i \in DOMAIN w
               PROVE  /\ IsSample(w[i]) => i \in DOMAIN u /\ w[i] = u[i]
                      /\ \A j \in DOMAIN w : i < j /\ j \in DOMAIN u => i \in DOMAIN u /\ w[i] = u[i]
    OBVIOUS
  <2>1. IsSample(w[i]) => i \in DOMAIN u /\ w[i] = u[i]
    BY <1>9, <1>10
  <2>2. ASSUME NEW j \in DOMAIN w, i < j, j \in DOMAIN u PROVE i \in DOMAIN u /\ w[i] = u[i]
    BY <1>9, <2>2
  <2> QED
    BY <2>1, <2>2
<1> QED
  <2>1. Rising(w, IF pend /\ IsSample(c) THEN c.tick ELSE last)
    BY <1>11 DEF InOrder, Rising
  <2>2. \A i, j \in DOMAIN w : i < j /\ IsTerminal(w[i]) => ~IsSample(w[j])
    BY <1>11 DEF InOrder
  <2>3. IsTerminal(c) => \A i \in DOMAIN w : ~IsSample(w[i])
    BY <1>11 DEF InOrder
  <2> QED
    BY <2>1, <2>2, <2>3 DEF InOrder

\* A send of the simulator, with its result.
Sending(tick, over, how) ==
    LET f == FrameToOffer(model, tick, over)
    IN  /\ how \in {"lost", "failed", "sent"}
        /\ uplink' = IF how = "sent" /\ vpc # "exited" THEN Append(uplink, f) ELSE uplink
        /\ UNCHANGED <<vpc, r, carry, acquired, rt_ok, vcode, stop, stopped, veh_refused, damaged>>
        /\ sim_refused' \in BOOLEAN /\ Graver

\* The datagrams stay in order, and the pool in agreement.
LEMMA SendKeeps ==
  ASSUME Core, NEW over \in BOOLEAN, NEW how, Sending(LastTick + 1, over, how),
         over => model.reason \in Legal,
         ~over => /\ model.reason = "none"
                  /\ model.truth \in {"diverged", "nonfinite"} => LastTick + 1 = 0
  PROVE  LET z == offer(model, LastTick + 1, over, how)
             n == LastTick
         IN  /\ z \in ModelType /\ Offered(model, z, LastTick + 1, over, how)
             /\ uplink' \in Seq(SimFrames \union {Malformed})
             /\ PoolOk(r.admission, uplink', carry, z.envelope, IF over THEN n ELSE n + 1)
             /\ InOrder(uplink', carry, Pend, r.admission.last_normal_tick)
<1> DEFINE n == LastTick
           z == offer(model, n + 1, over, how)
           f == FrameToOffer(model, n + 1, over)
           a == r.admission
           e == model.envelope
<1>1. /\ model \in ModelType /\ k \in Nat /\ carry \in SimFrames \union {NoFrame}
      /\ uplink \in Seq(SimFrames \union {Malformed}) /\ r \in RuntimeType
  BY DEF Core, Typed
<1>2. n \in Int /\ n + 1 \in Nat /\ (spc = "prologue" => k = 0) /\ n <= k
      /\ (spc # "prologue" => n = k)
  BY <1>1 DEF LastTick, Core, SimOk
<1>3. a.last_normal_tick \in Int
  BY <1>1 DEF RuntimeType, AdmissionType
<1>4. PoolOk(a, uplink, carry, e, n) /\ InOrder(uplink, carry, Pend, a.last_normal_tick)
  BY DEF Core
<1>5. how \in {"lost", "failed", "sent"}
  BY DEF Sending
<1>6. uplink' \in {uplink, Append(uplink, f)}
  BY DEF Sending
<1>16. Ending(model, k) /\ (spc = "prologue" => model = NewModel(model.truth))
  BY DEF Core, SimOk
<1> HIDE DEF n
<1>7. z \in ModelType /\ Offered(model, z, n + 1, over, how)
  BY <1>1, <1>2, <1>5, OfferFacts
<1>8. f \in SimFrames
  BY <1>1, <1>2, FrameOffered
<1>9. uplink' \in Seq(SimFrames \union {Malformed})
  BY <1>1, <1>6, <1>8, AppendFacts
<1>10. CASE ~over
  <2>1. e = NoFrame
    BY <1>10, <1>16 DEF Ending, IsTerminal
  <2>2. f.tick = n + 1 /\ f.reason = "none" /\ f.body = model.truth
    BY <1>1, <1>2, <1>10, FrameOffered
  <2>3. ~IsTerminal(f) /\ (f.body \in {"diverged", "nonfinite"} => f.tick = 0)
    BY <1>10, <2>2 DEF IsTerminal, n
  <2>4. z.envelope = NoFrame
    BY <1>7, <1>10, <2>1 DEF Offered
  <2> HIDE DEF z, f, e, a
  <2>5. PoolOk(a, uplink, carry, NoFrame, n)
    BY <1>4, <2>1
  <2>6. PoolOk(a, uplink', carry, NoFrame, n + 1) /\ InOrder(uplink', carry, Pend, a.last_normal_tick)
    BY <1>1, <1>2, <1>3, <1>4, <1>6, <1>8, <2>2, <2>3, <2>5, SampleJoins
  <2> QED
    BY <1>7, <1>9, <1>10, <2>4, <2>6 DEF n, z, f, a
<1>11. CASE over
  <2>1. e = NoFrame => f.tick = n + 1 /\ f.reason = model.reason
    BY <1>1, <1>2, <1>11, FrameOffered
  <2>2. e # NoFrame => f = e
    BY <1>1, <1>2, <1>11, FrameOffered
  <2>3. IsTerminal(f)
    BY <1>11, <1>16, <2>1, <2>2 DEF IsTerminal, Ending, Legal
  <2>4. z.envelope = f
    BY <1>7, <1>11 DEF Offered
  <2>5. e \in {f, NoFrame} /\ (e = NoFrame => f.tick = n + 1)
    BY <2>1, <2>2
  <2> HIDE DEF z, f, e, a
  <2>7. PoolOk(a, uplink, carry, e, n) /\ InOrder(uplink, carry, Pend, a.last_normal_tick)
    BY <1>4
  <2>8. n \in Int /\ uplink \in Seq(SimFrames \union {Malformed}) /\ carry \in SimFrames \union {NoFrame}
    BY <1>1, <1>2
  <2>6. PoolOk(a, uplink', carry, f, n) /\ InOrder(uplink', carry, Pend, a.last_normal_tick)
    <3>1. Succeeds(f, e, n)
      BY <2>5 DEF Succeeds
    <3>2. PoolOk(a, uplink', carry, f, n)
      BY <1>6, <1>8, <2>3, <2>7, <2>8, <3>1, EnvelopeJoins
    <3>3. InOrder(uplink', carry, Pend, a.last_normal_tick)
      BY <1>6, <1>8, <2>3, <2>7, <2>8, EnvelopeInOrder
    <3> QED
      BY <3>2, <3>3
  <2> QED
    BY <1>7, <1>9, <1>11, <2>4, <2>6 DEF n, z, f, a
<1> QED
  BY <1>10, <1>11

\* offer after the prologue: what Offer does.
Sends(how) ==
    LET over == model.reason # "none"
    IN  /\ spc = "offer" /\ spc' = "drain" /\ Sending(k + 1, over, how)
        /\ model' = offer(model, k + 1, over, how)
        /\ IF over THEN offset' = offset + 1 /\ k' = k ELSE k' = k + 1 /\ offset' = offset
        /\ scode' = scode /\ downlink' = downlink

\* Offer is a send.
LEMMA OfferSends ==
  ASSUME Typed, Offer
  PROVE  \E how : Sends(how)
<1> DEFINE over == model.reason # "none"
           f == FrameToOffer(model, k + 1, over)
<1>1. PICK how \in {"lost", "failed", "sent"} :
        /\ model' = offer(model, k + 1, over, how)
        /\ CASE how = "lost" -> UNCHANGED <<uplink, sim_refused>> /\ NoFault
             [] how = "failed" -> /\ UNCHANGED uplink /\ sim_refused' = FALSE
                                  /\ IF sim_refused THEN NoFault ELSE Fault("sensor")
             [] how = "sent" -> ~sim_refused /\ NoFault /\ SendUp(f)
  BY Zenon DEF Offer, Offers
<1>2. faults \in Seq(FaultKinds) /\ sim_refused \in BOOLEAN /\ "sensor" \in FaultKinds
  BY DEF Typed, FaultKinds
<1>3. NoFault \/ Fault("sensor")
  BY <1>1
<1>4. Graver
  BY <1>2, <1>3, FaultFacts
<1> HIDE DEF f
<1>5. uplink' = (IF how = "sent" /\ vpc # "exited" THEN Append(uplink, f) ELSE uplink)
      /\ sim_refused' \in BOOLEAN
  <2>1. CASE how = "lost"
    BY <1>1, <1>2, <2>1
  <2>2. CASE how = "failed"
    BY <1>1, <1>2, <2>2
  <2>3. CASE how = "sent"
    BY <1>1, <1>2, <2>3 DEF SendUp
  <2> QED
    BY <1>1, <2>1, <2>2, <2>3
<1>6. /\ spc = "offer" /\ spc' = "drain" /\ scode' = scode /\ downlink' = downlink
      /\ UNCHANGED <<vpc, r, carry, acquired, rt_ok, vcode, stop, stopped, veh_refused, damaged>>
      /\ IF over THEN offset' = offset + 1 /\ k' = k ELSE k' = k + 1 /\ offset' = offset
  BY DEF Offer, vehicle, signals
<1>7. Sending(k + 1, over, how)
  BY <1>1, <1>4, <1>5, <1>6 DEF Sending, f
<1>8. Sends(how)
  BY <1>1, <1>6, <1>7 DEF Sends
<1> QED
  BY <1>8

\* It keeps the invariant.
LEMMA CoreSends ==
  ASSUME Core, NEW how, Sends(how)
  PROVE  Core'
<1> DEFINE over == model.reason # "none"
           z == offer(model, k + 1, over, how)
           n == IF over THEN k ELSE k + 1
<1>1. /\ k \in Nat /\ offset \in Nat /\ SimOk /\ spc = "offer" /\ model' = z /\ spc' = "drain"
      /\ model \in ModelType /\ scode \in Int /\ downlink \in Seq(ReplyType)
  BY DEF Core, Typed, Sends
<1>2. LastTick = k /\ over \in BOOLEAN /\ (over => model.reason \in Legal)
      /\ (~over => model.reason = "none" /\ offset = 0 /\ model.truth \notin {"diverged", "nonfinite"})
  BY <1>1 DEF LastTick, SimOk
<1>3. /\ Sending(k + 1, over, how) /\ scode' = scode /\ downlink' = downlink
      /\ IF over THEN offset' = offset + 1 /\ k' = k ELSE k' = k + 1 /\ offset' = offset
  BY DEF Sends
<1>4. /\ z \in ModelType /\ Offered(model, z, k + 1, over, how)
      /\ uplink' \in Seq(SimFrames \union {Malformed})
      /\ PoolOk(r.admission, uplink', carry, z.envelope, n)
      /\ InOrder(uplink', carry, Pend, r.admission.last_normal_tick)
  <2> HIDE DEF over
  <2> QED
    BY <1>2, <1>3, SendKeeps
<1>5. /\ UNCHANGED <<vpc, r, carry, acquired, rt_ok, vcode, stop, stopped, veh_refused, damaged>>
      /\ sim_refused' \in BOOLEAN /\ faults' \in Seq(FaultKinds)
  BY <1>3 DEF Sending, Graver
<1> HIDE DEF z
<1>6. k' \in Nat /\ offset' \in Nat /\ k' = n
  BY <1>1, <1>3
<1>7. Typed'
  BY <1>1, <1>3, <1>4, <1>5, <1>6 DEF Core, Typed
<1>8. Admitting(r, vpc = "serve")'
  BY <1>5 DEF Core
<1>9. LastTick' = n
  BY <1>1, <1>6 DEF LastTick
<1>10. Pend' = Pend
  BY <1>5 DEF Pend
<1> HIDE DEF n
<1>11. PoolOk(r.admission, uplink, carry, model.envelope, LastTick)'
  BY <1>1, <1>4, <1>5, <1>9
<1>12. InOrder(uplink, carry, Pend, r.admission.last_normal_tick)'
  BY <1>4, <1>5, <1>10
<1>13. VehOk'
  BY <1>5 DEF Core, VehOk
<1>14. /\ z.truth = model.truth /\ z.reason = model.reason /\ z.vehicle_seen = model.vehicle_seen
       /\ z.source = model.source
       /\ z.envelope = (IF over THEN FrameToOffer(model, k + 1, over) ELSE model.envelope)
  BY <1>4 DEF Offered
<1>15. Ending(model, k) /\ model.vehicle_seen = "NONE"
  BY <1>1 DEF SimOk
<1>16. Ending(model, k)'
  <2>1. CASE ~over
    <3>1. z.envelope = NoFrame
      BY <1>14, <1>15, <2>1 DEF Ending, IsTerminal
    <3> QED
      BY <1>1, <1>14, <1>15, <2>1, <3>1 DEF Ending
  <2>2. CASE over
    <3>1. model.source = "local" /\ model.reason \in Legal /\ k' = k
      BY <1>2, <1>3, <1>15, <2>2 DEF Ending
    <3>2. IF model.envelope = NoFrame
          THEN z.envelope.tick = k + 1 /\ z.envelope.reason = model.reason
          ELSE z.envelope = model.envelope
      <4> HIDE DEF over
      <4>1. k + 1 \in Nat
        BY <1>1
      <4>2. model \in ModelType /\ over \in BOOLEAN /\ (over => model.reason \in Legal)
        BY <1>1, <1>2
      <4>3. IF model.envelope = NoFrame
            THEN /\ FrameToOffer(model, k + 1, over).tick = k + 1
                 /\ FrameToOffer(model, k + 1, over).reason = model.reason
            ELSE FrameToOffer(model, k + 1, over) = model.envelope
        BY <2>2, <4>1, <4>2, FrameOffered
      <4>4. z.envelope = FrameToOffer(model, k + 1, over)
        BY <1>14, <2>2
      <4> QED
        BY <4>3, <4>4, Zenon
    <3>3. IsTerminal(z.envelope) /\ z.envelope.tick = k + 1 /\ z.envelope.reason = model.reason
      BY <1>15, <3>1, <3>2 DEF Ending, IsTerminal, Legal
    <3> QED
      BY <1>1, <1>14, <1>15, <3>1, <3>3 DEF Ending
  <2> QED
    BY <2>1, <2>2
<1>17. SimOk'
  <2>1. model'.vehicle_seen = "NONE" /\ model'.reason = model.reason
    BY <1>1, <1>14, <1>15
  <2>2. IF offset' = 0 THEN model.reason = "none" ELSE model.reason \in Legal
    BY <1>1, <1>2, <1>3
  <2> QED
    BY <1>1, <1>16, <2>1, <2>2 DEF SimOk
<1> QED
  BY <1>7, <1>8, <1>11, <1>12, <1>13, <1>17 DEF Core

\* The first frame: sent, or the run ends.
Starts(how) ==
    LET z == offer(model, 0, FALSE, how)
    IN  /\ spc = "prologue" /\ how \in {"failed", "sent"} /\ Sending(0, FALSE, how)
        /\ k' = k /\ offset' = offset
        /\ IF how = "sent"
           THEN spc' = "drain" /\ model' = z /\ downlink' = downlink /\ scode' = scode
           ELSE spc' = "done" /\ model' = Ended(z) /\ downlink' = <<>> /\ scode' = 1

\* The prologue is one of these.
LEMMA PrologueStarts ==
  ASSUME Core, Prologue
  PROVE  \E how : Starts(how)
<1>1. PICK how \in {"failed", "sent"} :
        LET m == offer(model, 0, FALSE, how) IN
          \/ /\ m.up["transmitted"] = 0 /\ Fault("sensor") /\ SimEnds(m, 1)
             /\ UNCHANGED <<uplink, sim_refused>>
          \/ /\ m.up["transmitted"] = 1 /\ NoFault /\ model' = m /\ spc' = "drain"
             /\ SendUp(FrameToOffer(model, 0, FALSE))
             /\ UNCHANGED <<k, offset, scode, downlink>>
  BY DEF Prologue
<1> DEFINE z == offer(model, 0, FALSE, how)
<1>8. \/ /\ z.up["transmitted"] = 0 /\ Fault("sensor") /\ SimEnds(z, 1)
         /\ UNCHANGED <<uplink, sim_refused>>
      \/ /\ z.up["transmitted"] = 1 /\ NoFault /\ model' = z /\ spc' = "drain"
         /\ SendUp(FrameToOffer(model, 0, FALSE))
         /\ UNCHANGED <<k, offset, scode, downlink>>
  BY <1>1
<1>2. /\ model \in ModelType /\ faults \in Seq(FaultKinds) /\ sim_refused \in BOOLEAN
      /\ "sensor" \in FaultKinds /\ spc = "prologue" /\ model.up = Zero(UpFields)
  BY DEF Core, Typed, SimOk, Prologue, NewModel, FaultKinds
<1>3. z.up = Plus(Plus(model.up, "generated", 1), IF how = "sent" THEN "transmitted" ELSE "sensor_tx_fail", 1)
  <2>1. Offered(model, z, 0, FALSE, how)
    BY <1>2, OfferFacts
  <2> HIDE DEF z
  <2>2. [lost |-> "intentionally_lost", failed |-> "sensor_tx_fail", sent |-> "transmitted"][how]
        = IF how = "sent" THEN "transmitted" ELSE "sensor_tx_fail"
    OBVIOUS
  <2>3. z.up = Plus(Plus(model.up, "generated", 1),
                    [lost |-> "intentionally_lost", failed |-> "sensor_tx_fail",
                     sent |-> "transmitted"][how], 1)
    BY <2>1 DEF Offered
  <2> QED
    BY <2>2, <2>3
<1>4. z.up["transmitted"] = IF how = "sent" THEN 1 ELSE 0
  <2> HIDE DEF z
  <2> QED
    BY <1>2, <1>3 DEF Plus, Zero, UpFields
<1>5. UNCHANGED <<vpc, r, carry, acquired, rt_ok, vcode, stop, stopped, veh_refused, damaged>>
  BY DEF Prologue, vehicle, signals, history
<1> HIDE DEF z
<1>6. CASE how = "sent"
  <2>1. /\ NoFault /\ model' = z /\ spc' = "drain" /\ SendUp(FrameToOffer(model, 0, FALSE))
        /\ UNCHANGED <<k, offset, scode, downlink>>
    <3>1. z.up["transmitted"] # 0
      BY <1>4, <1>6
    <3> QED
      BY <1>8, <3>1, Zenon
  <2>2. Graver
    BY <1>2, <2>1, FaultFacts
  <2>3. Sending(0, FALSE, how)
    BY <1>2, <1>5, <1>6, <2>1, <2>2 DEF Sending, SendUp
  <2> QED
    BY <1>2, <1>6, <2>1, <2>3 DEF Starts, z
<1>7. CASE how = "failed"
  <2>1. Fault("sensor") /\ SimEnds(z, 1) /\ UNCHANGED <<uplink, sim_refused>>
    BY <1>4, <1>7, <1>8
  <2>2. Graver
    BY <1>2, <2>1, FaultFacts
  <2>3. Sending(0, FALSE, how)
    BY <1>2, <1>5, <1>7, <2>1, <2>2 DEF Sending
  <2>4. spc' = "done" /\ model' = Ended(z) /\ downlink' = <<>> /\ scode' = 1 /\ k' = k /\ offset' = offset
    BY <2>1 DEF SimEnds, Ended
  <2> QED
    BY <1>2, <1>7, <2>3, <2>4 DEF Starts, z
<1> QED
  BY <1>1, <1>6, <1>7

\* The first frame keeps the invariant.
LEMMA CoreStarts ==
  ASSUME Core, NEW how, Starts(how)
  PROVE  Core'
<1> DEFINE z == offer(model, 0, FALSE, how)
<1>1. /\ k \in Nat /\ offset \in Nat /\ SimOk /\ spc = "prologue" /\ how \in {"failed", "sent"}
      /\ model \in ModelType /\ scode \in Int /\ downlink \in Seq(ReplyType)
  BY DEF Core, Typed, Starts
<1>2. /\ k = 0 /\ offset = 0 /\ model.reason = "none" /\ model.source = "none"
      /\ model.vehicle_seen = "NONE" /\ model.envelope = NoFrame
  BY <1>1 DEF SimOk, NewModel
<1>3. LastTick = -1 /\ LastTick + 1 = 0
  BY <1>1 DEF LastTick
<1>4. Sending(0, FALSE, how) /\ k' = k /\ offset' = offset
  BY DEF Starts
<1>5. /\ z \in ModelType /\ Offered(model, z, 0, FALSE, how)
      /\ uplink' \in Seq(SimFrames \union {Malformed})
      /\ PoolOk(r.admission, uplink', carry, z.envelope, 0)
      /\ InOrder(uplink', carry, Pend, r.admission.last_normal_tick)
  BY <1>2, <1>3, <1>4, SendKeeps
<1>6. /\ UNCHANGED <<vpc, r, carry, acquired, rt_ok, vcode, stop, stopped, veh_refused, damaged>>
      /\ sim_refused' \in BOOLEAN /\ faults' \in Seq(FaultKinds)
  BY <1>4 DEF Sending, Graver
<1>7. IF how = "sent"
      THEN spc' = "drain" /\ model' = z /\ downlink' = downlink /\ scode' = scode
      ELSE spc' = "done" /\ model' = Ended(z) /\ downlink' = <<>> /\ scode' = 1
  BY DEF Starts
<1> HIDE DEF z
<1>8. /\ z.reason = "none" /\ z.source = "none" /\ z.vehicle_seen = "NONE" /\ z.envelope = NoFrame
  BY <1>2, <1>5 DEF Offered
<1>9. /\ Ended(z) \in ModelType /\ Ended(z).reason = "peer_lost" /\ Ended(z).source = "none"
      /\ Ended(z).envelope = NoFrame
  BY <1>5, <1>8, EndedFacts DEF SameUplink
<1>10. /\ model' \in ModelType /\ model'.envelope = NoFrame /\ model'.source = "none"
       /\ spc' \in {"drain", "done"} /\ downlink' \in Seq(ReplyType) /\ scode' \in Int
       /\ (spc' = "drain" => model'.reason = "none" /\ model'.vehicle_seen = "NONE")
       /\ model'.reason \in {"none", "peer_lost"}
  <2>1. <<>> \in Seq(ReplyType)
    OBVIOUS
  <2>2. CASE how = "sent"
    BY <1>1, <1>5, <1>7, <1>8, <2>2
  <2>3. CASE how # "sent"
    BY <1>7, <1>9, <2>1, <2>3
  <2> QED
    BY <2>2, <2>3
<1>11. Typed'
  BY <1>1, <1>4, <1>5, <1>6, <1>10 DEF Core, Typed
<1>12. Admitting(r, vpc = "serve")'
  BY <1>6 DEF Core
<1>13. LastTick' = 0
  BY <1>2, <1>4, <1>10 DEF LastTick
<1>14. Pend' = Pend
  BY <1>6 DEF Pend
<1>15. PoolOk(r.admission, uplink, carry, model.envelope, LastTick)'
  BY <1>5, <1>6, <1>8, <1>10, <1>13
<1>16. InOrder(uplink, carry, Pend, r.admission.last_normal_tick)'
  BY <1>5, <1>6, <1>14
<1>17. VehOk'
  BY <1>6 DEF Core, VehOk
<1>18. SimOk'
  BY <1>2, <1>4, <1>10 DEF SimOk, Ending, Legal
<1> QED
  BY <1>11, <1>12, <1>15, <1>16, <1>17, <1>18 DEF Core

\* The first datagram leaves the queue.
LEMMA HeadInOrder ==
  ASSUME NEW u \in Seq(SimFrames \union {Malformed}), u # <<>>, NEW c, NEW last,
         InOrder(u, c, FALSE, last)
  PROVE  InOrder(Tail(u), Head(u), TRUE, last)
<1> DEFINE w == Tail(u)
           f == Head(u)
<1>1. Len(u) \in Nat /\ Len(u) # 0 /\ DOMAIN u = 1 .. Len(u) /\ f = u[1] /\ 1 \in DOMAIN u
  OBVIOUS
<1>2. DOMAIN w = 1 .. Len(u) - 1 /\ \A i \in 1 .. Len(u) - 1 : w[i] = u[i + 1]
  BY <1>1
<1> HIDE DEF w, f
<1>3. \A i \in DOMAIN w : i + 1 \in DOMAIN u /\ w[i] = u[i + 1] /\ 1 < i + 1 /\ i \in Nat
  BY <1>1, <1>2
<1>4. \A i, j \in DOMAIN w : i < j => i + 1 < j + 1
  BY <1>3
<1>5. /\ \A i \in DOMAIN u : IsSample(u[i]) => u[i].tick > last
      /\ \A i, j \in DOMAIN u : i < j /\ IsSample(u[i]) /\ IsSample(u[j]) => u[i].tick < u[j].tick
      /\ \A i, j \in DOMAIN u : i < j /\ IsTerminal(u[i]) => ~IsSample(u[j])
  BY DEF InOrder, Rising
<1>6. IsSample(f) => \A i \in DOMAIN w : IsSample(w[i]) => f.tick < w[i].tick
  BY <1>1, <1>3, <1>5
<1>7. \A i \in DOMAIN w : IsSample(w[i]) => w[i].tick > last /\ w[i].tick \in Int
  BY <1>3, <1>5 DEF SimFrames, IsSample
<1>8. IsSample(f) => f.tick \in Int
  BY <1>1 DEF SimFrames, IsSample
<1>9. \A i \in DOMAIN w : IsSample(w[i]) => w[i].tick > (IF IsSample(f) THEN f.tick ELSE last)
  BY <1>6, <1>7, <1>8
<1>10. Rising(w, IF TRUE /\ IsSample(f) THEN f.tick ELSE last)
  BY <1>3, <1>4, <1>5, <1>9 DEF Rising
<1>11. \A i, j \in DOMAIN w : i < j /\ IsTerminal(w[i]) => ~IsSample(w[j])
  BY <1>3, <1>4, <1>5
<1>12. IsTerminal(f) => \A i \in DOMAIN w : ~IsSample(w[i])
  BY <1>1, <1>3, <1>5
<1>13. InOrder(w, f, TRUE, last)
  BY <1>10, <1>11, <1>12 DEF InOrder
<1> QED
  BY <1>13 DEF w, f

\* A step of the vehicle or of the network leaves the simulator alone.
SimRests == UNCHANGED <<spc, model, k, offset, scode>>

\* The simulator's part of the invariant is kept when the simulator rests.
LEMMA RestsKeepsSim ==
  ASSUME SimOk, SimRests
  PROVE  SimOk' /\ LastTick' = LastTick
BY DEF SimOk, SimRests, LastTick

\* The newest tick of the simulator is an integer, -1 before the first.
LEMMA LastTickType ==
  ASSUME Core
  PROVE  LastTick \in Int /\ LastTick >= -1
BY DEF Core, Typed, LastTick

\* The origin is acquired.
LEMMA AcquiredFacts ==
  ASSUME NEW rt \in RuntimeType, NEW f \in SimFrames
  PROVE  LET z == Acquired(rt, f) IN
         /\ z \in RuntimeType /\ z.tick_base = f.tick /\ z.admission = NewAdmission(f.tick)
         /\ z.state = rt.state /\ z.controls = rt.controls /\ z.sim_seen = rt.sim_seen
         /\ z.episode_window = rt.episode_window /\ z.recorded_window = rt.recorded_window
         /\ z.discarded = rt.discarded /\ z.terminal_cycle = rt.terminal_cycle
         /\ z.terminal_received_recorded = rt.terminal_received_recorded
         /\ z.first_terminal_tx_ok = rt.first_terminal_tx_ok /\ z.term_attempts = rt.term_attempts
         /\ z.term_sent = rt.term_sent /\ z.term_failed = rt.term_failed /\ z.failure = rt.failure
<1> DEFINE a == NewAdmission(f.tick)
<1>1. f.tick \in Nat
  BY DEF SimFrames
<1>2. a \in AdmissionType
  BY <1>1, NewAdmissionFacts, FreerunAssumption
<1> HIDE DEF a
<1>3. Acquired(rt, f) = [rt EXCEPT !.tick_base = f.tick, !.admission = a]
  BY DEF Acquired, a
<1> QED
  BY <1>1, <1>2, <1>3 DEF RuntimeType, a

\* A runtime before the origin is acquired.
LEMMA Unacquired ==
  ASSUME Core, ~acquired
  PROVE  /\ r.controls = <<>> /\ r.sim_seen = "none" /\ r.tick_base = 0 /\ carry = NoFrame
         /\ r.admission = NewAdmission(0) /\ r.state = initial(AutoArm)
         /\ r.admission.last_normal_tick = -1 /\ Kept(r.admission) = {NoFrame}
<1>1. r = [NewRuntime EXCEPT !.failure = r.failure] /\ carry = NoFrame
  BY DEF Core, VehOk
<1>2. r.controls = <<>> /\ r.sim_seen = "none" /\ r.tick_base = 0 /\ r.admission = NewAdmission(0)
      /\ r.state = initial(AutoArm)
  BY <1>1 DEF NewRuntime
<1>3. 0 \in Nat
  OBVIOUS
<1> QED
  BY <1>1, <1>2, <1>3, NewAdmissionFacts, FreerunAssumption

\* What Acquire does with a frame.
Acquires ==
    /\ Head(uplink) \in SimFrames /\ vpc' = "wake" /\ r' = Acquired(r, Head(uplink))
    /\ carry' = Head(uplink) /\ acquired' = TRUE
Rejects == Head(uplink) = Malformed /\ vpc' = "after" /\ r' = r /\ carry' = carry /\ acquired' = acquired

\* Acquire keeps Core: it takes the first frame as the origin or rejects it.
LEMMA CoreAcquire ==
  ASSUME Core, Acquire
  PROVE  /\ Core' /\ SimRests /\ vpc = "acquire" /\ uplink # <<>> /\ uplink' = Tail(uplink)
         /\ Acquires \/ Rejects
<1> DEFINE f == Head(uplink)
           u == uplink
           e == model.envelope
           n == LastTick
<1>1. /\ vpc = "acquire" /\ uplink # <<>> /\ uplink' = Tail(uplink)
      /\ IF f = Malformed THEN vpc' = "after" /\ r' = r /\ carry' = carry /\ acquired' = acquired
         ELSE vpc' = "wake" /\ r' = Acquired(r, f) /\ carry' = f /\ acquired' = TRUE
      /\ UNCHANGED <<rt_ok, vcode, stop, stopped, downlink, sim_refused, veh_refused, faults, damaged>>
      /\ SimRests
  BY DEF Acquire, sim, signals, history, SimRests
<1>2. /\ uplink \in Seq(SimFrames \union {Malformed}) /\ r \in RuntimeType /\ SimOk /\ VehOk
      /\ Typed
  BY DEF Core, Typed
<1>3. f \in SimFrames \union {Malformed} /\ f = u[1] /\ 1 \in DOMAIN u
  BY <1>1, <1>2
<1>4. Acquires \/ Rejects
  BY <1>1, <1>3 DEF Acquires, Rejects
<1>5. Tail(u) \in Seq(SimFrames \union {Malformed}) /\ Thinned(Tail(u), u)
  BY <1>1, <1>2, TailThins
<1>6. ~acquired /\ ~Over(r)
  BY <1>1, <1>2 DEF VehOk
<1>7. /\ r.controls = <<>> /\ r.sim_seen = "none" /\ r.tick_base = 0 /\ carry = NoFrame
      /\ r.admission = NewAdmission(0) /\ r.admission.last_normal_tick = -1
      /\ Kept(r.admission) = {NoFrame}
  BY <1>6, Unacquired
<1>8. SimOk' /\ LastTick' = n /\ model' = model
  BY <1>1, <1>2, RestsKeepsSim DEF SimRests
<1>9. n \in Int /\ n >= -1
  BY LastTickType
<1>10. PoolOk(r.admission, u, carry, e, n) /\ InOrder(u, carry, FALSE, -1)
  <2>1. Pend = FALSE
    BY <1>1 DEF Pend
  <2> QED
    BY <1>7, <2>1 DEF Core
<1> HIDE DEF n
<1>11. CASE Rejects
  <2>1. vpc' = "after" /\ r' = r /\ carry' = carry /\ acquired' = acquired
    BY <1>11 DEF Rejects
  <2>2. Typed'
    BY <1>1, <1>2, <1>5, <2>1 DEF Typed, SimRests
  <2>3. Admitting(r, vpc = "serve")'
    <3>1. Admitting(r, FALSE)
      BY <1>1 DEF Core
    <3> QED
      BY <2>1, <3>1
  <2>4. Around(r.admission, Tail(u), carry, e) \subseteq Around(r.admission, u, carry, e)
    BY <1>5, ThinnedAround
  <2>5. r.admission.last_normal_tick \in Int /\ r.admission.last_normal_tick <= n /\ n <= n
    BY <1>7, <1>9
  <2>6. PoolOk(r.admission, Tail(u), carry, e, n)
    BY <1>9, <1>10, <2>4, <2>5, PoolShrinks
  <2>7. PoolOk(r.admission, uplink, carry, model.envelope, LastTick)'
    BY <1>1, <1>8, <2>1, <2>6
  <2>8. InOrder(Tail(u), carry, FALSE, -1)
    BY <1>5, <1>10, ThinnedInOrder
  <2>9. Pend' = FALSE
    BY <2>1 DEF Pend
  <2>10. InOrder(uplink, carry, Pend, r.admission.last_normal_tick)'
    BY <1>1, <1>7, <2>1, <2>8, <2>9
  <2>11. VehOk'
    BY <1>1, <1>2, <2>1 DEF VehOk
  <2>12. Core'
    BY <1>8, <2>2, <2>3, <2>7, <2>10, <2>11 DEF Core
  <2> QED
    BY <1>1, <1>4, <2>12
<1>12. CASE Acquires
  <2>1. f \in SimFrames /\ vpc' = "wake" /\ r' = Acquired(r, f) /\ carry' = f /\ acquired' = TRUE
    BY <1>12 DEF Acquires
  <2>2. f.tick \in Nat
    BY <2>1 DEF SimFrames
  <2>3. /\ r' \in RuntimeType /\ r'.tick_base = f.tick /\ r'.admission = NewAdmission(f.tick)
        /\ r'.state = r.state /\ r'.controls = <<>> /\ r'.sim_seen = "none"
    BY <1>2, <1>7, <2>1, AcquiredFacts
  <2>4. Typed'
    BY <1>1, <1>2, <1>5, <2>1, <2>3 DEF Typed, SimRests
  <2>5. Admitting(r', FALSE)
    BY <2>2, <2>3, FreerunAssumption, AdmittingBegins
  <2>6. Admitting(r, vpc = "serve")'
    BY <2>1, <2>5
  <2>7. Kept(r'.admission) = {NoFrame} /\ r'.admission.last_normal_tick = -1
    BY <2>2, <2>3, FreerunAssumption, NewAdmissionFacts
  <2>8. Around(r'.admission, Tail(u), f, e) \subseteq Around(r.admission, u, carry, e)
    <3>1. Around(r.admission, Tail(u), f, e) \subseteq Around(r.admission, u, f, e)
      BY <1>5, ThinnedAround
    <3>2. Around(r'.admission, Tail(u), f, e) = Around(r.admission, Tail(u), f, e)
      BY <1>7, <2>7 DEF Around
    <3>3. Around(r.admission, u, f, e) \subseteq Around(r.admission, u, carry, e)
      BY <1>3 DEF Around
    <3> QED
      BY <3>1, <3>2, <3>3
  <2>9. r'.admission.last_normal_tick \in Int /\ r'.admission.last_normal_tick <= n /\ n <= n
    BY <1>9, <2>7
  <2>10. PoolOk(r'.admission, Tail(u), f, e, n)
    BY <1>9, <1>10, <2>8, <2>9, PoolShrinks
  <2>11. PoolOk(r.admission, uplink, carry, model.envelope, LastTick)'
    BY <1>1, <1>8, <2>1, <2>10
  <2>12. InOrder(Tail(u), f, TRUE, -1)
    BY <1>1, <1>2, <1>10, HeadInOrder
  <2>13. Pend' = TRUE
    BY <2>1, <2>3 DEF Pend
  <2>14. InOrder(uplink, carry, Pend, r.admission.last_normal_tick)'
    BY <1>1, <2>1, <2>7, <2>12, <2>13
  <2>15. VehOk'
    <3>1. rt_ok' /\ acquired' /\ vpc' = "wake"
      BY <1>1, <1>2, <2>1 DEF VehOk
    <3>2. carry' \in SimFrames /\ r'.tick_base = carry'.tick
      BY <2>1, <2>3
    <3>3. ~Over(r')
      BY <1>6, <2>3 DEF Over
    <3> QED
      BY <3>1, <3>2, <3>3 DEF VehOk
  <2>16. Core'
    BY <1>8, <2>4, <2>6, <2>11, <2>14, <2>15 DEF Core
  <2> QED
    BY <1>1, <1>4, <2>16
<1> QED
  BY <1>4, <1>11, <1>12

\* A cycle takes the datagrams v and leaves the admission at c.
Wakes(c, v) ==
    /\ SimRests /\ vpc = "wake" /\ vpc' = "serve" /\ r' = Admitted(r, c)
    /\ UNCHANGED <<carry, acquired, rt_ok, vcode, stop, stopped, downlink, sim_refused, faults, damaged>>
    /\ v = Cargo(carry, r.controls = <<>>, Drawn(uplink, veh_refused))
    /\ uplink' = Left(uplink, veh_refused) /\ veh_refused' = FALSE
    /\ Cycled(r.admission, c, v, Around(r.admission, uplink, carry, model.envelope))

\* The datagrams of a cycle are in order, and of the frames under way.
LEMMA CargoKnown ==
  ASSUME Core, vpc = "wake"
  PROVE  LET v == Cargo(carry, r.controls = <<>>, Drawn(uplink, veh_refused))
             P == Around(r.admission, uplink, carry, model.envelope)
         IN  /\ v \in Seq(SimFrames \union {Malformed})
             /\ \A j \in DOMAIN v : v[j] # Malformed => v[j] \in P
             /\ Rising(v, r.admission.last_normal_tick) /\ Len(v) <= RxLimit(r.admission)
             /\ \A x \in Int : x \in {r.admission.last_normal_tick} \union Collected(v, Len(v))
                    => InOrder(Left(uplink, veh_refused), carry, FALSE, x)
<1> DEFINE u == uplink
           a == r.admission
           b == Drawn(u, veh_refused)
           w == Left(u, veh_refused)
           first == r.controls = <<>>
           v == Cargo(carry, first, b)
           P == Around(a, u, carry, model.envelope)
           S == SimFrames \union {Malformed}
           n == Len(b)
<1>1. u \in Seq(S) /\ veh_refused \in BOOLEAN /\ first \in BOOLEAN /\ r \in RuntimeType
  BY DEF Core, Typed
<1>2. carry \in SimFrames /\ carry \in S
  BY DEF Core, VehOk
<1>3. b \in Seq(S) /\ w \in Seq(S) /\ Splits(b, w, u, n)
  BY <1>1, DrawnFacts
<1>4. v \in Seq(S) /\ Laden(v, carry, IF first THEN 1 ELSE 0, b)
  BY <1>1, <1>2, <1>3, CargoFacts
<1>5. a.last_normal_tick \in Int
  BY <1>1 DEF RuntimeType, AdmissionType
<1>6. first => a.last_normal_tick = -1 /\ a.cycles = 0
  <2>1. ASSUME first PROVE a.cycles = 0 /\ a = NewAdmission(r.tick_base) /\ r.tick_base \in Nat
    <3>1. Admitting(r, FALSE)
      BY DEF Core
    <3>2. Len(r.controls) = 0
      BY <2>1
    <3> QED
      BY <1>1, <3>1, <3>2 DEF Admitting, RuntimeType
  <2> QED
    BY <2>1, NewAdmissionFacts, FreerunAssumption
<1>7. InOrder(u, carry, first, a.last_normal_tick)
  <2>1. Pend = first
    BY DEF Pend
  <2> QED
    BY <2>1 DEF Core
<1> HIDE DEF b, w, v, S, first
<1>8. \A x \in Int : x \in {a.last_normal_tick} \union Collected(v, Len(v))
         => Rising(v, a.last_normal_tick) /\ InOrder(w, carry, FALSE, x)
  <2> SUFFICES ASSUME NEW x \in Int, x \in {a.last_normal_tick} \union Collected(v, Len(v))
               PROVE  Rising(v, a.last_normal_tick) /\ InOrder(w, carry, FALSE, x)
    OBVIOUS
  <2> DEFINE l == a.last_normal_tick
  <2>1. x \in {l} \union Collected(Cargo(carry, first, b), Len(Cargo(carry, first, b)))
    BY DEF v
  <2>2. u \in Seq(SimFrames \union {Malformed}) /\ b \in Seq(SimFrames \union {Malformed})
        /\ w \in Seq(SimFrames \union {Malformed}) /\ carry \in SimFrames \union {Malformed}
    BY <1>1, <1>2, <1>3 DEF S
  <2>3. first \in BOOLEAN /\ (first => l = -1 /\ carry \in SimFrames)
    BY <1>1, <1>2, <1>6
  <2>4. l \in Int /\ InOrder(u, carry, first, l)
    BY <1>5, <1>7
  <2> HIDE DEF l, n, u
  <2>6. Splits(b, w, u, n)
    BY <1>3
  <2>5. Rising(Cargo(carry, first, b), l) /\ InOrder(w, carry, FALSE, x)
    BY <2>1, <2>2, <2>3, <2>4, <2>6, CargoInOrder, ZenonT(40)
  <2> QED
    BY <2>5 DEF v, l
<1>9. Len(v) <= RxLimit(a)
  <2>1. n \in Nat /\ n <= RxMax /\ RxMax \in Nat
    BY <1>3, AdmissionAssumption DEF Splits
  <2>2. Len(v) = (IF first THEN 1 ELSE 0) + n
    BY <1>4 DEF Laden
  <2>3. RxLimit(a) = RxMax \/ RxLimit(a) = RxMax + 1
    BY DEF RxLimit
  <2>4. first => RxLimit(a) = RxMax + 1
    BY <1>6 DEF RxLimit
  <2> HIDE DEF n
  <2> QED
    BY <2>1, <2>2, <2>3, <2>4
<1>10. \A j \in DOMAIN v : v[j] # Malformed => v[j] \in P
  <2> SUFFICES ASSUME NEW j \in DOMAIN v, v[j] # Malformed PROVE v[j] \in P
    OBVIOUS
  <2>1. j \in 1 .. Len(v) /\ Len(v) \in Nat /\ v[j] \in S
    BY <1>4 DEF Laden
  <2>2. v[j] # NoFrame
    <3>1. NoFrame \notin SimFrames /\ NoFrame # Malformed
      BY DEF NoFrame, SimFrames, Malformed
    <3> QED
      BY <2>1, <3>1 DEF S
  <2>3. v[j] = carry \/ v[j] \in {u[i] : i \in DOMAIN u}
    <3> DEFINE m == IF first THEN 1 ELSE 0
    <3>1. m \in Nat /\ n \in Nat /\ n <= Len(u) /\ Len(u) \in Nat /\ DOMAIN u = 1 .. Len(u)
      BY <1>1, <1>3 DEF Splits
    <3>2. Len(v) = m + n /\ (IF j <= m THEN v[j] = carry ELSE v[j] = b[j - m])
      BY <1>4, <2>1 DEF Laden
    <3> HIDE DEF m, n
    <3>3. CASE j <= m
      BY <3>2, <3>3
    <3>4. CASE ~(j <= m)
      <4>1. j - m \in 1 .. n /\ j - m \in 1 .. Len(u)
        BY <2>1, <3>1, <3>2, <3>4
      <4>2. b[j - m] = u[j - m]
        BY <1>3, <4>1 DEF Splits, n
      <4> QED
        BY <3>1, <3>2, <3>4, <4>1, <4>2
    <3> QED
      BY <3>3, <3>4
  <2> QED
    BY <2>2, <2>3 DEF Around
<1>11. Rising(v, a.last_normal_tick)
  BY <1>5, <1>8
<1> QED
  BY <1>4, <1>8, <1>9, <1>10, <1>11 DEF v, w, S, b, first

\* A cycle of the admission is complete.
LEMMA WakeWakes ==
  ASSUME Core, Wake
  PROVE  \E c, v : Wakes(c, v)
<1> DEFINE a == r.admission
           P == Around(a, uplink, carry, model.envelope)
           v == Cargo(carry, r.controls = <<>>, Drawn(uplink, veh_refused))
<1>1. /\ vpc = "wake" /\ vpc' = "serve" /\ SimRests
      /\ r' \in Admissions(r, Carried \o Drawn(uplink, veh_refused))
      /\ uplink' = Left(uplink, veh_refused) /\ veh_refused' = FALSE
      /\ UNCHANGED <<carry, acquired, rt_ok, vcode, stop, stopped, downlink, sim_refused, faults, damaged>>
  BY DEF Wake, SimRests, sim, signals, history, Drawn, Left
<1>2. Carried \o Drawn(uplink, veh_refused) = v
  <2>1. r.controls \in Seq(ControlType)
    BY DEF Core, Typed, RuntimeType
  <2>2. (Len(r.controls) = 0) <=> (r.controls = <<>>)
    BY <2>1
  <2> QED
    BY <2>2 DEF Carried, Cargo
<1>3. /\ v \in Seq(SimFrames \union {Malformed})
      /\ \A j \in DOMAIN v : v[j] # Malformed => v[j] \in P
      /\ Rising(v, a.last_normal_tick) /\ Len(v) <= RxLimit(a)
  BY <1>1, CargoKnown
<1>4. r \in RuntimeType /\ a \in AdmissionType /\ Admitting(r, FALSE)
  BY <1>1 DEF Core, Typed, RuntimeType
<1>5. ~a.open /\ Sound(a) /\ Heard(a) /\ NextTick(a) = Now(r)
  BY <1>4, NowIsNext DEF Admitting
<1>6. P \in SUBSET SimFrames /\ Agree(P)
  BY DEF Core, PoolOk
<1>7. Kept(a) \subseteq P \union {NoFrame}
  <2>1. Malformed \notin Kept(a)
    <3>1. Malformed \notin Datagrams \union {NoFrame}
      BY FrameFacts DEF Datagrams, Malformed, NoFrame
    <3>2. Kept(a) \subseteq Datagrams \union {NoFrame}
      <4>1. /\ a.future \subseteq Datagrams /\ a.terminal_seen \subseteq Datagrams
            /\ a.newest \in MaybeFrame /\ a.due \in MaybeFrame /\ a.terminal_candidate \in MaybeFrame
            /\ a.latch \in MaybeFrame /\ a.candidate \in MaybeFrame /\ a.held \in MaybeFrame
        BY <1>4 DEF AdmissionType
      <4> QED
        BY <4>1 DEF Kept, Remembered, MaybeFrame
    <3> QED
      BY <3>1, <3>2
  <2> QED
    BY <2>1 DEF Around
<1> HIDE DEF v, P
<1>8. PICK b \in ReceiveAll(begin_cycle(a, NextTick(a)), v) : r' = Admitted(r, finish_cycle(b))
  BY <1>1, <1>2, <1>5 DEF Admissions
<1>9. Cycled(a, finish_cycle(b), v, P)
  BY <1>3, <1>4, <1>5, <1>6, <1>7, FreerunAssumption, CycleFacts
<1>10. Wakes(finish_cycle(b), v)
  BY <1>1, <1>8, <1>9 DEF Wakes, v, P
<1> QED
  BY <1>10

\* A waking cycle keeps the invariant.
LEMMA CoreWake ==
  ASSUME Core, NEW c, NEW v, Wakes(c, v)
  PROVE  Core'
<1> DEFINE u == uplink
           w == Left(u, veh_refused)
           a == r.admission
           e == model.envelope
           n == LastTick
           P == Around(a, u, carry, e)
           S == SimFrames \union {Malformed}
<1>1. /\ SimRests /\ vpc = "wake" /\ vpc' = "serve" /\ r' = Admitted(r, c)
      /\ UNCHANGED <<carry, acquired, rt_ok, vcode, stop, stopped, downlink, sim_refused, faults>>
      /\ uplink' = w /\ veh_refused' = FALSE
      /\ Cycled(a, c, v, P)
      /\ v = Cargo(carry, r.controls = <<>>, Drawn(uplink, veh_refused))
  BY DEF Wakes
<1>2. u \in Seq(S) /\ veh_refused \in BOOLEAN /\ r \in RuntimeType /\ Typed /\ VehOk /\ SimOk
      /\ Admitting(r, FALSE)
  BY <1>1 DEF Core, Typed
<1>3. P \in SUBSET SimFrames /\ \A f \in P : KnownToSim(f, e, n)
  BY DEF Core, PoolOk
<1>4. /\ r' \in RuntimeType /\ Unserved(r, r') /\ r'.admission = c /\ Admitting(r', TRUE)
  <2> HIDE DEF P
  <2> DEFINE z == Admitted(r, c)
  <2>1. Cycled(r.admission, c, v, P) /\ r \in RuntimeType /\ Admitting(r, FALSE) /\ P \in SUBSET SimFrames
    BY <1>1, <1>2, <1>3
  <2>2. z \in RuntimeType /\ Unserved(r, z) /\ z.admission = c /\ Admitting(z, TRUE)
    BY ONLY <2>1, WakeAdmits
  <2> QED
    BY <1>1, <2>2
<1>5. w \in Seq(S) /\ Thinned(w, u)
  BY <1>2, DrawnFacts
<1>6. Typed'
  BY <1>1, <1>2, <1>4, <1>5 DEF Typed, SimRests
<1>7. Admitting(r, vpc = "serve")'
  BY <1>1, <1>4
<1>8. SimOk' /\ LastTick' = n /\ model' = model
  BY <1>1, <1>2, RestsKeepsSim DEF SimRests
<1>9. n \in Int /\ n >= -1
  BY LastTickType
<1>10. /\ \A j \in DOMAIN v : v[j] # Malformed => v[j] \in P
       /\ \A x \in Int : x \in {a.last_normal_tick} \union Collected(v, Len(v))
             => InOrder(w, carry, FALSE, x)
       /\ v \in Seq(S)
  BY <1>1, CargoKnown
<1>11. c \in AdmissionType /\ Receipt(a, c, v, Len(v)) /\ Kept(c) \subseteq P \union {NoFrame}
  BY <1>1 DEF Cycled
<1>12. c.last_normal_tick \in Int /\ a.last_normal_tick \in Int
  BY <1>2, <1>11 DEF AdmissionType, RuntimeType
<1>13. c.last_normal_tick \in {a.last_normal_tick} \union Collected(v, Len(v))
  BY <1>11 DEF Receipt
<1> HIDE DEF n, P, w
<1>14. c.last_normal_tick <= n
  <2>1. CASE c.last_normal_tick = a.last_normal_tick
    BY <2>1 DEF Core, PoolOk, n
  <2>2. CASE c.last_normal_tick \in Collected(v, Len(v))
    <3>1. PICK j \in 1 .. Len(v) : IsSample(v[j]) /\ c.last_normal_tick = v[j].tick
      BY <2>2 DEF Collected
    <3>2. v[j] \in P /\ ~IsTerminal(v[j])
      BY <1>10, <3>1 DEF IsSample
    <3> QED
      BY <1>3, <3>1, <3>2 DEF KnownToSim
  <2> QED
    BY <1>13, <2>1, <2>2
<1>15. Around(c, w, carry, e) \subseteq P
  <2>1. Around(c, u, carry, e) \subseteq P
    BY <1>11 DEF Around, P
  <2>2. Around(c, w, carry, e) \subseteq Around(c, u, carry, e)
    BY <1>5, ThinnedAround
  <2> QED
    BY <2>1, <2>2
<1>16. PoolOk(c, w, carry, e, n)
  <2>1. PoolOk(a, u, carry, e, n) /\ n <= n
    BY <1>9 DEF Core, n
  <2> QED
    BY <1>9, <1>12, <1>14, <1>15, <2>1, PoolShrinks DEF P
<1>17. PoolOk(r.admission, uplink, carry, model.envelope, LastTick)'
  BY <1>1, <1>4, <1>8, <1>16
<1>18. InOrder(w, carry, FALSE, c.last_normal_tick)
  BY <1>10, <1>12, <1>13
<1>19. Pend' = FALSE
  BY <1>1 DEF Pend
<1>20. InOrder(uplink, carry, Pend, r.admission.last_normal_tick)'
  BY <1>1, <1>4, <1>18, <1>19
<1>21. VehOk'
  <2>1. r'.state = r.state /\ r'.tick_base = r.tick_base
    BY <1>4 DEF Unserved
  <2> QED
    BY <1>1, <1>2, <2>1 DEF VehOk, Over
<1> QED
  BY <1>6, <1>7, <1>8, <1>17, <1>20, <1>21 DEF Core

\* Once the carried datagram is received, or never will be, only the queue counts.
LEMMA PendDrops ==
  ASSUME NEW u \in Seq(SimFrames \union {Malformed}), NEW c \in SimFrames, InOrder(u, c, TRUE, -1)
  PROVE  InOrder(u, c, FALSE, -1)
<1>1. CASE IsSample(c)
  <2>1. c.tick \in Nat /\ Rising(u, c.tick)
    BY <1>1 DEF SimFrames, InOrder
  <2>2. \A i \in DOMAIN u : IsSample(u[i]) => u[i].tick \in Nat
    <3>1. \A i \in DOMAIN u : u[i] \in SimFrames \union {Malformed}
      OBVIOUS
    <3> QED
      BY <3>1 DEF SimFrames, IsSample
  <2>3. Rising(u, -1)
    BY <2>1, <2>2 DEF Rising
  <2> QED
    BY <2>3 DEF InOrder
<1>2. CASE ~IsSample(c)
  BY <1>2 DEF InOrder
<1> QED
  BY <1>1, <1>2

\* Steps of the vehicle and of the network that leave the admission alone.
Works ==
    /\ SimRests /\ UNCHANGED <<carry, acquired, rt_ok, stopped, stop, sim_refused>> /\ Graver
    /\ r'.admission = r.admission /\ Thinned(uplink', uplink) /\ (Pend' => Pend)
    /\ Pend => r.admission.last_normal_tick = -1

\* Before the first cycle no sample is received.
LEMMA PendFirst ==
  ASSUME Core, Pend
  PROVE  r.admission.last_normal_tick = -1 /\ carry \in SimFrames /\ acquired
<1>1. Admitting(r, FALSE) /\ r \in RuntimeType /\ Len(r.controls) = 0
  BY DEF Core, Typed, Pend
<1>2. r.admission.cycles = 0 /\ r.tick_base \in Nat
  BY <1>1 DEF Admitting, RuntimeType
<1>3. r.admission = NewAdmission(r.tick_base)
  BY <1>1, <1>2 DEF Admitting
<1>4. r.admission.last_normal_tick = -1
  BY <1>2, <1>3, NewAdmissionFacts, FreerunAssumption
<1> QED
  BY <1>4 DEF Core, VehOk, Pend

\* Such a step keeps the invariant if it keeps the vehicle's part.
LEMMA CoreWorks ==
  ASSUME Core, Works, r' \in RuntimeType, Admitting(r, vpc = "serve")', VehOk',
         vpc' \in {"acquire", "wake", "serve", "resend", "after", "exited"}, vcode' \in Int,
         uplink' \in Seq(SimFrames \union {Malformed}), downlink' \in Seq(ReplyType), veh_refused' \in BOOLEAN
  PROVE  Core'
<1> DEFINE a == r.admission
           e == model.envelope
           n == LastTick
           u == uplink
<1>1. /\ SimRests /\ UNCHANGED <<carry, acquired, rt_ok, stopped, stop, sim_refused>> /\ Graver
      /\ r'.admission = a /\ Thinned(uplink', u) /\ (Pend' => Pend)
      /\ Pend => a.last_normal_tick = -1
  BY DEF Works
<1>2. Typed'
  BY <1>1 DEF Core, Typed, SimRests, Graver
<1>3. SimOk' /\ LastTick' = n /\ model' = model
  BY <1>1, RestsKeepsSim DEF SimRests, Core
<1>4. n \in Int /\ n <= n
  BY LastTickType
<1>5. a.last_normal_tick \in Int /\ u \in Seq(SimFrames \union {Malformed})
  BY DEF Core, Typed, RuntimeType, AdmissionType
<1>6. PoolOk(a, u, carry, e, n) /\ InOrder(u, carry, Pend, a.last_normal_tick)
  BY DEF Core
<1>7. a.last_normal_tick <= n
  BY <1>6 DEF PoolOk
<1> HIDE DEF n
<1>8. Around(a, uplink', carry, e) \subseteq Around(a, u, carry, e)
  BY <1>1, ThinnedAround
<1>9. PoolOk(a, uplink', carry, e, n)
  BY <1>4, <1>5, <1>6, <1>7, <1>8, PoolShrinks
<1>10. PoolOk(r.admission, uplink, carry, model.envelope, LastTick)'
  BY <1>1, <1>3, <1>9
<1>11. InOrder(u, carry, Pend', a.last_normal_tick)
  <2>1. CASE Pend' = Pend
    BY <1>6, <2>1
  <2>2. CASE Pend' # Pend
    <3>1. Pend' \in BOOLEAN /\ Pend \in BOOLEAN
      BY DEF Pend
    <3>2. Pend = TRUE /\ Pend' = FALSE
      BY <1>1, <2>2, <3>1
    <3>3. a.last_normal_tick = -1 /\ carry \in SimFrames
      BY <3>2, PendFirst
    <3>4. InOrder(u, carry, TRUE, -1)
      BY <1>6, <3>2, <3>3
    <3>5. InOrder(u, carry, FALSE, -1)
      BY <1>5, <3>3, <3>4, PendDrops
    <3> QED
      BY <3>2, <3>3, <3>5
  <2> QED
    BY <2>1, <2>2
<1>12. InOrder(uplink', carry, Pend', a.last_normal_tick)
  BY <1>1, <1>11, ThinnedInOrder
<1>13. InOrder(uplink, carry, Pend, r.admission.last_normal_tick)'
  BY <1>1, <1>12
<1> QED
  BY <1>2, <1>3, <1>10, <1>13 DEF Core

\* A failure is reported, by a sleep that fails or by the exit; why is the one
\* that is left.
Fails(why) ==
    /\ SimRests /\ UNCHANGED <<carry, acquired, rt_ok, stop, stopped, downlink, sim_refused, veh_refused,
                               damaged>>
    /\ Graver /\ why \in Failures /\ r' = [r EXCEPT !.failure = why] /\ Broken(r, r', why)
    /\ r' \in RuntimeType /\ vcode' \in Int /\ Thinned(uplink', uplink)
    /\ uplink' \in Seq(SimFrames \union {Malformed})
    /\ \/ vpc = "wake" /\ vpc' = "after" /\ why = "INTERNAL" /\ uplink' = uplink /\ faults' # <<>>
       \/ vpc = "resend" /\ vpc' = "after" /\ why = r.failure /\ uplink' = uplink /\ faults' # <<>>
       \/ /\ vpc = "after" /\ vpc' = "exited" /\ uplink' = <<>>
          /\ why = IF ~rt_ok THEN "INTERNAL" ELSE IF acquired THEN r.failure
                   ELSE IF stop THEN "SIGNAL" ELSE "PEER_LOST"
          /\ vcode' \in {VehicleCode(r', TRUE, stop, rt_ok, acquired), 4}

\* A fault makes the history non-empty.
LEMMA FaultGrave ==
  ASSUME faults \in Seq(FaultKinds), NEW what, Fault(what)
  PROVE  faults' # <<>>
<1>1. faults' = Append(faults, what) /\ Len(Append(faults, what)) = Len(faults) + 1
  BY DEF Fault
<1>2. Len(faults) + 1 # 0 /\ Len(<<>>) = 0
  OBVIOUS
<1> QED
  BY <1>1, <1>2

\* clock_nanosleep fails in a cycle or while resending.
LEMMA SleepFailsFails ==
  ASSUME Core, SleepFails
  PROVE  \E why : Fails(why)
<1>1. /\ vpc \in {"wake", "resend"} /\ Fault("sleep") /\ vpc' = "after" /\ SimRests
      /\ r' = IF vpc = "wake" THEN [r EXCEPT !.failure = "INTERNAL"] ELSE r
      /\ UNCHANGED <<carry, acquired, rt_ok, vcode, stop, stopped, downlink, sim_refused, veh_refused,
                     damaged, uplink>>
  BY DEF SleepFails, SimRests, sim, signals, net, history
<1>2. r \in RuntimeType /\ vcode \in Int /\ uplink \in Seq(SimFrames \union {Malformed})
      /\ faults \in Seq(FaultKinds)
  BY DEF Core, Typed
<1>3. Graver /\ faults' # <<>>
  <2>1. "sleep" \in FaultKinds
    BY DEF FaultKinds
  <2> QED
    BY <1>1, <1>2, <2>1, FaultFacts, FaultGrave
<1>4. Thinned(uplink, uplink)
  BY <1>2, SameThins
<1>5. CASE vpc = "wake"
  <2> DEFINE why == "INTERNAL"
  <2>1. r' \in RuntimeType /\ Broken(r, r', why) /\ why \in Failures /\ r' = [r EXCEPT !.failure = why]
    BY <1>1, <1>2, <1>5, BrokenFacts DEF Failures
  <2>2. Fails(why)
    BY <1>1, <1>2, <1>3, <1>4, <1>5, <2>1 DEF Fails
  <2> QED
    BY <2>2
<1>6. CASE vpc = "resend"
  <2> DEFINE why == r.failure
  <2>1. why \in Failures /\ r' = [r EXCEPT !.failure = why]
    BY <1>1, <1>2, <1>6 DEF RuntimeType
  <2>2. r' \in RuntimeType /\ Broken(r, r', why)
    BY <1>2, <2>1, BrokenFacts
  <2>3. Fails(why)
    BY <1>1, <1>2, <1>3, <1>4, <1>6, <2>1, <2>2 DEF Fails
  <2> QED
    BY <2>3
<1> QED
  BY <1>1, <1>5, <1>6

\* The vehicle exits.
LEMMA ExitFails ==
  ASSUME Core, Exit
  PROVE  \E why : Fails(why)
<1> DEFINE why == IF ~rt_ok THEN "INTERNAL" ELSE IF acquired THEN r.failure
                  ELSE IF stop THEN "SIGNAL" ELSE "PEER_LOST"
<1>1. /\ vpc = "after" /\ vpc' = "exited" /\ SimRests /\ r' = [r EXCEPT !.failure = why]
      /\ uplink' = <<>>
      /\ UNCHANGED <<carry, acquired, rt_ok, stop, stopped, downlink, sim_refused, veh_refused, damaged>>
      /\ \/ vcode' = VehicleCode(r', TRUE, stop, rt_ok, acquired) /\ NoFault
         \/ vcode' = VehicleCode(r', FALSE, stop, rt_ok, acquired) /\ Fault("record")
  BY DEF Exit, SimRests, sim, signals, history
<1>2. r \in RuntimeType /\ uplink \in Seq(SimFrames \union {Malformed}) /\ faults \in Seq(FaultKinds)
  BY DEF Core, Typed
<1>3. why \in Failures
  BY <1>2 DEF RuntimeType, Failures
<1>4. VehicleCode(r', FALSE, stop, rt_ok, acquired) = 4
  BY DEF VehicleCode
<1>5. VehicleCode(r', TRUE, stop, rt_ok, acquired) \in Int
  BY DEF VehicleCode
<1>6. Graver
  <2>1. "record" \in FaultKinds
    BY DEF FaultKinds
  <2> QED
    BY <1>1, <1>2, <2>1, FaultFacts
<1>7. Thinned(<<>>, uplink) /\ <<>> \in Seq(SimFrames \union {Malformed})
  BY <1>2, SameThins
<1> HIDE DEF why
<1>8. r' \in RuntimeType /\ Broken(r, r', why)
  BY <1>1, <1>2, <1>3, BrokenFacts
<1>9. vcode' \in Int /\ vcode' \in {VehicleCode(r', TRUE, stop, rt_ok, acquired), 4}
  <2> DEFINE x == VehicleCode(r', TRUE, stop, rt_ok, acquired)
             y == VehicleCode(r', FALSE, stop, rt_ok, acquired)
  <2>1. vcode' = x \/ vcode' = y
    BY <1>1
  <2>2. x \in Int /\ y = 4
    BY <1>4, <1>5
  <2> HIDE DEF x, y
  <2>3. vcode' \in {x, 4}
    BY <2>1, <2>2
  <2>4. vcode' \in Int
    BY <2>1, <2>2
  <2> QED
    BY <2>3, <2>4 DEF x
<1>10. Fails(why)
  BY <1>1, <1>3, <1>6, <1>7, <1>8, <1>9 DEF Fails, why
<1> QED
  BY <1>10

\* A failure keeps the invariant.
LEMMA CoreFails ==
  ASSUME Core, NEW why, Fails(why)
  PROVE  Core'
<1>1. /\ SimRests /\ UNCHANGED <<carry, acquired, rt_ok, stop, stopped, downlink, sim_refused, veh_refused>>
      /\ Graver /\ r' = [r EXCEPT !.failure = why] /\ Broken(r, r', why)
      /\ r' \in RuntimeType /\ vcode' \in Int /\ Thinned(uplink', uplink)
      /\ uplink' \in Seq(SimFrames \union {Malformed})
      /\ vpc' \in {"after", "exited"} /\ vpc \in {"wake", "resend", "after"}
  BY DEF Fails
<1>2. /\ r'.tick_base = r.tick_base /\ r'.state = r.state /\ r'.controls = r.controls
      /\ r'.admission = r.admission /\ r'.sim_seen = r.sim_seen /\ r'.failure = why
  BY <1>1 DEF Broken
<1>3. Admitting(r, FALSE) /\ Typed /\ VehOk
  BY <1>1 DEF Core
<1>4. Admitting(r', FALSE)
  BY <1>2, <1>3, AdmittingSame
<1>5. Admitting(r, vpc = "serve")'
  BY <1>1, <1>4
<1>6. ~Pend'
  BY <1>1 DEF Pend
<1>7. Works
  BY <1>1, <1>2, <1>6, PendFirst DEF Works
<1>8. VehOk'
  <2>1. CASE acquired
    BY <1>1, <1>2, <1>3, <2>1 DEF VehOk
  <2>2. CASE ~acquired
    <3>1. r = [NewRuntime EXCEPT !.failure = r.failure] /\ carry = NoFrame
      BY <1>3, <2>2 DEF VehOk
    <3>2. r' = [NewRuntime EXCEPT !.failure = r'.failure]
      BY <1>1, <1>2, <3>1 DEF NewRuntime
    <3>3. vpc # "wake" /\ vpc # "resend"
      BY <1>3, <2>2 DEF VehOk
    <3> QED
      BY <1>1, <2>2, <3>1, <3>2, <3>3 DEF VehOk
  <2> QED
    BY <1>3, <2>1, <2>2 DEF Typed
<1>9. downlink' \in Seq(ReplyType) /\ veh_refused' \in BOOLEAN
  BY <1>1, <1>3 DEF Typed
<1> QED
  BY <1>1, <1>5, <1>7, <1>8, <1>9, CoreWorks

-----------------------------------------------------------------------------
(* The policy, the replies and the network. *)

\* A reply m leaves, or does not.
Replied(m, success) ==
    /\ m \in ReplyType /\ m.sound /\ success \in BOOLEAN /\ downlink' \in Seq(ReplyType)
    /\ veh_refused' \in BOOLEAN /\ Graver /\ uplink' = uplink /\ sim_refused' = sim_refused
    /\ downlink' = IF success /\ spc # "done" THEN Append(downlink, m) ELSE downlink

\* Replies does that.
LEMMA RepliesFacts ==
  ASSUME downlink \in Seq(ReplyType), veh_refused \in BOOLEAN, faults \in Seq(FaultKinds),
         NEW m \in ReplyType, m.sound, NEW success \in BOOLEAN, Replies(m, success)
  PROVE  Replied(m, success)
<1>1. uplink' = uplink /\ sim_refused' = sim_refused /\ Append(downlink, m) \in Seq(ReplyType)
  BY DEF Replies
<1>2. "reply" \in FaultKinds
  BY DEF FaultKinds
<1>3. CASE success
  <2>1. Graver
    BY <1>2, <1>3, FaultFacts DEF Replies
  <2>2. IF spc = "done" THEN veh_refused' = TRUE /\ downlink' = downlink
        ELSE downlink' = Append(downlink, m) /\ veh_refused' = veh_refused
    BY <1>3 DEF Replies
  <2> QED
    BY <1>1, <1>3, <2>1, <2>2 DEF Replied
<1>4. CASE ~success
  <2>1. Graver
    BY <1>2, <1>4, FaultFacts DEF Replies
  <2>2. veh_refused' = FALSE /\ downlink' = downlink
    BY <1>4 DEF Replies
  <2> QED
    BY <1>1, <1>4, <2>1, <2>2 DEF Replied
<1> QED
  BY <1>3, <1>4

\* A cycle is served: the policy takes the episode to state.
Serves(state, success) ==
    /\ vpc = "serve" /\ SimRests
    /\ state \in FreeState /\ state = step(r.state, PolicyInput(r, stop)).state
    /\ Decided(r.state, PolicyInput(r, stop), state)
    /\ r' \in RuntimeType /\ CycleServed(r, r', state, success)
    /\ Replied(Reply(Now(r), state.mode, state.terminal.reason), success)
    /\ vpc' = (IF state.mode # "TERMINATED" THEN "wake" ELSE IF Copies > 1 THEN "resend" ELSE "after")
    /\ UNCHANGED <<carry, acquired, rt_ok, vcode, stop, stopped, damaged>>

\* What is held while a cycle is served.
LEMMA ServeHeld ==
  ASSUME Core, vpc = "serve"
  PROVE  /\ r \in RuntimeType /\ Admitting(r, TRUE) /\ Ordered(r.admission) /\ ~Over(r) /\ acquired
         /\ r.admission.held \in SimFrames \union {NoFrame} /\ Now(r) \in Nat
         /\ PolicyInput(r, stop) \in FreeInput
<1>1. r \in RuntimeType /\ Admitting(r, TRUE) /\ stop \in BOOLEAN
  BY DEF Core, Typed
<1>2. ~Over(r) /\ acquired
  BY DEF Core, VehOk
<1>3. Ordered(r.admission)
  BY <1>1 DEF Admitting, Sound
<1>4. r.admission.held \in SimFrames \union {NoFrame}
  <2>1. r.admission.held \in MaybeFrame /\ Malformed \notin MaybeFrame
    <3>1. r.admission \in AdmissionType
      BY <1>1 DEF RuntimeType
    <3>2. Malformed \notin Datagrams \union {NoFrame}
      BY FrameFacts DEF Datagrams, Malformed, NoFrame
    <3> QED
      BY <3>1, <3>2 DEF AdmissionType, MaybeFrame
  <2>2. r.admission.held \in Kept(r.admission)
    BY DEF Kept
  <2> QED
    BY <2>1, <2>2 DEF Core, PoolOk, Around
<1> QED
  BY <1>1, <1>2, <1>3, <1>4, InputFacts

\* Serve of run_freerun is a step that serves some state with some outcome.
LEMMA ServeServes ==
  ASSUME Core, Serve
  PROVE  \E state, success : Serves(state, success)
<1> DEFINE in == PolicyInput(r, stop)
           state == step(r.state, in).state
<1>1. /\ vpc = "serve" /\ SimRests
      /\ UNCHANGED <<carry, acquired, rt_ok, vcode, stop, stopped, damaged>>
      /\ vpc' = IF ~Over(r') THEN "wake" ELSE IF Copies > 1 THEN "resend" ELSE "after"
  BY DEF Serve, SimRests, sim, signals
<1>2. PICK success \in BOOLEAN : r' = Served(r, state, success) /\ Replies(ReplyOf(r'), success)
  BY DEF Serve
<1>3. /\ r \in RuntimeType /\ Ordered(r.admission) /\ ~Over(r) /\ in \in FreeInput
      /\ r.admission.held \in SimFrames \union {NoFrame} /\ Now(r) \in Nat
  BY <1>1, ServeHeld
<1>4. r.state \in FreeState /\ r.state.mode # "TERMINATED"
  BY <1>3 DEF RuntimeType, Over
<1> HIDE DEF in
<1>5. state \in FreeState /\ Decided(r.state, in, state)
  BY <1>3, <1>4, StepFacts
<1> HIDE DEF state
<1>6. r' \in RuntimeType /\ CycleServed(r, r', state, success)
  BY <1>2, <1>3, <1>5, ServedFacts
<1>7. r'.state = state /\ Now(r') - 1 = Now(r)
  <2>1. r'.state = state /\ r'.tick_base = r.tick_base
        /\ r'.controls = Append(r.controls, Control(r, state, success))
    BY <1>6 DEF CycleServed
  <2>2. r.controls \in Seq(ControlType) /\ Control(r, state, success) \in ControlType /\ r.tick_base \in Nat
    BY <1>3, <1>5, ControlFacts DEF RuntimeType
  <2>3. Len(r'.controls) = Len(r.controls) + 1 /\ Len(r.controls) \in Nat
    BY <2>1, <2>2
  <2> QED
    BY <2>1, <2>2, <2>3 DEF Now
<1> DEFINE m == Reply(Now(r), state.mode, state.terminal.reason)
<1>8. ReplyOf(r') = m
  BY <1>7 DEF ReplyOf
<1>9. m \in ReplyType /\ m.sound
  <2>1. Now(r) \in Int /\ state.mode \in Modes /\ state.terminal.reason \in Reasons
    BY <1>3, <1>5 DEF FreeState
  <2> QED
    BY <2>1 DEF Reply, ReplyType
<1> HIDE DEF m
<1>10. Replied(m, success)
  <2>1. downlink \in Seq(ReplyType) /\ veh_refused \in BOOLEAN /\ faults \in Seq(FaultKinds)
    BY DEF Core, Typed
  <2> QED
    BY <1>2, <1>8, <1>9, <2>1, RepliesFacts
<1>11. vpc' = IF state.mode # "TERMINATED" THEN "wake" ELSE IF Copies > 1 THEN "resend" ELSE "after"
  BY <1>1, <1>7 DEF Over
<1>12. Serves(state, success)
  BY <1>1, <1>5, <1>6, <1>10, <1>11 DEF Serves, m, state, in
<1> QED
  BY <1>12

\* A cycle served keeps the invariant.
LEMMA CoreServes ==
  ASSUME Core, NEW state, NEW success, Serves(state, success)
  PROVE  Core'
<1>1. /\ vpc = "serve" /\ SimRests /\ state \in FreeState
      /\ r' \in RuntimeType /\ CycleServed(r, r', state, success)
      /\ UNCHANGED <<carry, acquired, rt_ok, vcode, stop, stopped>>
      /\ vpc' = IF state.mode # "TERMINATED" THEN "wake" ELSE IF Copies > 1 THEN "resend" ELSE "after"
  BY DEF Serves
<1>2. /\ success \in BOOLEAN /\ downlink' \in Seq(ReplyType) /\ veh_refused' \in BOOLEAN /\ Graver
      /\ uplink' = uplink /\ sim_refused' = sim_refused
  BY DEF Serves, Replied
<1>3. /\ r \in RuntimeType /\ Admitting(r, TRUE) /\ Ordered(r.admission) /\ acquired
      /\ r.admission.held \in SimFrames \union {NoFrame}
  BY <1>1, ServeHeld
<1>4. Admitting(r', FALSE)
  BY <1>1, <1>2, <1>3, ServeAdmits
<1>5. vpc' \in {"wake", "resend", "after"}
  BY <1>1
<1>6. Admitting(r, vpc = "serve")'
  BY <1>4, <1>5
<1>7. /\ r'.admission = r.admission /\ r'.state = state /\ r'.tick_base = r.tick_base
      /\ r'.controls = Append(r.controls, Control(r, state, success))
  BY <1>1 DEF CycleServed
<1>8. r'.controls # <<>>
  <2>1. r.controls \in Seq(ControlType) /\ Control(r, state, success) \in ControlType
    BY <1>1, <1>2, <1>3, ControlFacts DEF RuntimeType
  <2>2. Len(r'.controls) = Len(r.controls) + 1 /\ Len(r.controls) \in Nat
    BY <1>7, <2>1
  <2> QED
    BY <2>2
<1>9. ~Pend' /\ ~Pend
  BY <1>1, <1>8 DEF Pend
<1>10. uplink \in Seq(SimFrames \union {Malformed}) /\ vcode \in Int
  BY DEF Core, Typed
<1>11. Thinned(uplink', uplink)
  BY <1>2, <1>10, SameThins
<1>12. Works
  BY <1>1, <1>2, <1>7, <1>9, <1>11 DEF Works
<1>13. VehOk'
  <2>1. vpc' = "wake" => ~Over(r')
    BY <1>1, <1>7 DEF Over
  <2>2. carry \in SimFrames /\ r.tick_base = carry.tick /\ rt_ok
    BY <1>3 DEF Core, VehOk
  <2> QED
    BY <1>1, <1>3, <1>5, <1>7, <2>1, <2>2 DEF VehOk
<1> QED
  BY <1>1, <1>2, <1>5, <1>6, <1>10, <1>12, <1>13, CoreWorks

\* A copy of the terminal reply is sent, or the resending stops.
Resends(success) ==
    /\ vpc = "resend" /\ SimRests /\ Replied(ReplyOf(r), success) /\ ~stop
    /\ r' \in RuntimeType /\ CopySent(r, r', success)
    /\ vpc' = (IF r'.term_attempts < Copies THEN "resend" ELSE "after")
    /\ UNCHANGED <<carry, acquired, rt_ok, vcode, stop, stopped, damaged>>
Halts ==
    /\ vpc = "resend" /\ vpc' = "after" /\ SimRests
    /\ UNCHANGED <<r, carry, acquired, rt_ok, vcode, stop, stopped, damaged, uplink, downlink,
                   sim_refused, veh_refused, faults>>

\* Resend of resend_terminal halts at a stop, or sends one more copy.
LEMMA ResendResends ==
  ASSUME Core, Resend
  PROVE  Halts \/ \E success : Resends(success)
<1>1. /\ vpc = "resend" /\ SimRests
      /\ UNCHANGED <<carry, acquired, rt_ok, vcode, stop, stopped, damaged>>
  BY DEF Resend, SimRests, sim, signals
<1>2. r \in RuntimeType /\ downlink \in Seq(ReplyType) /\ veh_refused \in BOOLEAN
      /\ faults \in Seq(FaultKinds)
  BY DEF Core, Typed
<1>3. CASE stop
  BY <1>1, <1>3 DEF Resend, net, Halts
<1>4. CASE ~stop
  <2>1. PICK success \in BOOLEAN : r' = Resent(r, success) /\ Replies(ReplyOf(r), success)
    BY <1>4 DEF Resend
  <2>2. vpc' = IF r'.term_attempts < Copies THEN "resend" ELSE "after"
    BY <1>4 DEF Resend
  <2>3. r' \in RuntimeType /\ CopySent(r, r', success)
    BY <1>2, <2>1, ResentFacts
  <2>4. ReplyOf(r) \in ReplyType /\ ReplyOf(r).sound
    <3>1. r.state \in FreeState /\ r.tick_base \in Nat /\ r.controls \in Seq(ControlType)
      BY <1>2 DEF RuntimeType
    <3>2. Now(r) - 1 \in Int /\ r.state.mode \in Modes /\ r.state.terminal.reason \in Reasons
      BY <3>1 DEF FreeState, Now
    <3> QED
      BY <3>2 DEF ReplyOf, Reply, ReplyType
  <2>5. Replied(ReplyOf(r), success)
    BY <1>2, <2>1, <2>4, RepliesFacts
  <2>6. Resends(success)
    BY <1>1, <1>4, <2>2, <2>3, <2>5 DEF Resends
  <2> QED
    BY <2>6
<1> QED
  BY <1>3, <1>4

\* The resending keeps the invariant.
LEMMA CoreResends ==
  ASSUME Core, Halts \/ \E success : Resends(success)
  PROVE  Core'
<1>1. /\ vpc = "resend" /\ vpc' \in {"resend", "after"} /\ SimRests
      /\ UNCHANGED <<carry, acquired, rt_ok, vcode, stop, stopped, uplink, sim_refused>>
      /\ r' \in RuntimeType /\ downlink' \in Seq(ReplyType) /\ veh_refused' \in BOOLEAN /\ Graver
      /\ r'.tick_base = r.tick_base /\ r'.admission = r.admission /\ r'.controls = r.controls
      /\ r'.sim_seen = r.sim_seen
  <2>1. CASE Halts
    <3>1. Typed /\ faults \in Seq(FaultKinds)
      BY DEF Core, Typed
    <3> QED
      BY <2>1, <3>1 DEF Halts, Typed, Graver
  <2>2. ASSUME NEW success, Resends(success)
        PROVE  /\ vpc = "resend" /\ vpc' \in {"resend", "after"} /\ SimRests
               /\ UNCHANGED <<carry, acquired, rt_ok, vcode, stop, stopped, uplink, sim_refused>>
               /\ r' \in RuntimeType /\ downlink' \in Seq(ReplyType) /\ veh_refused' \in BOOLEAN /\ Graver
               /\ r'.tick_base = r.tick_base /\ r'.admission = r.admission /\ r'.controls = r.controls
               /\ r'.sim_seen = r.sim_seen
    BY <2>2 DEF Resends, Replied, CopySent
  <2> QED
    BY <2>1, <2>2
<1>2. Admitting(r, FALSE) /\ vcode \in Int /\ uplink \in Seq(SimFrames \union {Malformed}) /\ VehOk
  BY <1>1 DEF Core, Typed
<1>3. Admitting(r', FALSE)
  BY <1>1, <1>2, AdmittingSame
<1>4. Admitting(r, vpc = "serve")'
  BY <1>1, <1>3
<1>5. Thinned(uplink', uplink) /\ ~Pend /\ ~Pend'
  BY <1>1, <1>2, SameThins DEF Pend
<1>6. Works
  BY <1>1, <1>5 DEF Works
<1>7. VehOk'
  BY <1>1, <1>2 DEF VehOk
<1> QED
  BY <1>1, <1>2, <1>4, <1>6, <1>7, CoreWorks

\* A sample lost or corrupted is recorded as damaged.
Harmed ==
    \/ damaged' = damaged
    \/ \E n \in DOMAIN uplink : /\ IsSample(uplink[n]) /\ damaged' = damaged \union {uplink[n].tick}
                               /\ Spares(uplink', uplink, n)

\* The network loses or corrupts a datagram.
Damages ==
    /\ SimRests /\ UNCHANGED <<vpc, r, carry, acquired, rt_ok, vcode, stop, stopped, sim_refused, veh_refused>>
    /\ Graver /\ faults' # <<>> /\ Thinned(uplink', uplink)
    /\ uplink' \in Seq(SimFrames \union {Malformed})
    /\ downlink' \in Seq(ReplyType) /\ Harmed
    /\ \A i \in DOMAIN downlink' : \E j \in DOMAIN downlink :
           /\ downlink'[i].state = downlink[j].state /\ downlink'[i].tick = downlink[j].tick
           /\ downlink'[i].reason = downlink[j].reason

\* A datagram lost thins one of the queues.
LEMMA LoseDamages ==
  ASSUME Core, Lose
  PROVE  Damages
<1>1. /\ SimRests /\ Fault("lost")
      /\ UNCHANGED <<vpc, r, carry, acquired, rt_ok, vcode, stop, stopped, sim_refused, veh_refused>>
  BY DEF Lose, SimRests, sim, vehicle, signals
<1>2. uplink \in Seq(SimFrames \union {Malformed}) /\ downlink \in Seq(ReplyType)
      /\ faults \in Seq(FaultKinds)
  BY DEF Core, Typed
<1>3. "lost" \in FaultKinds
  BY DEF FaultKinds
<1>4. Graver /\ faults' # <<>>
  BY <1>1, <1>2, <1>3, FaultFacts, FaultGrave
<1>5. CASE \E i \in DOMAIN uplink : /\ uplink' = Without(uplink, i) /\ Damage(uplink[i])
                                      /\ downlink' = downlink
  <2>1. PICK i \in DOMAIN uplink : uplink' = Without(uplink, i) /\ Damage(uplink[i])
    BY <1>5
  <2>2. /\ Thinned(uplink', uplink) /\ uplink' \in Seq(SimFrames \union {Malformed})
        /\ Spares(uplink', uplink, i)
    BY <1>2, <2>1, WithoutThins
  <2>3. Harmed
    BY <2>1, <2>2 DEF Harmed, Damage, IsSample
  <2> QED
    BY <1>1, <1>2, <1>4, <1>5, <2>2, <2>3 DEF Damages
<1>6. CASE \E i \in DOMAIN downlink : downlink' = Without(downlink, i)
                                        /\ uplink' = uplink /\ damaged' = damaged
  <2>1. PICK n \in DOMAIN downlink : downlink' = Without(downlink, n) /\ uplink' = uplink
    BY <1>6
  <2>2. downlink' \in Seq(ReplyType) /\ Thinned(downlink', downlink)
    BY <1>2, <2>1, WithoutThins
  <2>3. PICK h : Thins(h, downlink', downlink)
    BY <2>2 DEF Thinned
  <2>4. \A i \in DOMAIN downlink' : downlink'[i] # Malformed
    <3>1. \A i \in DOMAIN downlink' : downlink'[i] \in ReplyType
      BY <2>2
    <3>2. Malformed \notin ReplyType
      BY DEF Malformed, NoFrame, ReplyType, Reasons
    <3> QED
      BY <3>1, <3>2
  <2>5. \A i \in DOMAIN downlink' : downlink'[i] = downlink[h[i]] /\ h[i] \in DOMAIN downlink
    BY <2>3, <2>4 DEF Thins
  <2>7. Harmed
    BY <1>6 DEF Harmed
  <2>6. Thinned(uplink', uplink)
    BY <1>2, <2>1, SameThins
  <2> QED
    BY <1>1, <1>2, <1>4, <2>1, <2>2, <2>5, <2>6, <2>7 DEF Damages
<1> QED
  BY <1>5, <1>6 DEF Lose

\* A datagram corrupted stays in its queue, unusable.
LEMMA CorruptDamages ==
  ASSUME Core, Corrupt
  PROVE  Damages
<1>1. /\ SimRests /\ Fault("corrupt")
      /\ UNCHANGED <<vpc, r, carry, acquired, rt_ok, vcode, stop, stopped, sim_refused, veh_refused>>
  BY DEF Corrupt, SimRests, sim, vehicle, signals
<1>2. uplink \in Seq(SimFrames \union {Malformed}) /\ downlink \in Seq(ReplyType)
      /\ faults \in Seq(FaultKinds)
  BY DEF Core, Typed
<1>3. "corrupt" \in FaultKinds
  BY DEF FaultKinds
<1>4. Graver /\ faults' # <<>>
  BY <1>1, <1>2, <1>3, FaultFacts, FaultGrave
<1>5. CASE \E i \in DOMAIN uplink : /\ uplink' = [uplink EXCEPT ![i] = Malformed] /\ Damage(uplink[i])
                                      /\ downlink' = downlink
  <2>1. PICK i \in DOMAIN uplink : uplink' = [uplink EXCEPT ![i] = Malformed] /\ Damage(uplink[i])
    BY <1>5
  <2>2. /\ Thinned(uplink', uplink) /\ uplink' \in Seq(SimFrames \union {Malformed})
        /\ Spares(uplink', uplink, i)
    BY <1>2, <2>1, CorruptThins
  <2>3. Harmed
    BY <2>1, <2>2 DEF Harmed, Damage, IsSample
  <2> QED
    BY <1>1, <1>2, <1>4, <1>5, <2>2, <2>3 DEF Damages
<1>6. CASE \E i \in DOMAIN downlink : downlink' = [downlink EXCEPT ![i].sound = FALSE]
                                        /\ uplink' = uplink /\ damaged' = damaged
  <2>1. PICK n \in DOMAIN downlink : downlink' = [downlink EXCEPT ![n].sound = FALSE] /\ uplink' = uplink
    BY <1>6
  <2> DEFINE m == [downlink[n] EXCEPT !.sound = FALSE]
  <2>2. m \in ReplyType /\ m.state = downlink[n].state /\ m.tick = downlink[n].tick
        /\ m.reason = downlink[n].reason
    <3>1. downlink[n] \in ReplyType
      BY <1>2
    <3> QED
      BY <3>1 DEF ReplyType
  <2>3. downlink' = [downlink EXCEPT ![n] = m]
    BY <2>1
  <2> HIDE DEF m
  <2>4. downlink' \in Seq(ReplyType) /\ DOMAIN downlink' = DOMAIN downlink
        /\ \A i \in DOMAIN downlink' : downlink'[i] = IF i = n THEN m ELSE downlink[i]
    BY <1>2, <2>2, <2>3
  <2>5. \A i \in DOMAIN downlink' : /\ downlink'[i].state = downlink[i].state
                                    /\ downlink'[i].tick = downlink[i].tick
                                    /\ downlink'[i].reason = downlink[i].reason
    BY <2>2, <2>4
  <2>7. Harmed
    BY <1>6 DEF Harmed
  <2>6. Thinned(uplink', uplink)
    BY <1>2, <2>1, SameThins
  <2> QED
    BY <1>1, <1>2, <1>4, <2>1, <2>4, <2>5, <2>6, <2>7 DEF Damages
<1> QED
  BY <1>5, <1>6 DEF Corrupt

\* Losses and corruption keep the invariant.
LEMMA CoreDamages ==
  ASSUME Core, Damages
  PROVE  Core'
<1>1. /\ SimRests /\ UNCHANGED <<vpc, r, carry, acquired, rt_ok, vcode, stop, stopped, sim_refused, veh_refused>>
      /\ Graver /\ Thinned(uplink', uplink) /\ uplink' \in Seq(SimFrames \union {Malformed})
      /\ downlink' \in Seq(ReplyType)
  BY DEF Damages
<1>2. Typed /\ VehOk /\ Admitting(r, vpc = "serve")
  BY DEF Core
<1>3. Pend' = Pend
  BY <1>1 DEF Pend
<1>4. Works
  BY <1>1, <1>3, PendFirst DEF Works
<1>5. Admitting(r, vpc = "serve")' /\ VehOk'
  BY <1>1, <1>2 DEF VehOk
<1> QED
  BY <1>1, <1>2, <1>4, <1>5, CoreWorks DEF Typed

-----------------------------------------------------------------------------
(* The invariant and what follows from it. *)

\* The first state has it: nothing is under way, nothing is kept.
LEMMA CoreInit ==
  ASSUME Init
  PROVE  Core
<1>1. /\ spc = "prologue" /\ k = 0 /\ offset = 0 /\ scode = 0
      /\ vpc = "acquire" /\ r = NewRuntime /\ carry = NoFrame /\ acquired = FALSE
      /\ rt_ok = TRUE /\ vcode = 0 /\ stopped = FALSE /\ stop = FALSE
      /\ uplink = <<>> /\ downlink = <<>> /\ sim_refused = FALSE /\ veh_refused = FALSE
      /\ faults = <<>>
  BY DEF Init
<1>2. PICK class \in Truths : model = NewModel(class)
  BY DEF Init
<1>3. model \in ModelType /\ model = NewModel(model.truth)
  <2>1. Zero(UpFields) \in [UpFields -> Nat] /\ Zero(DownFields) \in [DownFields -> Nat]
        /\ Zero(TermFields) \in [TermFields -> Nat]
    BY DEF Zero
  <2>2. "NONE" \in Reasons
    BY DEF Reasons
  <2> QED
    BY <1>2, <2>1, <2>2 DEF NewModel, ModelType
<1>4. /\ model.vehicle_seen = "NONE" /\ model.reason = "none" /\ model.source = "none"
      /\ model.envelope = NoFrame
  BY <1>2 DEF NewModel
<1> DEFINE a == NewAdmission(0)
<1>5. /\ a \in AdmissionType /\ Kept(a) = {NoFrame} /\ a.last_normal_tick = -1
  <2>1. 0 \in Nat
    OBVIOUS
  <2> QED
    BY <2>1, NewAdmissionFacts, FreerunAssumption
<1>6. /\ r.tick_base = 0 /\ r.admission = a /\ r.controls = <<>> /\ r.sim_seen = "none"
      /\ r.state = initial(AutoArm) /\ r.failure = "NONE"
  BY <1>1 DEF NewRuntime
<1>7. initial(AutoArm) \in FreeState /\ initial(AutoArm).mode # "TERMINATED"
  <2>1. NoTerminal \in [reason : Reasons, tick : Nat] /\ NoTick \in Int /\ "INIT" \in Modes
    BY DEF NoTerminal, Reasons, NoTick, Modes
  <2> QED
    BY <2>1, VehicleAssumption DEF initial, FreeState
<1> HIDE DEF a
<1>8. r \in RuntimeType
  <2>1. Zero(WindowFields) \in [WindowFields -> Nat]
    BY DEF Zero
  <2>2. <<>> \in Seq(ControlType) /\ "NONE" \in Failures
    BY DEF Failures
  <2> QED
    BY <1>1, <1>5, <1>7, <2>1, <2>2 DEF NewRuntime, RuntimeType, a
<1>9. <<>> \in Seq(SimFrames \union {Malformed}) /\ <<>> \in Seq(ReplyType) /\ <<>> \in Seq(FaultKinds)
  OBVIOUS
<1>10. Typed
  <2>1. /\ spc \in {"prologue", "drain", "offer", "done"} /\ model \in ModelType /\ k \in Nat
        /\ offset \in Nat /\ scode \in Int /\ vcode \in Int
    BY <1>1, <1>3
  <2>2. vpc \in {"acquire", "wake", "serve", "resend", "after", "exited"} /\ r \in RuntimeType
    BY <1>1, <1>8
  <2>3. carry \in SimFrames \union {NoFrame}
    BY <1>1
  <2>6. acquired \in BOOLEAN /\ rt_ok \in BOOLEAN /\ stop \in BOOLEAN /\ stopped \in BOOLEAN
        /\ sim_refused \in BOOLEAN /\ veh_refused \in BOOLEAN
    BY <1>1, Zenon
  <2>4. uplink \in Seq(SimFrames \union {Malformed}) /\ downlink \in Seq(ReplyType)
    BY <1>1, <1>9
  <2>5. faults \in Seq(FaultKinds)
    BY <1>1, <1>9
  <2> QED
    BY <2>1, <2>2, <2>3, <2>4, <2>5, <2>6 DEF Typed
<1>11. Admitting(r, FALSE)
  <2>1. 0 \in Nat
    OBVIOUS
  <2> QED
    BY <1>6, <2>1, FreerunAssumption, AdmittingBegins DEF a
<1>12. Admitting(r, vpc = "serve")
  BY <1>1, <1>11
<1>13. LastTick = -1
  BY <1>1 DEF LastTick
<1>14. Around(a, uplink, carry, model.envelope) = {}
  <2>1. {uplink[i] : i \in DOMAIN uplink} = {}
    BY <1>1
  <2> QED
    BY <1>1, <1>4, <1>5, <2>1 DEF Around
<1>15. PoolOk(r.admission, uplink, carry, model.envelope, LastTick)
  BY <1>5, <1>6, <1>13, <1>14 DEF PoolOk, Agree
<1>16. InOrder(uplink, carry, Pend, r.admission.last_normal_tick)
  <2>1. DOMAIN uplink = {}
    BY <1>1
  <2> QED
    BY <2>1 DEF InOrder, Rising
<1>17. SimOk
  <2>1. Ending(model, k)
    BY <1>4 DEF Ending, Legal
  <2> QED
    BY <1>1, <1>3, <1>4, <2>1 DEF SimOk
<1>18. VehOk
  <2>1. r = [NewRuntime EXCEPT !.failure = r.failure]
    BY <1>1, <1>6 DEF NewRuntime
  <2> QED
    BY <1>1, <1>6, <1>7, <2>1 DEF VehOk, Over
<1> QED
  BY <1>10, <1>12, <1>15, <1>16, <1>17, <1>18 DEF Core

\* The steps of the system, by what they do.
LEMMA StepKinds ==
  ASSUME Core, [Next]_vars
  PROVE  \/ Quiet \/ Interrupted \/ Body \/ After \/ SimKilled \/ Acquire
         \/ \E how : Starts(how)
         \/ \E how : Sends(how)
         \/ \E c, v : Wakes(c, v)
         \/ \E why : Fails(why)
         \/ \E state, success : Serves(state, success)
         \/ Halts \/ \E success : Resends(success)
         \/ Damages
<1>1. \/ Prologue \/ Interrupted \/ Body \/ After \/ Offer \/ SimKilled \/ SimSignal
      \/ Acquire \/ AcquireFails \/ Wake \/ SleepFails \/ Serve \/ Resend \/ Exit \/ Signal
      \/ Lose \/ Corrupt \/ SimEnded \/ VehicleEnded \/ StopVehicle \/ Stopped \/ Judge
      \/ WaitExpires \/ Finished \/ UNCHANGED vars
  BY DEF Next, Sim, Runner
<1>2. CASE \/ SimSignal \/ Signal \/ SimEnded \/ VehicleEnded \/ WaitExpires \/ StopVehicle
           \/ Stopped \/ Judge \/ Finished \/ AcquireFails \/ UNCHANGED vars
  <2>1. Typed
    BY DEF Core
  <2> QED
    BY <1>2, <2>1, QuietSteps
<1>3. CASE Wake
  BY <1>3, WakeWakes
<1>4. CASE SleepFails
  BY <1>4, SleepFailsFails
<1>5. CASE Exit
  BY <1>5, ExitFails
<1>6. CASE Serve
  BY <1>6, ServeServes
<1>7. CASE Resend
  BY <1>7, ResendResends
<1>8. CASE Lose \/ Corrupt
  BY <1>8, LoseDamages, CorruptDamages
<1>9. CASE Prologue
  BY <1>9, PrologueStarts
<1>10. CASE Offer
  BY <1>10, OfferSends DEF Core
<1> QED
  BY <1>1, <1>2, <1>3, <1>4, <1>5, <1>6, <1>7, <1>8, <1>9, <1>10

\* Every step keeps it.
LEMMA CoreNext ==
  ASSUME Core, [Next]_vars
  PROVE  Core'
<1>1. CASE Quiet
  BY <1>1, CoreQuiet
<1>2. CASE Interrupted \/ SimKilled \/ Body \/ After \/ Acquire
  BY <1>2, CoreInterrupted, CoreSimKilled, CoreBody, CoreAfter, CoreAcquire
<1>8. CASE \E how : Starts(how)
  BY <1>8, CoreStarts
<1>9. CASE \E how : Sends(how)
  BY <1>9, CoreSends
<1>3. CASE \E c, v : Wakes(c, v)
  BY <1>3, CoreWake
<1>4. CASE \E why : Fails(why)
  BY <1>4, CoreFails
<1>5. CASE \E state, success : Serves(state, success)
  BY <1>5, CoreServes
<1>6. CASE Halts \/ \E success : Resends(success)
  BY <1>6, CoreResends
<1>7. CASE Damages
  BY <1>7, CoreDamages
<1> QED
  BY StepKinds, <1>1, <1>2, <1>3, <1>4, <1>5, <1>6, <1>7, <1>8, <1>9

\* The invariant holds in every run.
THEOREM FreerunCore == Spec => []Core
<1>1. Init => Core
  BY CoreInit
<1>2. Core /\ [Next]_vars => Core'
  BY CoreNext
<1> QED
  BY <1>1, <1>2, PTL DEF Spec

\* PolicyContract, for every skew, batch and number of faults: the admission
\* gives the policy a sample newer than the one of the record before and not
\* from the future, or the same one again, then older than the cycle.
THEOREM PolicyContractHolds == Spec => []PolicyContract
<1>1. Core => PolicyContract
  <2> SUFFICES ASSUME Core, vpc = "serve"
               PROVE  LET in == PolicyInput(r, stop)
                          before == IF r.controls = <<>> THEN NoTick
                                    ELSE r.controls[Len(r.controls)].sensor_tick
                      IN  /\ in.fresh => in.held.tick \in before + 1 .. in.tick
                          /\ ~in.fresh => in.held.tick = before /\ before < in.tick
    BY DEF PolicyContract
  <2>1. /\ r \in RuntimeType /\ Admitting(r, TRUE) /\ Ordered(r.admission)
        /\ r.admission.held \in SimFrames \union {NoFrame} /\ stop \in BOOLEAN
    BY ServeHeld DEF Core, Typed
  <2>2. /\ PolicyInput(r, stop).tick = Now(r) /\ PolicyInput(r, stop).fresh = r.admission.fresh
        /\ PolicyInput(r, stop).held = Held(r) /\ Held(r).tick = r.admission.held.tick
    BY <2>1, InputFacts
  <2>3. Presented(r, TRUE)
    BY <2>1 DEF Admitting
  <2>4. IF r.admission.fresh THEN r.admission.held.tick \in Last(r) + 1 .. Now(r)
        ELSE r.admission.held.tick = Last(r) /\ Last(r) < Now(r)
    BY <2>3 DEF Presented
  <2> QED
    BY <2>2, <2>4 DEF Last
<1> QED
  BY <1>1, FreerunCore, PTL

\* NoFalseConflict, for every skew, batch and number of faults: the vehicle's
\* integrity fails only for corrupted datagrams and a simulator too far ahead.
THEOREM NoFalseConflictHolds == Spec => []NoFalseConflict
<1>1. Core => NoFalseConflict
  BY DEF Core, Admitting, Accused, NoFalseConflict
<1> QED
  BY <1>1, FreerunCore, PTL

-----------------------------------------------------------------------------
(* The second part of the invariant: how the two sides end. *)

Verdicts == {"DIVERGED", "SENSOR_LOST", "STABILIZED", "NOT_SETTLED"}

\* The terminal replies under way, and what the simulator has seen of them, are
\* the vehicle's ending.
Echoed(q, rt) ==
    \A i \in DOMAIN q : q[i].state = "TERMINATED" => Over(rt) /\ q[i].reason = rt.state.terminal.reason
Learned(m, rt) == m.vehicle_seen # "NONE" => Over(rt) /\ m.vehicle_seen = rt.state.terminal.reason

\* Why the vehicle's episode may end.
Motive(seen, why, told) ==
    \/ why = "SIGNAL" /\ told
    \/ seen = "none" /\ why \in Verdicts
    \/ <<seen, why>> \in PairedReasons
Decision(rt, busy, told) ==
    IF Over(rt) THEN rt.failure = "NONE" /\ Motive(rt.sim_seen, rt.state.terminal.reason, told)
    ELSE /\ rt.state.terminal.reason = "NONE" /\ rt.term_sent = 0
         /\ ~busy => rt.sim_seen = "none"

\* An exit code 0 of the vehicle, or of the simulator.
ExitedWell == vcode = 0 => ~stop /\ acquired /\ ~r.admission.integrity /\ r.failure = "NONE" /\ Over(r)

EndsOk ==
    /\ Echoed(downlink, r) /\ Learned(model, r) /\ Decision(r, vpc = "serve", stop)
    /\ Over(r) => acquired
    /\ vpc = "resend" => Over(r)
    /\ vpc = "exited" => ExitedWell
    /\ spc = "done" /\ scode = 0 => model.vehicle_seen # "NONE"
    /\ vpc = "serve" /\ r.admission.fresh /\ r.admission.held.body = "diverged" => r.sim_seen = "none"
    /\ vpc \in {"acquire", "wake", "serve"} => r.failure = "NONE"
    /\ vpc = "serve" \/ r.controls # <<>> => IsTerminal(carry) \/ r.admission.last_normal_tick >= 0

\* The priority of the causes in episode.cpp.
LEMMA StopMotive ==
  ASSUME NEW in \in FreeInput, NEW count, in.fresh /\ in.held.class = "diverged" => in.sim_reason = "none"
  PROVE  LET why == StopReason(count, in) IN
         IF why # "NONE" THEN Motive(in.sim_reason, why, in.stop_reason = "SIGNAL")
         ELSE in.sim_reason = "none"
<1> DEFINE why == StopReason(count, in)
<1>1. in.sim_reason \in {"none", "horizon", "angle", "nonfinite"} /\ in.stop_reason \in {"NONE", "SIGNAL"}
  BY DEF FreeInput, Legal
<1>2. CASE in.stop_reason # "NONE"
  <2>1. why = "SIGNAL" /\ in.stop_reason = "SIGNAL"
    BY <1>1, <1>2 DEF StopReason
  <2> QED
    BY <2>1 DEF Motive
<1>3. CASE in.stop_reason = "NONE" /\ in.sim_reason \in {"angle", "nonfinite"}
  <2>1. why = "DIVERGED"
    BY <1>1, <1>3 DEF StopReason
  <2> QED
    BY <1>3, <2>1 DEF Motive, PairedReasons
<1>4. CASE in.stop_reason = "NONE" /\ in.sim_reason = "horizon"
  <2>1. why \in {"SENSOR_LOST", "STABILIZED", "NOT_SETTLED"}
    BY <1>4 DEF StopReason
  <2> QED
    BY <1>4, <2>1 DEF Motive, PairedReasons
<1>5. CASE in.stop_reason = "NONE" /\ in.sim_reason = "none"
  <2>1. why \in {"NONE", "DIVERGED", "SENSOR_LOST", "STABILIZED", "NOT_SETTLED"}
    BY <1>5 DEF StopReason
  <2> QED
    BY <1>5, <2>1 DEF Motive, Verdicts
<1> QED
  BY <1>1, <1>2, <1>3, <1>4, <1>5

\* A signal or a step of the runner.
LEMMA EndsQuiet ==
  ASSUME Core, EndsOk, Quiet
  PROVE  EndsOk'
<1>1. /\ UNCHANGED <<spc, model, scode, r, carry, acquired, downlink, vcode>>
      /\ vpc' = vpc \/ (vpc = "acquire" /\ vpc' = "after")
      /\ stop => stop' 
      /\ vpc = "exited" => stop' = stop
  BY DEF Quiet
<1>2. Echoed(downlink, r)' /\ Learned(model, r)'
  BY <1>1 DEF EndsOk
<1>3. (vpc' = "serve") = (vpc = "serve") /\ (vpc' = "exited" => vpc = "exited")
  BY <1>1
<1>4. Decision(r, vpc = "serve", stop)'
  <2>1. Decision(r, vpc = "serve", stop)
    BY DEF EndsOk
  <2> QED
    BY <1>1, <1>3, <2>1 DEF Decision, Motive
<1>5. vpc' = "exited" => ExitedWell'
  BY <1>1, <1>3 DEF EndsOk, ExitedWell
<1>6. vpc' = "resend" => vpc = "resend"
  BY <1>1
<1> QED
  BY <1>1, <1>2, <1>3, <1>4, <1>5, <1>6 DEF EndsOk

\* A step of the simulator: the vehicle's part is left alone.
LEMMA EndsSim ==
  ASSUME EndsOk, UNCHANGED <<vpc, r, carry, acquired, vcode, stop>>, Echoed(downlink', r),
         Learned(model', r), spc' = "done" /\ scode' = 0 => model'.vehicle_seen # "NONE"
  PROVE  EndsOk'
<1>1. Decision(r, vpc = "serve", stop)' /\ (vpc' = "exited" => ExitedWell')
  BY DEF EndsOk, ExitedWell
<1> QED
  BY <1>1 DEF EndsOk

\* What the simulator learns from a drain.
LEMMA DrainLearns ==
  ASSUME Core, EndsOk, NEW m \in Drains
  PROVE  Learned(m, r) /\ Echoed(Rest(downlink), r)
<1> DEFINE p == Batch(downlink)
           q == Rest(downlink)
<1>1. Typed /\ downlink \in Seq(ReplyType) /\ RxMax \in Nat
  BY AdmissionAssumption DEF Core, Typed
<1>2. Drained(model, m, p) /\ p \in Seq(ReplyType) /\ q \in Seq(ReplyType)
  BY <1>1, DrainsFacts
<1>3. /\ Len(p) \in Nat /\ Len(p) <= Len(downlink) /\ \A i \in 1 .. Len(p) : p[i] = downlink[i]
      /\ Len(q) = Len(downlink) - Len(p) /\ \A i \in 1 .. Len(q) : q[i] = downlink[Len(p) + i]
  BY <1>1, BatchFacts
<1> HIDE DEF p, q
<1>4. DOMAIN p = 1 .. Len(p) /\ DOMAIN q = 1 .. Len(q) /\ DOMAIN downlink = 1 .. Len(downlink)
      /\ Len(downlink) \in Nat /\ Len(q) \in Nat
  BY <1>1, <1>2
<1>5. \A i \in DOMAIN p : i \in DOMAIN downlink /\ p[i] = downlink[i]
  BY <1>3, <1>4
<1>6. \A i \in DOMAIN q : Len(p) + i \in DOMAIN downlink /\ q[i] = downlink[Len(p) + i]
  BY <1>3, <1>4
<1>7. Echoed(downlink, r) /\ Learned(model, r)
  BY DEF EndsOk
<1>8. Echoed(q, r)
  BY <1>6, <1>7 DEF Echoed
<1>9. Learned(m, r)
  <2>1. CASE m.vehicle_seen = model.vehicle_seen
    BY <1>7, <2>1 DEF Learned
  <2>2. CASE \E i \in Final(p) : m.vehicle_seen = p[i].reason
    BY <1>5, <1>7, <2>2 DEF Final, Echoed, Learned
  <2> QED
    BY <1>2, <2>1, <2>2 DEF Drained
<1> QED
  BY <1>8, <1>9 DEF q

\* The simulator's steps.
LEMMA EndsSimSteps ==
  ASSUME Core, EndsOk,
         \/ Interrupted \/ SimKilled \/ Body \/ After
         \/ \E how : Starts(how)
         \/ \E how : Sends(how)
  PROVE  EndsOk'
<1>1. model \in ModelType /\ Learned(model, r) /\ Echoed(downlink, r) /\ Echoed(<<>>, r)
  BY DEF Core, Typed, EndsOk, Echoed
<1>2. \A m \in ModelType : Learned(m, r) => Learned(Ended(m), r)
  BY EndedFacts DEF Learned
<1>3. CASE Interrupted \/ SimKilled
  <2>1. /\ Passes /\ spc' = "done" /\ downlink' = <<>> /\ scode' # 0
        /\ model' = model \/ model' = Ended(model)
    BY <1>3, CoreInterrupted, CoreSimKilled
  <2> QED
    BY <1>1, <1>2, <2>1, EndsSim DEF Passes
<1>4. CASE Body
  <2>1. PICK m \in Drains : Steered(m)
    BY <1>4, CoreBody
  <2>2. Passes
    BY <1>4, CoreBody
  <2>3. Learned(m, r) /\ Echoed(Rest(downlink), r) /\ m \in ModelType
    BY <2>1, DrainLearns, DrainsFacts DEF Core
  <2>4. CASE m.vehicle_seen # "NONE"
    <3> DEFINE z == [m EXCEPT !.source = "vehicle"]
    <3>1. spc' = "done" /\ downlink' = <<>> /\ model' = Ended(z)
      BY <2>1, <2>4 DEF Steered
    <3>2. z \in ModelType /\ z.vehicle_seen = m.vehicle_seen
      BY <2>3 DEF ModelType
    <3> HIDE DEF z
    <3>3. Learned(Ended(z), r) /\ Ended(z).vehicle_seen = m.vehicle_seen
      BY <2>3, <3>2, EndedFacts DEF Learned
    <3> QED
      BY <1>1, <2>2, <2>4, <3>1, <3>3, EndsSim DEF Passes
  <2>5. CASE m.vehicle_seen = "NONE"
    <3>1. PICK class \in Truths : spc' = "offer" /\ downlink' = Rest(downlink) /\ model' = advance(m, k, class)
      BY <2>1, <2>5 DEF Steered
    <3>2. advance(m, k, class).vehicle_seen = m.vehicle_seen
      BY <2>3 DEF advance, ModelType
    <3>3. Learned(model', r)
      BY <2>3, <3>1, <3>2 DEF Learned
    <3> QED
      BY <2>2, <2>3, <3>1, <3>3, EndsSim DEF Passes
  <2> QED
    BY <2>4, <2>5
<1>5. CASE After
  <2>1. PICK m \in Drains : Awaited(m)
    BY <1>5, CoreAfter
  <2>2. Passes
    BY <1>5, CoreAfter
  <2>3. Learned(m, r) /\ Echoed(Rest(downlink), r) /\ m \in ModelType
    BY <2>1, DrainLearns, DrainsFacts DEF Core
  <2>4. Learned(Ended(m), r) /\ Ended(m).vehicle_seen = m.vehicle_seen
    BY <1>2, <2>3, EndedFacts
  <2>5. Learned(model', r) /\ Echoed(downlink', r)
        /\ (spc' = "done" /\ scode' = 0 => model'.vehicle_seen # "NONE")
    BY <1>1, <2>1, <2>3, <2>4 DEF Awaited
  <2> QED
    BY <2>2, <2>5, EndsSim DEF Passes
<1>6. ASSUME NEW how, Starts(how) PROVE EndsOk'
  <2> DEFINE z == offer(model, 0, FALSE, how)
  <2>1. z \in ModelType /\ z.vehicle_seen = model.vehicle_seen
    <3>1. how \in {"lost", "failed", "sent"} /\ FALSE \in BOOLEAN /\ 0 \in Nat
      BY <1>6 DEF Starts
    <3>2. FALSE => model.reason \in Legal
      OBVIOUS
    <3>3. z \in ModelType /\ Offered(model, z, 0, FALSE, how)
      BY <1>1, <3>1, <3>2, OfferFacts
    <3> HIDE DEF z
    <3> QED
      BY <3>3 DEF Offered
  <2> HIDE DEF z
  <2>2. Learned(z, r) /\ Learned(Ended(z), r)
    BY <1>1, <1>2, <2>1 DEF Learned
  <2>3. /\ UNCHANGED <<vpc, r, carry, acquired, vcode, stop>>
        /\ IF how = "sent" THEN spc' = "drain" /\ model' = z /\ downlink' = downlink
           ELSE spc' = "done" /\ model' = Ended(z) /\ downlink' = <<>> /\ scode' = 1
    BY <1>6 DEF Starts, Sending, z
  <2> QED
    BY <1>1, <2>2, <2>3, EndsSim
<1>7. ASSUME NEW how, Sends(how) PROVE EndsOk'
  <2> DEFINE over == model.reason # "none"
             z == offer(model, k + 1, over, how)
  <2>1. z \in ModelType /\ z.vehicle_seen = model.vehicle_seen
    <3>1. how \in {"lost", "failed", "sent"} /\ over \in BOOLEAN /\ k + 1 \in Nat
      BY <1>7 DEF Sends, Sending, Core, Typed
    <3>2. over => model.reason \in Legal
      BY <1>7 DEF Sends, Core, SimOk
    <3> HIDE DEF over
    <3>3. z \in ModelType /\ Offered(model, z, k + 1, over, how)
      BY <1>1, <3>1, <3>2, OfferFacts
    <3> HIDE DEF z
    <3> QED
      BY <3>3 DEF Offered
  <2> HIDE DEF z
  <2>2. UNCHANGED <<vpc, r, carry, acquired, vcode, stop>> /\ spc' = "drain" /\ model' = z
        /\ downlink' = downlink
    BY <1>7 DEF Sends, Sending, z
  <2>3. Learned(z, r)
    BY <1>1, <2>1 DEF Learned
  <2> QED
    BY <1>1, <2>2, <2>3, EndsSim
<1> QED
  BY <1>3, <1>4, <1>5, <1>6, <1>7

\* A diverged sample is fresh in the first cycle only, before any envelope is due.
LEMMA DivergedFirst ==
  ASSUME Core, EndsOk, NEW c, NEW v, Wakes(c, v), c.fresh, c.held.body = "diverged"
  PROVE  c.latch = NoFrame
<1> DEFINE a == r.admission
           u == uplink
           e == model.envelope
           P == Around(a, u, carry, e)
           first == r.controls = <<>>
           b == Drawn(u, veh_refused)
<1>1. /\ vpc = "wake" /\ v = Cargo(carry, first, b) /\ Cycled(a, c, v, P)
  BY DEF Wakes
<1>2. r \in RuntimeType /\ a \in AdmissionType /\ Admitting(r, FALSE) /\ r.tick_base \in Nat
      /\ r.controls \in Seq(ControlType) /\ u \in Seq(SimFrames \union {Malformed}) /\ veh_refused \in BOOLEAN
  BY <1>1 DEF Core, Typed, RuntimeType
<1>3. carry \in SimFrames /\ r.tick_base = carry.tick /\ carry.tick \in Nat
  BY <1>1 DEF Core, VehOk, SimFrames
<1>4. /\ P \subseteq SimFrames /\ \A f \in P : KnownToSim(f, e, LastTick)
  BY DEF Core, PoolOk
<1>5. /\ c \in AdmissionType /\ Ordered(c) /\ Kept(c) \subseteq P \union {NoFrame}
      /\ c.expected = NextTick(a) /\ Renewed(a, c, v)
  BY <1>1 DEF Cycled, Sound
<1>6. /\ c.held \in a.future \union {v[j] : j \in DOMAIN v} /\ ~IsTerminal(c.held)
      /\ c.held.tick \in a.held.tick + 1 .. c.expected /\ c.held # NoFrame
  BY <1>5 DEF Renewed
<1>7. c.held \in P /\ c.held.tick = 0
  <2>1. c.held \in P
    BY <1>5, <1>6 DEF Kept
  <2> QED
    BY <1>4, <1>6, <2>1 DEF KnownToSim
<1>8. a.expected \in Nat /\ \A f \in a.future : f.tick - a.expected \in 1 .. SkewMax /\ f.tick \in Int
  <2>1. Window(a) /\ Ordered(a)
    BY <1>2 DEF Admitting, Sound
  <2>2. \A f \in a.future : f.tick \in Int
    BY <1>2, FrameFacts DEF AdmissionType, Datagrams
  <2> QED
    BY <2>1, <2>2 DEF Window, Ordered
<1>9. c.held \notin a.future
  BY <1>7, <1>8, AdmissionAssumption
<1>10. PICK j \in DOMAIN v : c.held = v[j]
  BY <1>6, <1>9
<1>11. v \in Seq(SimFrames \union {Malformed}) /\ Rising(v, a.last_normal_tick)
  BY <1>1, CargoKnown
<1>12. IsSample(v[j]) /\ v[j].tick = 0
  <2>1. Malformed \notin SimFrames
    BY DEF Malformed, NoFrame, SimFrames
  <2> QED
    BY <1>4, <1>6, <1>7, <1>10, <2>1 DEF IsSample
<1> DEFINE n == Len(b)
           S == SimFrames \union {Malformed}
<1>13. b \in Seq(S) /\ Splits(b, Left(u, veh_refused), u, n)
  BY <1>2, DrawnFacts
<1>14. Laden(v, carry, IF first THEN 1 ELSE 0, b)
  <2>1. carry \in S /\ first \in BOOLEAN
    BY <1>3
  <2> HIDE DEF first, b, S
  <2> QED
    BY <1>1, <1>13, <2>1, CargoFacts
<1>15. j \in 1 .. Len(v) /\ Len(v) = (IF first THEN 1 ELSE 0) + n /\ n \in Nat /\ n <= Len(u) /\ Len(u) \in Nat
       /\ DOMAIN u = 1 .. Len(u)
  BY <1>2, <1>11, <1>13, <1>14 DEF Splits, Laden
<1>16. InOrder(u, carry, first, a.last_normal_tick)
  <2>1. Pend = first
    BY <1>1 DEF Pend
  <2> QED
    BY <2>1 DEF Core
<1>17. first
  <2> SUFFICES ASSUME ~first PROVE FALSE
    OBVIOUS
  <2>1. v[j] = b[j] /\ j \in 1 .. n
    <3>1. j - 0 = j /\ ~(j <= 0)
      BY <1>15
    <3> QED
      BY <1>14, <1>15, <3>1 DEF Laden
  <2>2. v[j] = u[j] /\ j \in DOMAIN u
    BY <1>13, <1>15, <2>1 DEF Splits
  <2>3. IsTerminal(carry) \/ a.last_normal_tick >= 0
    BY DEF EndsOk
  <2>4. ~IsTerminal(carry)
    BY <1>12, <1>16, <2>2 DEF InOrder
  <2>5. v[j].tick > a.last_normal_tick /\ a.last_normal_tick \in Int
    BY <1>2, <1>11, <1>12 DEF Rising, AdmissionType
  <2> QED
    BY <1>12, <2>3, <2>4, <2>5
<1>18. v[j] = carry
  <2> SUFFICES ASSUME v[j] # carry PROVE FALSE
    OBVIOUS
  <2>1. ~(j <= 1) /\ v[j] = b[j - 1]
    BY <1>14, <1>15, <1>17 DEF Laden
  <2>2. j - 1 \in 1 .. n /\ j - 1 \in DOMAIN u
    BY <1>15, <1>17, <2>1
  <2>3. v[j] = u[j - 1]
    BY <1>13, <2>1, <2>2 DEF Splits
  <2>4. ~IsTerminal(carry)
    BY <1>12, <1>16, <2>2, <2>3 DEF InOrder
  <2>5. IsSample(carry)
    <3>1. Malformed \notin SimFrames
      BY DEF Malformed, NoFrame, SimFrames
    <3> QED
      BY <1>3, <2>4, <3>1 DEF IsSample
  <2>6. Rising(u, carry.tick)
    BY <1>16, <1>17, <2>5 DEF InOrder
  <2>7. v[j].tick > carry.tick
    BY <1>12, <2>2, <2>3, <2>6 DEF Rising
  <2> QED
    BY <1>3, <1>12, <2>7
<1>19. c.expected = 0
  <2>1. Len(r.controls) = 0 /\ NextTick(a) = Now(r)
    BY <1>2, <1>17, NowIsNext
  <2>2. carry.tick = 0
    BY <1>12, <1>18
  <2> QED
    BY <1>3, <1>5, <2>1, <2>2 DEF Now
<1> SUFFICES ASSUME c.latch # NoFrame PROVE FALSE
  OBVIOUS
<1>20. IsTerminal(c.latch) /\ c.latch.tick <= 0 /\ c.latch \in P
  BY <1>5, <1>19 DEF Ordered, Kept, Remembered
<1>21. c.latch = e /\ e # NoFrame /\ IsTerminal(e)
  BY <1>4, <1>20 DEF KnownToSim
<1>22. e.tick = k + 1 /\ k \in Nat
  BY <1>21 DEF Core, SimOk, Ending, Typed
<1> QED
  BY <1>20, <1>21, <1>22

\* A cycle wakes.
LEMMA EndsWake ==
  ASSUME Core, EndsOk, NEW c, NEW v, Wakes(c, v)
  PROVE  EndsOk'
<1> DEFINE a == r.admission
           P == Around(a, uplink, carry, model.envelope)
<1>1. /\ SimRests /\ vpc = "wake" /\ vpc' = "serve" /\ r' = Admitted(r, c)
      /\ UNCHANGED <<carry, acquired, vcode, stop, downlink>> /\ Cycled(a, c, v, P)
      /\ v = Cargo(carry, r.controls = <<>>, Drawn(uplink, veh_refused))
  BY DEF Wakes
<1>2. r \in RuntimeType /\ Admitting(r, FALSE) /\ P \in SUBSET SimFrames /\ a \in AdmissionType
  BY <1>1 DEF Core, Typed, PoolOk, RuntimeType
<1> HIDE DEF P
<1>3. Unserved(r, r') /\ r'.admission = c /\ Admitting(r', TRUE)
  <2> DEFINE z == Admitted(r, c)
  <2>1. Unserved(r, z) /\ z.admission = c /\ Admitting(z, TRUE)
    <3>1. Cycled(r.admission, c, v, P)
      BY <1>1
    <3> QED
      BY ONLY <1>2, <3>1, WakeAdmits
  <2> QED
    BY <1>1, <2>1
<1>4. /\ r'.state = r.state /\ r'.failure = r.failure /\ r'.term_sent = r.term_sent
      /\ r'.controls = r.controls /\ Over(r') = Over(r)
  BY <1>3 DEF Unserved, Over
<1>5. model' = model /\ spc' = spc /\ scode' = scode
  BY <1>1 DEF SimRests
<1>6. ~Over(r) /\ acquired
  BY <1>1 DEF Core, VehOk
<1>7. Echoed(downlink, r)' /\ Learned(model, r)'
  BY <1>1, <1>4, <1>5 DEF EndsOk, Echoed, Learned
<1>8. Decision(r', TRUE, stop')
  BY <1>4, <1>6 DEF EndsOk, Decision
<1>9. r'.admission.fresh /\ r'.admission.held.body = "diverged" => r'.sim_seen = "none"
  <2> SUFFICES ASSUME c.fresh, c.held.body = "diverged" PROVE r'.sim_seen = "none"
    BY <1>3
  <2>1. c.latch = NoFrame
    BY DivergedFirst
  <2>2. r'.sim_seen = c.latch.reason
    BY <1>3 DEF Admitting
  <2> QED
    BY <2>1, <2>2 DEF NoFrame
<1>10. IsTerminal(carry) \/ c.last_normal_tick >= 0
  <2>1. Receipt(a, c, v, Len(v)) /\ c \in AdmissionType
    BY <1>1 DEF Cycled
  <2>2. c.last_normal_tick >= a.last_normal_tick /\ \A t \in Collected(v, Len(v)) : t <= c.last_normal_tick
    BY <2>1 DEF Receipt
  <2>3. a.last_normal_tick \in Int /\ c.last_normal_tick \in Int
    BY <1>2, <2>1 DEF AdmissionType
  <2>4. CASE r.controls # <<>>
    <3>1. IsTerminal(carry) \/ a.last_normal_tick >= 0
      BY <2>4 DEF EndsOk
    <3> QED
      BY <2>2, <2>3, <3>1
  <2>5. CASE r.controls = <<>> /\ ~IsTerminal(carry)
    <3> DEFINE b == Drawn(uplink, veh_refused)
               S == SimFrames \union {Malformed}
    <3>1. carry \in SimFrames /\ carry.tick \in Nat
      BY <1>6 DEF Core, VehOk, SimFrames
    <3>2. b \in Seq(S) /\ carry \in S
      BY <3>1, DrawnFacts DEF Core, Typed
    <3> HIDE DEF b, S
    <3>3. Laden(v, carry, 1, b)
      <4>1. TRUE \in BOOLEAN /\ v = Cargo(carry, TRUE, b)
        BY <1>1, <2>5 DEF b
      <4>2. Laden(v, carry, IF TRUE THEN 1 ELSE 0, b)
        BY <3>2, <4>1, CargoFacts
      <4> QED
        BY <4>2
    <3>4. Len(b) \in Nat
      BY <3>2
    <3>5. 1 \in 1 .. Len(v) /\ v[1] = carry
      BY <3>3, <3>4 DEF Laden
    <3>6. IsSample(carry)
      <4>1. Malformed \notin SimFrames
        BY DEF Malformed, NoFrame, SimFrames
      <4> QED
        BY <2>5, <3>1, <4>1 DEF IsSample
    <3>7. carry.tick \in Collected(v, Len(v))
      BY <3>5, <3>6 DEF Collected
    <3> QED
      BY <2>2, <2>3, <3>1, <3>7
  <2> QED
    BY <2>4, <2>5
<1> QED
  BY <1>1, <1>3, <1>4, <1>5, <1>6, <1>7, <1>8, <1>9, <1>10 DEF EndsOk

\* The origin is acquired, or rejected.
LEMMA EndsAcquire ==
  ASSUME Core, EndsOk, Acquire
  PROVE  EndsOk'
<1>1. /\ vpc = "acquire" /\ vpc' \in {"wake", "after"} /\ SimRests
      /\ r'.state = r.state /\ r'.controls = r.controls /\ r'.sim_seen = r.sim_seen
      /\ r'.term_sent = r.term_sent /\ r'.failure = r.failure
      /\ UNCHANGED <<downlink, stop>>
  <2>1. r \in RuntimeType
    BY DEF Core, Typed
  <2>2. SimRests /\ vpc = "acquire" /\ (Acquires \/ Rejects)
    BY CoreAcquire
  <2>3. UNCHANGED <<downlink, stop>>
    BY DEF Acquire, signals
  <2>4. CASE Acquires
    BY <2>1, <2>2, <2>3, <2>4, AcquiredFacts DEF Acquires
  <2>5. CASE Rejects
    BY <2>2, <2>3, <2>5 DEF Rejects
  <2> QED
    BY <2>2, <2>4, <2>5
<1>2. ~Over(r) /\ ~acquired
  BY <1>1 DEF Core, VehOk
<1>3. r.controls = <<>>
  BY <1>2, Unacquired
<1>4. ~Over(r')
  BY <1>1, <1>2 DEF Over
<1>5. Echoed(downlink, r)' /\ Learned(model, r)'
  BY <1>1, <1>2, <1>4 DEF EndsOk, Echoed, Learned, SimRests
<1>6. Decision(r, vpc = "serve", stop)'
  BY <1>1, <1>2, <1>4 DEF EndsOk, Decision
<1> QED
  BY <1>1, <1>3, <1>4, <1>5, <1>6 DEF EndsOk, SimRests

\* A failure is reported.
LEMMA EndsFails ==
  ASSUME Core, EndsOk, NEW why, Fails(why)
  PROVE  EndsOk'
<1>1. /\ SimRests /\ UNCHANGED <<carry, acquired, rt_ok, stop, downlink>> /\ Broken(r, r', why)
      /\ vpc \in {"wake", "resend", "after"} /\ vpc' \in {"after", "exited"}
  BY DEF Fails
<1>2. /\ r'.state = r.state /\ r'.controls = r.controls /\ r'.sim_seen = r.sim_seen
      /\ r'.term_sent = r.term_sent /\ r'.failure = why /\ r'.admission = r.admission /\ Over(r') = Over(r)
  BY <1>1 DEF Broken, Over
<1>3. Echoed(downlink, r)' /\ Learned(model, r)'
  BY <1>1, <1>2 DEF EndsOk, Echoed, Learned, SimRests
<1>4. Over(r) => why = r.failure
  <2> SUFFICES ASSUME Over(r) PROVE why = r.failure
    OBVIOUS
  <2>1. acquired /\ rt_ok /\ vpc # "wake"
    BY DEF EndsOk, Core, VehOk
  <2> QED
    BY <2>1 DEF Fails
<1>5. Decision(r, FALSE, stop)
  BY <1>1 DEF EndsOk
<1>6. Decision(r', FALSE, stop)
  BY <1>2, <1>4, <1>5 DEF Decision
<1>7. Decision(r, vpc = "serve", stop)'
  BY <1>1, <1>6
<1>8. vpc' = "exited" => ExitedWell'
  <2> SUFFICES ASSUME vpc' = "exited", vcode' = 0
               PROVE  ~stop' /\ acquired' /\ ~r'.admission.integrity /\ r'.failure = "NONE" /\ Over(r')
    BY DEF ExitedWell
  <2>1. VehicleCode(r', TRUE, stop, rt_ok, acquired) = 0
    <3>1. vcode' \in {VehicleCode(r', TRUE, stop, rt_ok, acquired), 4}
      BY DEF Fails
    <3> DEFINE x == VehicleCode(r', TRUE, stop, rt_ok, acquired)
    <3> HIDE DEF x
    <3>2. vcode' = x \/ vcode' = 4
      BY <3>1 DEF x
    <3>3. vcode' # 4
      OBVIOUS
    <3>4. x = 0
      BY <3>2, <3>3
    <3> QED
      BY <3>4 DEF x
  <2>2. ~stop /\ ~r'.admission.integrity /\ acquired /\ r'.failure = "NONE" /\ r'.term_sent # 0
    BY <2>1 DEF VehicleCode
  <2>3. Over(r')
    BY <1>6, <2>2 DEF Decision
  <2> QED
    BY <1>1, <2>2, <2>3
<1>9. r'.controls # <<>> => IsTerminal(carry) \/ r.admission.last_normal_tick >= 0
  BY <1>2 DEF EndsOk
<1> QED
  BY <1>1, <1>2, <1>3, <1>7, <1>8, <1>9 DEF EndsOk, SimRests

\* A cycle is served.
LEMMA EndsServes ==
  ASSUME Core, EndsOk, NEW state, NEW success, Serves(state, success)
  PROVE  EndsOk'
<1> DEFINE in == PolicyInput(r, stop)
           m == Reply(Now(r), state.mode, state.terminal.reason)
<1>1. /\ vpc = "serve" /\ SimRests /\ state \in FreeState /\ Decided(r.state, in, state)
      /\ r' \in RuntimeType /\ CycleServed(r, r', state, success) /\ Replied(m, success)
      /\ UNCHANGED <<carry, acquired, vcode, stop>>
      /\ vpc' \in {"wake", "resend", "after"} /\ (vpc' = "resend" => state.mode = "TERMINATED")
  BY DEF Serves
<1>2. /\ r \in RuntimeType /\ Admitting(r, TRUE) /\ Ordered(r.admission) /\ ~Over(r) /\ acquired
      /\ r.admission.held \in SimFrames \union {NoFrame} /\ in \in FreeInput
  BY <1>1, ServeHeld
<1>3. /\ in.fresh = r.admission.fresh /\ in.held = Held(r) /\ in.sim_reason = r.sim_seen
      /\ in.stop_reason = IF stop THEN "SIGNAL" ELSE "NONE"
  BY <1>2, InputFacts DEF Core, Typed
<1>4. in.fresh /\ in.held.class = "diverged" => in.sim_reason = "none"
  <2> SUFFICES ASSUME in.fresh, in.held.class = "diverged" PROVE in.sim_reason = "none"
    OBVIOUS
  <2>1. r.admission.held.body = "diverged"
    BY <1>3 DEF Held, NoHeld
  <2> QED
    BY <1>1, <1>3, <2>1 DEF EndsOk
<1> DEFINE count == SettleCount(r.state.settle_count, in.held)
           why == StopReason(count, in)
<1>5. IF why # "NONE" THEN Motive(in.sim_reason, why, in.stop_reason = "SIGNAL")
      ELSE in.sim_reason = "none"
  <2> HIDE DEF in, count
  <2> QED
    BY <1>2, <1>4, StopMotive
<1>6. (state.mode = "TERMINATED") <=> (why # "NONE")
  BY <1>1 DEF Decided
<1>7. state.terminal.reason = why
  BY <1>1 DEF Decided
<1> HIDE DEF why, count
<1>8. /\ r'.state = state /\ r'.sim_seen = r.sim_seen /\ r'.failure = r.failure
      /\ r'.admission = r.admission /\ (Over(r') <=> state.mode = "TERMINATED")
      /\ r'.term_sent = IF success THEN (IF state.mode = "TERMINATED" THEN 1 ELSE 0) ELSE 0
  BY <1>1 DEF CycleServed, Over
<1>9. r.failure = "NONE" /\ (IsTerminal(carry) \/ r.admission.last_normal_tick >= 0)
  BY <1>1 DEF EndsOk
<1>10. Motive(in.sim_reason, why, in.stop_reason = "SIGNAL") => Motive(r.sim_seen, why, stop)
  BY <1>3 DEF Motive
<1> HIDE DEF in
<1>11. Decision(r', FALSE, stop)
  <2>1. CASE why # "NONE"
    BY <1>5, <1>6, <1>7, <1>8, <1>9, <1>10, <2>1 DEF Decision
  <2>2. CASE why = "NONE"
    <3>1. ~Over(r') /\ r'.state.terminal.reason = "NONE" /\ r'.term_sent = 0
      BY <1>6, <1>7, <1>8, <2>2
    <3>2. r'.sim_seen = "none"
      BY <1>3, <1>5, <1>8, <2>2
    <3> QED
      BY <3>1, <3>2 DEF Decision
  <2> QED
    BY <2>1, <2>2
<1>12. Decision(r, vpc = "serve", stop)'
  BY <1>1, <1>11
<1>13. Learned(model, r)'
  <2>1. model' = model
    BY <1>1 DEF SimRests
  <2> QED
    BY <1>2, <2>1 DEF EndsOk, Learned
<1>14. Echoed(downlink, r)'
  <2>1. downlink' = (IF success /\ spc # "done" THEN Append(downlink, m) ELSE downlink)
    BY <1>1 DEF Replied
  <2>2. downlink \in Seq(ReplyType) /\ \A i \in DOMAIN downlink : downlink[i].state # "TERMINATED"
    BY <1>2 DEF Core, Typed, EndsOk, Echoed
  <2>3. m.state = state.mode /\ m.reason = state.terminal.reason /\ m \in ReplyType
    BY <1>1 DEF Replied, Reply
  <2> HIDE DEF m
  <2>4. \A i \in DOMAIN Append(downlink, m) : \/ Append(downlink, m)[i] = m
                                              \/ i \in DOMAIN downlink /\ Append(downlink, m)[i] = downlink[i]
    BY <2>2, <2>3
  <2>5. \A i \in DOMAIN downlink' : downlink'[i] = m \/ downlink'[i].state # "TERMINATED"
    BY <2>1, <2>2, <2>4
  <2> QED
    BY <1>8, <2>3, <2>5 DEF Echoed
<1>15. spc' = spc /\ scode' = scode /\ model' = model
  BY <1>1 DEF SimRests
<1>16. vpc' = "wake" => r'.failure = "NONE"
  BY <1>8, <1>9
<1> QED
  BY <1>1, <1>2, <1>8, <1>9, <1>12, <1>13, <1>14, <1>15, <1>16 DEF EndsOk

\* The terminal reply is sent again.
LEMMA EndsResends ==
  ASSUME Core, EndsOk, Halts \/ \E success : Resends(success)
  PROVE  EndsOk'
<1>1. /\ SimRests /\ UNCHANGED <<carry, acquired, vcode, stop>>
      /\ vpc = "resend" /\ vpc' \in {"resend", "after"}
      /\ \/ downlink' = downlink
         \/ downlink' = Append(downlink, ReplyOf(r)) /\ ReplyOf(r) \in ReplyType
      /\ r'.state = r.state /\ r'.controls = r.controls /\ r'.sim_seen = r.sim_seen
      /\ r'.failure = r.failure /\ r'.admission = r.admission
  BY DEF Halts, Resends, Replied, CopySent
<1>2. Over(r') = Over(r)
  BY <1>1 DEF Over
<1>3. Decision(r, FALSE, stop) /\ Echoed(downlink, r) /\ Learned(model, r)
  BY <1>1 DEF EndsOk
<1>4. Over(r)
  BY <1>1 DEF EndsOk
<1>5. Decision(r', FALSE, stop)
  BY <1>1, <1>2, <1>3, <1>4 DEF Decision
<1>6. Decision(r, vpc = "serve", stop)' /\ Learned(model, r)'
  BY <1>1, <1>2, <1>3, <1>5 DEF Learned, SimRests
<1>7. Echoed(downlink, r)'
  <2>1. downlink \in Seq(ReplyType)
    BY DEF Core, Typed
  <2>2. ReplyOf(r).reason = r.state.terminal.reason
    BY DEF ReplyOf, Reply
  <2>3. \A i \in DOMAIN downlink' : \/ downlink'[i] = ReplyOf(r)
                                    \/ i \in DOMAIN downlink /\ downlink'[i] = downlink[i]
    BY <1>1, <2>1
  <2> QED
    BY <1>1, <1>2, <1>3, <1>4, <2>2, <2>3 DEF Echoed
<1> QED
  BY <1>1, <1>2, <1>6, <1>7 DEF EndsOk, SimRests

\* A datagram is lost or corrupted.
LEMMA EndsDamages ==
  ASSUME Core, EndsOk, Damages
  PROVE  EndsOk'
<1>1. /\ SimRests /\ UNCHANGED <<vpc, r, carry, acquired, vcode, stop>>
      /\ \A i \in DOMAIN downlink' : \E j \in DOMAIN downlink :
            downlink'[i].state = downlink[j].state /\ downlink'[i].reason = downlink[j].reason
  BY DEF Damages
<1>2. Echoed(downlink', r)
  BY <1>1 DEF EndsOk, Echoed
<1> QED
  BY <1>1, <1>2, EndsSim DEF EndsOk, SimRests

\* The second part of the invariant holds in every run.
THEOREM FreerunEnds == Spec => [](Core /\ EndsOk)
<1>1. Init => Core /\ EndsOk
  <2> SUFFICES ASSUME Init PROVE EndsOk
    BY CoreInit
  <2>1. /\ vpc = "acquire" /\ r = NewRuntime /\ downlink = <<>> /\ spc = "prologue"
    BY DEF Init
  <2>2. model.vehicle_seen = "NONE"
    BY DEF Init, NewModel
  <2>3. /\ r.controls = <<>> /\ r.sim_seen = "none" /\ r.failure = "NONE" /\ r.term_sent = 0
        /\ r.state = initial(AutoArm)
    BY <2>1 DEF NewRuntime
  <2>4. ~Over(r) /\ r.state.terminal.reason = "NONE"
    BY <2>3 DEF Over, initial, NoTerminal
  <2>5. Decision(r, vpc = "serve", stop)
    BY <2>3, <2>4 DEF Decision
  <2>6. Echoed(downlink, r) /\ Learned(model, r)
    BY <2>1, <2>2 DEF Echoed, Learned
  <2> QED
    BY <2>1, <2>3, <2>4, <2>5, <2>6 DEF EndsOk
<1>2. Core /\ EndsOk /\ [Next]_vars => Core' /\ EndsOk'
  <2> SUFFICES ASSUME Core, EndsOk, [Next]_vars PROVE EndsOk'
    BY CoreNext
  <2>1. CASE Quiet
    BY <2>1, EndsQuiet
  <2>2. CASE Interrupted \/ SimKilled \/ Body \/ After
    BY <2>2, EndsSimSteps
  <2>3. CASE \E how : Starts(how)
    BY <2>3, EndsSimSteps
  <2>4. CASE \E how : Sends(how)
    BY <2>4, EndsSimSteps
  <2>5. CASE Acquire
    BY <2>5, EndsAcquire
  <2>6. CASE \E c, v : Wakes(c, v)
    BY <2>6, EndsWake
  <2>7. CASE \E why : Fails(why)
    BY <2>7, EndsFails
  <2>8. CASE \E state, success : Serves(state, success)
    BY <2>8, EndsServes
  <2>9. CASE Halts \/ \E success : Resends(success)
    BY <2>9, EndsResends
  <2>10. CASE Damages
    BY <2>10, EndsDamages
  <2> QED
    BY StepKinds, <2>1, <2>2, <2>3, <2>4, <2>5, <2>6, <2>7, <2>8, <2>9, <2>10
<1> QED
  BY <1>1, <1>2, PTL DEF Spec

\* An envelope the vehicle has seen is the simulator's.
LEMMA SeenEnvelope ==
  ASSUME Core, r.sim_seen # "none"
  PROVE  /\ r.sim_seen = model.reason /\ model.source = "local" /\ model.source # "vehicle"
         /\ r.admission.terminals["received_raw"] > 0
<1> DEFINE a == r.admission
           e == model.envelope
<1>1. r.sim_seen = a.latch.reason /\ Heard(a) /\ r \in RuntimeType
  BY DEF Core, Admitting, Typed
<1>2. IsTerminal(a.latch) /\ a.latch # NoFrame /\ a.latch # Malformed /\ a.latch \in Kept(a)
  BY <1>1 DEF IsTerminal, NoFrame, Malformed, Kept, Remembered
<1>3. a.latch = e
  BY <1>2 DEF Core, PoolOk, KnownToSim, Around
<1>4. e.reason = model.reason /\ model.source = "local"
  BY <1>2, <1>3 DEF Core, SimOk, Ending
<1> QED
  BY <1>1, <1>2, <1>3, <1>4 DEF Heard

\* EndsAgree, for every schedule and number of faults: at most one side ended
\* because of the other, a reason seen is the one reported, and two exit codes 0
\* come with a pair of reasons that reconcile.py accepts.
THEOREM EndsAgreeHolds == Spec => []EndsAgree
<1>1. Core /\ EndsOk => EndsAgree
  <2> SUFFICES ASSUME Core, EndsOk PROVE EndsAgree
    OBVIOUS
  <2>1. ~Contradictory(r, model)
    BY SeenEnvelope DEF Contradictory
  <2>2. Over(r) => VehicleReason(r) = r.state.terminal.reason
    BY DEF EndsOk, Decision, VehicleReason
  <2>3. model.vehicle_seen # "NONE" => Over(r) /\ model.vehicle_seen = VehicleReason(r)
    BY <2>2 DEF EndsOk, Learned
  <2>4. ObservationsAgree(r, model)
    BY <2>3, SeenEnvelope DEF ObservationsAgree
  <2>5. ASSUME spc = "done", vpc = "exited", scode = 0, vcode = 0,
               r.sim_seen # "none" \/ model.source = "vehicle"
        PROVE  <<model.reason, VehicleReason(r)>> \in PairedReasons /\ model.vehicle_seen = VehicleReason(r)
    <3> DEFINE why == r.state.terminal.reason
    <3>1. ~stop /\ Over(r) /\ model.vehicle_seen # "NONE"
      BY <2>5 DEF EndsOk, ExitedWell
    <3>2. VehicleReason(r) = why /\ model.vehicle_seen = VehicleReason(r)
      BY <2>2, <2>3, <3>1
    <3>3. \/ r.sim_seen = "none" /\ why \in Verdicts
          \/ <<r.sim_seen, why>> \in PairedReasons
      BY <3>1 DEF EndsOk, Decision, Motive
    <3> HIDE DEF why
    <3>4. CASE r.sim_seen # "none"
      BY <3>2, <3>3, <3>4, SeenEnvelope
    <3>5. CASE r.sim_seen = "none" /\ model.source = "vehicle"
      <4>1. model.reason = "vehicle"
        BY <3>5 DEF Core, SimOk, Ending
      <4>2. <<"none", why>> \notin PairedReasons
        BY DEF PairedReasons
      <4>3. why \in Verdicts
        BY <3>3, <3>5, <4>2
      <4> QED
        BY <3>2, <4>1, <4>3 DEF Verdicts, PairedReasons
    <3> QED
      BY <2>5, <3>4, <3>5
  <2> QED
    BY <2>1, <2>4, <2>5 DEF EndsAgree
<1> QED
  BY <1>1, FreerunEnds, PTL

-----------------------------------------------------------------------------
(* The samples on their way up. *)

\* The ticks of the samples of a queue.
Ticked(up) == {up[i].tick : i \in {j \in DOMAIN up : IsSample(up[j])}}

\* G is the ticks of the samples the vehicle has received, of the ones in S.
Tallies(G, S, rt) ==
    /\ G \subseteq S /\ IsFiniteSet(G) /\ Cardinality(G) = rt.admission.episode["received"]
    /\ \A t \in G : rt.tick_base <= t /\ t <= rt.admission.last_normal_tick
    /\ IF G = {} THEN rt.admission.last_normal_tick = -1 ELSE rt.admission.last_normal_tick \in G

\* Where the sample of tick t may be, if there was no fault: received, under
\* way, carried, or too late for the vehicle.
Traced(G, t) ==
    \/ t \in G \/ t \in Ticked(uplink) \/ (Pend /\ IsSample(carry) /\ t = carry.tick)
    \/ (vpc = "exited" /\ t > r.admission.last_normal_tick)

Sampled(G) ==
    /\ Tallies(G, model.inputs \ damaged, r)
    /\ faults = <<>> => \A t \in model.inputs : Traced(G, t)

UpOk ==
    /\ \E G : Sampled(G)
    /\ model.inputs \subseteq 0 .. LastTick /\ damaged \subseteq model.inputs
    /\ Ticked(uplink) \subseteq model.inputs \ damaged
    /\ Pend /\ IsSample(carry) => carry.tick \in model.inputs \ damaged
    /\ r.admission.cycles # 0 /\ IsSample(carry) => r.tick_base <= r.admission.last_normal_tick
    /\ vpc = "exited" => uplink = <<>>

\* A step that moves no sample.
Still ==
    /\ r'.admission = r.admission /\ r'.tick_base = r.tick_base /\ model'.inputs = model.inputs
    /\ damaged' = damaged /\ uplink' = uplink /\ carry' = carry
    /\ (Pend' <=> Pend) \/ (~Pend' /\ faults' # <<>>)
    /\ (vpc' = "exited" <=> vpc = "exited")
    /\ LastTick' = LastTick /\ (faults' = faults \/ faults' # <<>>)

\* It keeps the samples where they are.
LEMMA UpStill ==
  ASSUME UpOk, Still
  PROVE  UpOk'
<1>1. PICK G : Sampled(G)
  BY DEF UpOk
<1>2. Tallies(G, model.inputs \ damaged, r)'
  BY <1>1 DEF Sampled, Tallies, Still
<1>3. faults' = <<>> => (\A t \in model.inputs : Traced(G, t))'
  BY <1>1 DEF Sampled, Traced, Still
<1>4. Sampled(G)'
  BY <1>2, <1>3 DEF Sampled
<1> QED
  BY <1>4 DEF UpOk, Still

\* Steps of the runner, of the simulator without a send and of the vehicle's
\* policy are such.
LEMMA QuietStill ==
  ASSUME Core, Quiet
  PROVE  Still
BY DEF Quiet, Still, Pend, LastTick, Graver

\* A pass of the simulator.
LEMMA PassStill ==
  ASSUME Core, Passes
  PROVE  Still
BY DEF Passes, Still, Pend, LastTick, Graver

\* The policy and the copies of its last reply.
LEMMA ServeStill ==
  ASSUME Core, \/ \E state, success : Serves(state, success)
               \/ Halts \/ \E success : Resends(success)
  PROVE  Still
<1>1. CASE \E state, success : Serves(state, success)
  <2>1. PICK state, success : Serves(state, success)
    BY <1>1
  <2>2. /\ vpc = "serve" /\ SimRests /\ CycleServed(r, r', state, success) /\ uplink' = uplink /\ Graver
        /\ UNCHANGED <<carry, damaged>> /\ vpc' \in {"wake", "resend", "after"} /\ r' \in RuntimeType
    BY <2>1 DEF Serves, Replied
  <2>5. /\ r'.admission = r.admission /\ r'.tick_base = r.tick_base
        /\ r'.controls = Append(r.controls, Control(r, state, success))
    BY <2>2 DEF CycleServed
  <2>3. r'.controls # <<>>
    <3>1. r.controls \in Seq(ControlType) /\ Control(r, state, success) \in ControlType
      <4>1. state \in FreeState /\ success \in BOOLEAN
        BY <2>1 DEF Serves, Replied
      <4>2. /\ r \in RuntimeType /\ Ordered(r.admission)
            /\ r.admission.held \in SimFrames \union {NoFrame}
        BY <2>2, ServeHeld
      <4> QED
        BY <4>1, <4>2, ControlFacts DEF RuntimeType
    <3>2. Len(r'.controls) = Len(r.controls) + 1 /\ Len(r.controls) \in Nat
      BY <2>5, <3>1
    <3> QED
      BY <3>2
  <2>4. ~Pend /\ ~Pend'
    BY <2>2, <2>3 DEF Pend
  <2> QED
    BY <2>2, <2>5, <2>4 DEF Still, SimRests, LastTick, Graver
<1>2. CASE Halts
  BY <1>2 DEF Halts, SimRests, Still, Pend, LastTick
<1>3. CASE \E success : Resends(success)
  <2>1. PICK success : Resends(success)
    BY <1>3
  <2>2. /\ vpc = "resend" /\ SimRests /\ CopySent(r, r', success) /\ uplink' = uplink /\ Graver
        /\ UNCHANGED <<carry, damaged>> /\ vpc' \in {"resend", "after"}
    BY <2>1 DEF Resends, Replied
  <2>3. r'.admission = r.admission /\ r'.tick_base = r.tick_base
    BY <2>2 DEF CopySent
  <2> QED
    BY <2>2, <2>3 DEF Still, SimRests, LastTick, Graver, Pend
<1> QED
  BY <1>1, <1>2, <1>3

\* The samples of a queue are newer than the last one received.
LEMMA TickedFacts ==
  ASSUME Core
  PROVE  /\ \A t \in Ticked(uplink) : /\ t \in Nat /\ t > r.admission.last_normal_tick
                                      /\ Pend /\ IsSample(carry) => t > carry.tick
         /\ IsTerminal(carry) => Ticked(uplink) = {}
         /\ r.admission.last_normal_tick \in Int /\ r.admission.last_normal_tick <= LastTick
         /\ r.tick_base \in Nat /\ LastTick \in Int /\ LastTick >= -1
<1>1. /\ uplink \in Seq(SimFrames \union {Malformed}) /\ r \in RuntimeType /\ carry \in SimFrames \union {NoFrame}
      /\ InOrder(uplink, carry, Pend, r.admission.last_normal_tick)
  BY DEF Core, Typed
<1>2. r.admission.last_normal_tick \in Int /\ r.tick_base \in Nat
  BY <1>1 DEF RuntimeType, AdmissionType
<1>3. LastTick \in Int /\ LastTick >= -1 /\ r.admission.last_normal_tick <= LastTick
  BY LastTickType DEF Core, PoolOk
<1>4. \A i \in DOMAIN uplink : IsSample(uplink[i]) => uplink[i].tick \in Nat
  BY <1>1 DEF SimFrames, IsSample
<1>5. Pend => r.admission.last_normal_tick = -1 /\ carry \in SimFrames
  BY PendFirst
<1>6. ASSUME NEW i \in DOMAIN uplink, IsSample(uplink[i])
      PROVE  /\ uplink[i].tick > r.admission.last_normal_tick
             /\ Pend /\ IsSample(carry) => uplink[i].tick > carry.tick
  <2>1. CASE Pend /\ IsSample(carry)
    <3>1. uplink[i].tick > carry.tick /\ uplink[i].tick \in Nat
      BY <1>1, <1>4, <1>6, <2>1 DEF InOrder, Rising
    <3> QED
      BY <1>5, <2>1, <3>1
  <2>2. CASE ~(Pend /\ IsSample(carry))
    BY <1>1, <1>6, <2>2 DEF InOrder, Rising
  <2> QED
    BY <2>1, <2>2
<1>7. IsTerminal(carry) => Ticked(uplink) = {}
  BY <1>1 DEF InOrder, Ticked
<1> QED
  BY <1>2, <1>3, <1>4, <1>6, <1>7 DEF Ticked

\* A failure, or the exit: what is under way is too late.
LEMMA UpFails ==
  ASSUME Core, UpOk, NEW why, Fails(why)
  PROVE  UpOk'
<1>1. /\ SimRests /\ UNCHANGED <<carry, damaged>> /\ Broken(r, r', why) /\ Graver
      /\ \/ vpc \in {"wake", "resend"} /\ vpc' = "after" /\ uplink' = uplink /\ faults' # <<>>
         \/ vpc = "after" /\ vpc' = "exited" /\ uplink' = <<>>
  BY DEF Fails
<1>2. r'.admission = r.admission /\ r'.tick_base = r.tick_base
  BY <1>1 DEF Broken
<1>3. model' = model /\ LastTick' = LastTick
  BY <1>1 DEF SimRests, LastTick
<1>4. CASE vpc \in {"wake", "resend"} /\ vpc' = "after" /\ uplink' = uplink /\ faults' # <<>>
  <2>1. Still
    BY <1>1, <1>2, <1>3, <1>4 DEF Still, Pend
  <2> QED
    BY <2>1, UpStill
<1>5. CASE vpc = "after" /\ vpc' = "exited" /\ uplink' = <<>>
  <2>1. PICK G : Sampled(G)
    BY DEF UpOk
  <2>2. Tallies(G, model.inputs \ damaged, r)'
    BY <1>1, <1>2, <1>3, <2>1 DEF Sampled, Tallies
  <2>3. ~Pend /\ ~Pend'
    BY <1>5 DEF Pend
  <2>4. ASSUME faults' = <<>>, NEW t \in model.inputs PROVE Traced(G, t)'
    <3>1. faults = <<>>
      BY <1>1, <2>4 DEF Graver
    <3>2. t \in G \/ t \in Ticked(uplink)
      BY <1>5, <2>1, <2>3, <2>4, <3>1 DEF Sampled, Traced
    <3> QED
      BY <1>2, <1>5, <3>2, TickedFacts DEF Traced
  <2>5. Sampled(G)'
    BY <1>3, <2>2, <2>4 DEF Sampled
  <2>6. Ticked(uplink') = {}
    BY <1>5 DEF Ticked
  <2> QED
    BY <1>1, <1>2, <1>3, <1>5, <2>3, <2>5, <2>6 DEF UpOk
<1> QED
  BY <1>1, <1>4, <1>5

\* One more sample of tick n is sent to a vehicle that may still receive it.
LEMMA UpSends ==
  ASSUME Core, UpOk, NEW over \in BOOLEAN, NEW how, Sending(LastTick + 1, over, how),
         over => model.reason \in Legal, LastTick' = IF over THEN LastTick ELSE LastTick + 1,
         model'.inputs = IF how = "sent" /\ ~over THEN model.inputs \union {LastTick + 1} ELSE model.inputs
  PROVE  UpOk'
<1> DEFINE n == LastTick + 1
           f == FrameToOffer(model, n, over)
           new == IF how = "sent" /\ ~over THEN {n} ELSE {}
           l == r.admission.last_normal_tick
<1>1. /\ vpc' = vpc /\ r' = r /\ carry' = carry /\ damaged' = damaged /\ Graver
      /\ uplink' = IF how = "sent" /\ vpc # "exited" THEN Append(uplink, f) ELSE uplink
  BY DEF Sending
<1>2. /\ l \in Int /\ l <= LastTick /\ LastTick \in Int /\ LastTick >= -1
  BY TickedFacts
<1>3. n \in Nat /\ n > LastTick /\ n > l
  BY <1>2
<1>4. /\ model \in ModelType /\ uplink \in Seq(SimFrames \union {Malformed})
  BY DEF Core, Typed
<1>5. f \in SimFrames /\ (~over => f.tick = n /\ f.reason = "none") /\ (over => IsTerminal(f))
  <2>1. f \in SimFrames /\ (~over => f.tick = n /\ f.reason = "none")
    BY <1>3, <1>4, FrameOffered
  <2>2. over => IsTerminal(f)
    <3> SUFFICES ASSUME over PROVE IsTerminal(f)
      OBVIOUS
    <3>1. CASE model.envelope # NoFrame
      BY <3>1 DEF FrameToOffer, Core, SimOk, Ending
    <3>2. CASE model.envelope = NoFrame
      BY <3>2 DEF FrameToOffer, IsTerminal, Legal
    <3> QED
      BY <3>1, <3>2
  <2> QED
    BY <2>1, <2>2
<1>6. IsSample(f) <=> ~over
  <2>1. f # Malformed
    BY <1>5 DEF Malformed, NoFrame, SimFrames
  <2>2. f.reason = "none" => ~IsTerminal(f)
    BY DEF IsTerminal
  <2> HIDE DEF f
  <2> QED
    BY <1>5, <2>1, <2>2 DEF IsSample
<1>7. model'.inputs = model.inputs \union new
  OBVIOUS
<1>8. Ticked(uplink') = Ticked(uplink) \union (IF vpc = "exited" THEN {} ELSE new)
  <2>1. CASE how = "sent" /\ vpc # "exited"
    <3>1. uplink' = Append(uplink, f) /\ f \in SimFrames \union {Malformed}
      BY <1>1, <1>5, <2>1
    <3>2. /\ DOMAIN uplink' = DOMAIN uplink \union {Len(uplink) + 1}
          /\ uplink'[Len(uplink) + 1] = f /\ \A i \in DOMAIN uplink : uplink'[i] = uplink[i]
      BY <1>4, <3>1, AppendFacts
    <3>3. CASE over
      BY <1>6, <2>1, <3>2, <3>3 DEF Ticked
    <3>4. CASE ~over
      <4>1. f.tick = n /\ IsSample(f)
        BY <1>5, <1>6, <3>4
      <4> HIDE DEF n, f
      <4>2. ASSUME NEW t \in Ticked(uplink') PROVE t \in Ticked(uplink) \union {n}
        BY <3>2, <4>1 DEF Ticked
      <4>3. ASSUME NEW t \in Ticked(uplink) PROVE t \in Ticked(uplink')
        BY <3>2 DEF Ticked
      <4>4. n \in Ticked(uplink')
        BY <3>2, <4>1 DEF Ticked
      <4> QED
        BY <2>1, <3>4, <4>2, <4>3, <4>4
    <3> QED
      BY <3>3, <3>4
  <2>2. CASE ~(how = "sent" /\ vpc # "exited")
    BY <1>1, <2>2
  <2> QED
    BY <2>1, <2>2
<1>9. /\ model.inputs \subseteq 0 .. LastTick /\ damaged \subseteq model.inputs
      /\ Ticked(uplink) \subseteq model.inputs \ damaged
  BY DEF UpOk
<1>10. n \notin model.inputs /\ n \notin damaged
  BY <1>2, <1>9
<1>11. PICK G : Sampled(G)
  BY DEF UpOk
<1> HIDE DEF f, l
<1>12. Pend' = Pend
  BY <1>1 DEF Pend
<1>13. Tallies(G, model.inputs \ damaged, r)'
  <2>1. Tallies(G, model.inputs \ damaged, r) /\ r' = r /\ damaged' = damaged
    BY <1>1, <1>11 DEF Sampled
  <2>2. model.inputs \ damaged \subseteq model'.inputs \ damaged
    BY <1>7
  <2> QED
    BY <2>1, <2>2 DEF Tallies
<1>14. ASSUME faults' = <<>>, NEW t \in model'.inputs PROVE Traced(G, t)'
  <2>1. faults = <<>>
    BY <1>1, <1>14 DEF Graver
  <2>2. CASE t \in model.inputs
    <3>1. Traced(G, t)
      BY <1>11, <2>1, <2>2 DEF Sampled
    <3> QED
      BY <1>1, <1>8, <1>12, <3>1 DEF Traced
  <2>3. CASE t \in new
    <3>1. t = n
      BY <2>3
    <3>2. CASE vpc = "exited"
      BY <1>1, <1>3, <3>1, <3>2 DEF Traced, l
    <3>3. CASE vpc # "exited"
      BY <1>8, <2>3, <3>3 DEF Traced
    <3> QED
      BY <3>2, <3>3
  <2> QED
    BY <1>7, <1>14, <2>2, <2>3
<1>15. Sampled(G)'
  BY <1>13, <1>14 DEF Sampled
<1>16. model'.inputs \subseteq 0 .. LastTick'
  <2>1. CASE over
    BY <1>7, <1>9, <2>1
  <2>2. CASE ~over
    <3>1. LastTick' = n /\ new \subseteq {n}
      BY <2>2
    <3>2. 0 .. LastTick \subseteq 0 .. n /\ n \in 0 .. n
      BY <1>2, <1>3
    <3> QED
      BY <1>7, <1>9, <3>1, <3>2
  <2> QED
    BY <2>1, <2>2
<1>17. /\ damaged' \subseteq model'.inputs
       /\ Ticked(uplink') \subseteq model'.inputs \ damaged'
  BY <1>1, <1>7, <1>8, <1>9, <1>10
<1>18. /\ Pend' /\ IsSample(carry') => carry'.tick \in model'.inputs \ damaged'
       /\ r'.admission.cycles # 0 /\ IsSample(carry') => r'.tick_base <= r'.admission.last_normal_tick
       /\ vpc' = "exited" => uplink' = <<>>
  BY <1>1, <1>7, <1>12 DEF UpOk
<1> QED
  BY <1>15, <1>16, <1>17, <1>18 DEF UpOk

\* offer after the prologue.
LEMMA UpOffers ==
  ASSUME Core, UpOk, NEW how, Sends(how)
  PROVE  UpOk'
<1> DEFINE over == model.reason # "none"
           z == offer(model, k + 1, over, how)
<1>1. /\ spc = "offer" /\ spc' = "drain" /\ Sending(k + 1, over, how) /\ model' = z
      /\ IF over THEN k' = k ELSE k' = k + 1
  BY DEF Sends
<1>2. model \in ModelType /\ k \in Nat /\ how \in {"lost", "failed", "sent"} /\ over \in BOOLEAN
  BY <1>1 DEF Core, Typed, Sending
<1>3. over => model.reason \in Legal
  BY <1>1 DEF Core, SimOk
<1>4. LastTick = k /\ LastTick' = k'
  BY <1>1 DEF LastTick
<1>5. k + 1 \in Nat
  BY <1>2
<1>6. Offered(model, z, k + 1, over, how)
  BY <1>2, <1>3, <1>5, OfferFacts
<1> HIDE DEF z, over
<1>7. model'.inputs = IF how = "sent" /\ ~over THEN model.inputs \union {LastTick + 1} ELSE model.inputs
  BY <1>1, <1>4, <1>6 DEF Offered
<1> QED
  BY <1>1, <1>2, <1>3, <1>4, <1>7, UpSends

\* The first frame: a failed send also ends the run.
LEMMA UpStarts ==
  ASSUME Core, UpOk, NEW how, Starts(how)
  PROVE  UpOk'
<1> DEFINE z == offer(model, 0, FALSE, how)
<1>1. /\ spc = "prologue" /\ how \in {"failed", "sent"} /\ Sending(0, FALSE, how) /\ k' = k
      /\ spc' # "prologue" /\ model' \in {z, Ended(z)} /\ (how = "sent" => model' = z)
  BY DEF Starts
<1>2. model \in ModelType /\ k = 0 /\ model.reason = "none"
  BY <1>1 DEF Core, Typed, SimOk, NewModel
<1>3. LastTick = -1 /\ LastTick' = 0 /\ LastTick + 1 = 0
  BY <1>1, <1>2 DEF LastTick
<1>4. z \in ModelType /\ Offered(model, z, 0, FALSE, how)
  BY <1>1, <1>2, OfferFacts
<1> HIDE DEF z
<1>5. z.inputs = IF how = "sent" THEN model.inputs \union {0} ELSE model.inputs
  BY <1>4 DEF Offered
<1>6. Ended(z).inputs = z.inputs
  BY <1>4, EndedFacts DEF SameUplink
<1>7. model'.inputs = IF how = "sent" /\ ~FALSE THEN model.inputs \union {LastTick + 1} ELSE model.inputs
  BY <1>1, <1>3, <1>5, <1>6
<1>8. Sending(LastTick + 1, FALSE, how) /\ LastTick' = IF FALSE THEN LastTick ELSE LastTick + 1
  BY <1>1, <1>3
<1> QED
  BY <1>7, <1>8, UpSends

\* The samples of a batch, with the carried one, and those left behind.
LEMMA CargoTicked ==
  ASSUME NEW u \in Seq(SimFrames \union {Malformed}), NEW c \in SimFrames, NEW first \in BOOLEAN,
         NEW refused \in BOOLEAN
  PROVE  LET v == Cargo(c, first, Drawn(u, refused))
             all == Ticked(u) \union (IF first /\ IsSample(c) THEN {c.tick} ELSE {})
         IN  /\ Collected(v, Len(v)) \union Ticked(Left(u, refused)) = all
             /\ first /\ IsSample(c) => c.tick \in Collected(v, Len(v))
<1> DEFINE b == Drawn(u, refused)
           w == Left(u, refused)
           v == Cargo(c, first, b)
           n == Len(b)
           m == IF first THEN 1 ELSE 0
           S == SimFrames \union {Malformed}
<1>1. b \in Seq(S) /\ w \in Seq(S) /\ Splits(b, w, u, n)
  BY DrawnFacts
<1>2. Laden(v, c, m, b)
  BY <1>1, CargoFacts
<1> HIDE DEF b, w, v
<1>3. /\ n \in Nat /\ Len(u) \in Nat /\ n <= Len(u) /\ Len(w) = Len(u) - n
      /\ (\A i \in 1 .. n : b[i] = u[i]) /\ (\A i \in 1 .. Len(u) - n : w[i] = u[n + i])
  BY <1>1 DEF Splits
<1>4. /\ Len(v) = m + n /\ m \in Nat /\ Len(v) \in Nat
      /\ \A j \in 1 .. Len(v) : IF j <= m THEN v[j] = c ELSE v[j] = b[j - m]
  BY <1>2 DEF Laden
<1>5. DOMAIN u = 1 .. Len(u) /\ DOMAIN w = 1 .. Len(u) - n
  BY <1>1, <1>3
<1>6. m = IF first THEN 1 ELSE 0
  OBVIOUS
<1> HIDE DEF n, m
<1>7. ASSUME NEW t \in Collected(v, Len(v)) PROVE t \in Ticked(u) \/ (first /\ IsSample(c) /\ t = c.tick)
  <2>1. PICK j \in 1 .. Len(v) : IsSample(v[j]) /\ t = v[j].tick
    BY <1>7 DEF Collected
  <2>2. CASE j <= m
    BY <1>4, <1>6, <2>1, <2>2
  <2>3. CASE ~(j <= m)
    <3>1. j - m \in 1 .. n /\ j - m \in DOMAIN u
      BY <1>3, <1>4, <1>5, <2>1, <2>3
    <3>2. v[j] = u[j - m]
      BY <1>3, <1>4, <2>1, <2>3, <3>1
    <3> QED
      BY <2>1, <3>1, <3>2 DEF Ticked
  <2> QED
    BY <2>2, <2>3
<1>8. ASSUME NEW t \in Ticked(w) PROVE t \in Ticked(u)
  <2>1. PICK j \in DOMAIN w : IsSample(w[j]) /\ t = w[j].tick
    BY <1>8 DEF Ticked
  <2>2. j \in 1 .. Len(u) - n /\ n + j \in DOMAIN u /\ w[j] = u[n + j]
    BY <1>3, <1>5, <2>1
  <2> QED
    BY <2>1, <2>2 DEF Ticked
<1>9. ASSUME NEW t \in Ticked(u) PROVE t \in Collected(v, Len(v)) \/ t \in Ticked(w)
  <2>1. PICK j \in DOMAIN u : IsSample(u[j]) /\ t = u[j].tick
    BY <1>9 DEF Ticked
  <2>2. CASE j <= n
    <3>1. j + m \in 1 .. Len(v) /\ ~(j + m <= m) /\ (j + m) - m = j /\ j \in 1 .. n
      BY <1>3, <1>4, <1>5, <2>1, <2>2
    <3>2. v[j + m] = u[j]
      BY <1>3, <1>4, <3>1
    <3> QED
      BY <2>1, <3>1, <3>2 DEF Collected
  <2>3. CASE ~(j <= n)
    <3>1. j - n \in 1 .. Len(u) - n /\ n + (j - n) = j
      BY <1>3, <1>5, <2>1, <2>3
    <3>2. w[j - n] = u[j] /\ j - n \in DOMAIN w
      BY <1>3, <1>5, <3>1
    <3> QED
      BY <2>1, <3>2 DEF Ticked
  <2> QED
    BY <2>2, <2>3
<1>10. ASSUME first, IsSample(c) PROVE c.tick \in Collected(v, Len(v))
  <2>1. 1 \in 1 .. Len(v) /\ v[1] = c
    BY <1>3, <1>4, <1>6, <1>10
  <2> QED
    BY <1>10, <2>1 DEF Collected
<1> QED
  BY <1>7, <1>8, <1>9, <1>10 DEF v, b, w

\* A cycle receives the samples of its batch.
LEMMA UpWakes ==
  ASSUME Core, UpOk, NEW c, NEW v, Wakes(c, v)
  PROVE  UpOk'
<1> DEFINE a == r.admission
           first == r.controls = <<>>
           X == Collected(v, Len(v))
           l == a.last_normal_tick
           Y == model.inputs \ damaged
<1>1. /\ SimRests /\ vpc = "wake" /\ vpc' = "serve" /\ r' = Admitted(r, c)
      /\ carry' = carry /\ damaged' = damaged /\ faults' = faults
      /\ v = Cargo(carry, first, Drawn(uplink, veh_refused)) /\ uplink' = Left(uplink, veh_refused)
      /\ Cycled(a, c, v, Around(a, uplink, carry, model.envelope))
  BY DEF Wakes
<1>2. /\ r \in RuntimeType /\ uplink \in Seq(SimFrames \union {Malformed}) /\ carry \in SimFrames
      /\ veh_refused \in BOOLEAN /\ first \in BOOLEAN
  BY <1>1 DEF Core, Typed, VehOk
<1>3. /\ r'.admission = c /\ r'.tick_base = r.tick_base /\ r'.controls = r.controls
  BY <1>1, <1>2 DEF Admitted, RuntimeType
<1>4. model' = model /\ LastTick' = LastTick /\ (Pend <=> first) /\ ~Pend'
  BY <1>1 DEF SimRests, LastTick, Pend
<1>5. /\ X \union Ticked(uplink') =
            Ticked(uplink) \union (IF first /\ IsSample(carry) THEN {carry.tick} ELSE {})
      /\ first /\ IsSample(carry) => carry.tick \in X
  BY <1>1, <1>2, CargoTicked
<1>6. /\ c \in AdmissionType /\ Booked(a, c, Len(v)) /\ Receipt(a, c, v, Len(v)) /\ c.cycles = a.cycles + 1
      /\ a \in AdmissionType
  BY <1>1, <1>2 DEF Cycled, RuntimeType
<1>7. c.episode["received"] = a.episode["received"] + c.counts["received"]
      /\ a.episode["received"] \in Nat /\ c.counts["received"] \in Nat
  <2>1. a.episode \in [CountFields -> Nat] /\ c.counts \in [CountFields -> Nat] /\ "received" \in CountFields
    BY <1>6 DEF AdmissionType, CountFields
  <2> QED
    BY <1>6, <2>1 DEF Booked, Add
<1>8. /\ IsFiniteSet(X) /\ c.counts["received"] = Cardinality(X)
      /\ c.last_normal_tick \in {l} \union X /\ c.last_normal_tick >= l
      /\ \A t \in X : t <= c.last_normal_tick
  BY <1>6 DEF Receipt
<1>9. /\ \A t \in Ticked(uplink) : t \in Nat /\ t > l /\ (first /\ IsSample(carry) => t > carry.tick)
      /\ IsTerminal(carry) => Ticked(uplink) = {}
      /\ l \in Int /\ r.tick_base \in Nat
  BY <1>4, TickedFacts
<1>10. /\ Ticked(uplink) \subseteq Y /\ (first /\ IsSample(carry) => carry.tick \in Y)
       /\ model.inputs \subseteq 0 .. LastTick /\ damaged \subseteq model.inputs
       /\ a.cycles # 0 /\ IsSample(carry) => r.tick_base <= l
  BY <1>4 DEF UpOk
<1>11. r.tick_base = carry.tick /\ carry.tick \in Nat /\ (IsSample(carry) \/ IsTerminal(carry))
  <2>1. carry # Malformed
    BY <1>2 DEF Malformed, NoFrame, SimFrames
  <2> QED
    BY <1>1, <1>2, <2>1 DEF Core, VehOk, SimFrames, IsSample
<1>12. first => l = -1
  BY <1>4, PendFirst
<1>13. ~first => a.cycles # 0
  <2> SUFFICES ASSUME ~first, a.cycles = 0 PROVE FALSE
    OBVIOUS
  <2>1. Len(r.controls) \in Nat /\ r.controls \in Seq(ControlType)
    BY <1>2 DEF RuntimeType
  <2>2. a.cycles = Len(r.controls) + 0
    BY <1>1 DEF Core, Admitting
  <2>3. Len(r.controls) = 0
    BY <2>1, <2>2
  <2> QED
    BY <2>1, <2>3
<1>14. \A t \in X : t \in Y /\ t \in Nat /\ t > l /\ r.tick_base <= t
  <2> SUFFICES ASSUME NEW t \in X PROVE t \in Y /\ t \in Nat /\ t > l /\ r.tick_base <= t
    OBVIOUS
  <2> HIDE DEF X, Y, l
  <2>1. t \in Ticked(uplink) \/ (first /\ IsSample(carry) /\ t = carry.tick)
    BY <1>5
  <2>2. CASE first /\ IsSample(carry) /\ t = carry.tick
    BY <1>10, <1>11, <1>12, <2>2
  <2>3. CASE t \in Ticked(uplink)
    <3>1. t \in Y /\ t \in Nat /\ t > l /\ IsSample(carry)
      BY <1>9, <1>10, <1>11, <2>3
    <3>2. CASE first
      BY <1>9, <1>11, <2>3, <3>1, <3>2
    <3>3. CASE ~first
      BY <1>9, <1>10, <1>11, <1>13, <3>1, <3>3
    <3> QED
      BY <3>1, <3>2, <3>3
  <2> QED
    BY <2>1, <2>2, <2>3
<1>15. PICK G : Sampled(G)
  BY DEF UpOk
<1>16. /\ G \subseteq Y /\ IsFiniteSet(G) /\ Cardinality(G) = a.episode["received"]
       /\ (\A t \in G : r.tick_base <= t /\ t <= l)
       /\ IF G = {} THEN l = -1 ELSE l \in G
  BY <1>15 DEF Sampled, Tallies
<1> HIDE DEF X, l, Y
<1>17. Y \subseteq Int
  BY <1>9, <1>10 DEF Y
<1>18. G \intersect X = {}
  <2> SUFFICES ASSUME NEW t \in G, t \in X PROVE FALSE
    OBVIOUS
  <2>1. t \in Int /\ t <= l /\ t > l
    BY <1>14, <1>16, <1>17
  <2> QED
    BY <1>9, <2>1
<1>19. IsFiniteSet(G \union X) /\ Cardinality(G \union X) = c.episode["received"]
  <2>1. /\ IsFiniteSet(G \union X)
        /\ Cardinality(G \union X) = Cardinality(G) + Cardinality(X) - Cardinality(G \intersect X)
    BY <1>8, <1>16, FS_Union
  <2>2. Cardinality(G \intersect X) = 0
    BY <1>18, FS_EmptySet
  <2> DEFINE x == Cardinality(X)
             y == Cardinality(G)
  <2>3. x \in Nat /\ y \in Nat /\ Cardinality(G \union X) = y + x - 0 /\ c.episode["received"] = y + x
    BY <1>7, <1>8, <1>16, <2>1, <2>2
  <2> HIDE DEF x, y
  <2>4. y + x - 0 = y + x
    BY <2>3
  <2> QED
    BY <2>1, <2>3, <2>4
<1>20. c.last_normal_tick \in Int
  BY <1>6 DEF AdmissionType
<1>21. \A t \in G \union X : t \in Y /\ r.tick_base <= t /\ t <= c.last_normal_tick
  <2> SUFFICES ASSUME NEW t \in G \union X PROVE t \in Y /\ r.tick_base <= t /\ t <= c.last_normal_tick
    OBVIOUS
  <2>1. CASE t \in X
    BY <1>8, <1>14, <2>1
  <2>2. CASE t \in G
    BY <1>8, <1>9, <1>16, <1>17, <1>20, <2>2
  <2> QED
    BY <2>1, <2>2
<1>22. IF G \union X = {} THEN c.last_normal_tick = -1 ELSE c.last_normal_tick \in G \union X
  <2>1. CASE X = {}
    BY <1>8, <1>16, <2>1
  <2>2. CASE X # {}
    <3>1. c.last_normal_tick # l
      <4>1. PICK t \in X : TRUE
        BY <2>2
      <4>2. t \in Nat /\ t > l /\ t <= c.last_normal_tick
        BY <1>8, <1>14
      <4> QED
        BY <1>9, <1>20, <4>2
    <3> QED
      BY <1>8, <2>2, <3>1
  <2> QED
    BY <2>1, <2>2
<1>23. Tallies(G \union X, model.inputs \ damaged, r)'
  <2>1. G \union X \subseteq model.inputs \ damaged
    BY <1>21 DEF Y
  <2> QED
    BY <1>1, <1>3, <1>4, <1>19, <1>21, <1>22, <2>1 DEF Tallies
<1>24. ASSUME faults' = <<>>, NEW t \in model.inputs PROVE Traced(G \union X, t)'
  <2>1. Traced(G, t)
    BY <1>1, <1>15, <1>24 DEF Sampled
  <2>2. CASE t \in G
    BY <2>2 DEF Traced
  <2>3. CASE t \in Ticked(uplink)
    BY <1>5, <2>3 DEF Traced
  <2>4. CASE Pend /\ IsSample(carry) /\ t = carry.tick
    BY <1>4, <1>5, <2>4 DEF Traced
  <2>5. vpc # "exited"
    BY <1>1
  <2> QED
    BY <2>1, <2>2, <2>3, <2>4, <2>5 DEF Traced
<1>25. Sampled(G \union X)'
  BY <1>4, <1>23, <1>24 DEF Sampled
<1>26. Ticked(uplink') \subseteq model.inputs \ damaged
  BY <1>5, <1>10 DEF Y
<1>27. c.cycles # 0 /\ IsSample(carry) => r.tick_base <= c.last_normal_tick
  <2> SUFFICES ASSUME IsSample(carry) PROVE r.tick_base <= c.last_normal_tick
    OBVIOUS
  <2>1. CASE first
    BY <1>5, <1>8, <1>11, <2>1
  <2>2. CASE ~first
    BY <1>8, <1>9, <1>10, <1>13, <1>20, <2>2
  <2> QED
    BY <2>1, <2>2
<1> QED
  BY <1>1, <1>3, <1>4, <1>10, <1>25, <1>26, <1>27 DEF UpOk

\* The first datagram is taken: it is carried until the first cycle.
LEMMA UpAcquire ==
  ASSUME Core, UpOk, Acquire
  PROVE  UpOk'
<1> DEFINE f == Head(uplink)
           u == uplink
           w == Tail(uplink)
<1>1. /\ SimRests /\ vpc = "acquire" /\ u # <<>> /\ uplink' = w /\ (Acquires \/ Rejects)
  BY CoreAcquire
<1>2. faults' = faults /\ damaged' = damaged
  BY DEF Acquire, history
<1>3. /\ r \in RuntimeType /\ u \in Seq(SimFrames \union {Malformed})
  BY DEF Core, Typed
<1>4. r.controls = <<>> /\ r.tick_base = 0 /\ r.admission = NewAdmission(0)
  BY <1>1, Unacquired DEF Core, VehOk
<1>5. model' = model /\ LastTick' = LastTick /\ ~Pend
  BY <1>1 DEF SimRests, LastTick, Pend
<1>6. \A t \in Nat : /\ NewAdmission(t).episode["received"] = 0 /\ NewAdmission(t).last_normal_tick = -1
                     /\ NewAdmission(t).cycles = 0
  <2>1. "received" \in CountFields
    BY DEF CountFields
  <2> QED
    BY <2>1 DEF NewAdmission, Zero
<1>7. f = u[1] /\ 1 \in DOMAIN u /\ Len(u) \in Nat /\ DOMAIN u = 1 .. Len(u)
  BY <1>1, <1>3
<1>8. DOMAIN w = 1 .. Len(u) - 1 /\ \A i \in 1 .. Len(u) - 1 : w[i] = u[i + 1]
  BY <1>1, <1>3
<1> HIDE DEF f, w
<1>9. Ticked(u) = Ticked(w) \union (IF IsSample(f) THEN {f.tick} ELSE {})
  <2>1. ASSUME NEW t \in Ticked(w) PROVE t \in Ticked(u)
    <3>1. PICK i \in DOMAIN w : IsSample(w[i]) /\ t = w[i].tick
      BY <2>1 DEF Ticked
    <3>2. i + 1 \in DOMAIN u /\ w[i] = u[i + 1]
      BY <1>7, <1>8
    <3> QED
      BY <3>1, <3>2 DEF Ticked
  <2>2. ASSUME NEW t \in Ticked(u) PROVE t \in Ticked(w) \/ (IsSample(f) /\ t = f.tick)
    <3>1. PICK i \in DOMAIN u : IsSample(u[i]) /\ t = u[i].tick
      BY <2>2 DEF Ticked
    <3>2. CASE i = 1
      BY <1>7, <3>1, <3>2
    <3>3. CASE i # 1
      <4>1. i - 1 \in 1 .. Len(u) - 1 /\ (i - 1) + 1 = i
        BY <1>7, <3>3
      <4>2. w[i - 1] = u[i] /\ i - 1 \in DOMAIN w
        BY <1>8, <4>1
      <4> QED
        BY <3>1, <4>2 DEF Ticked
    <3> QED
      BY <3>2, <3>3
  <2>3. IsSample(f) => f.tick \in Ticked(u)
    BY <1>7 DEF Ticked
  <2> QED
    BY <2>1, <2>2, <2>3
<1>10. PICK G : Sampled(G)
  BY DEF UpOk
<1>11. G = {}
  <2>1. IsFiniteSet(G) /\ Cardinality(G) = 0
    <3>1. r.admission.episode["received"] = 0
      BY <1>4, <1>6
    <3> QED
      BY <1>10, <3>1 DEF Sampled, Tallies
  <2> QED
    BY <2>1, FS_EmptySet
<1>12. /\ model.inputs \subseteq 0 .. LastTick /\ damaged \subseteq model.inputs
       /\ Ticked(u) \subseteq model.inputs \ damaged
  BY DEF UpOk
<1>13. ASSUME faults' = <<>>, NEW t \in model.inputs PROVE t \in Ticked(w) \/ (IsSample(f) /\ t = f.tick)
  <2>1. Traced({}, t)
    BY <1>2, <1>10, <1>11, <1>13 DEF Sampled
  <2> QED
    BY <1>1, <1>5, <1>9, <2>1 DEF Traced
<1>14. CASE Rejects
  <2>1. r' = r /\ carry' = carry /\ vpc' = "after" /\ f = Malformed
    BY <1>14 DEF Rejects, f
  <2>2. ~IsSample(f) /\ ~Pend'
    BY <2>1 DEF IsSample, Pend
  <2>3. Tallies({}, model.inputs \ damaged, r)'
    BY <1>2, <1>5, <1>10, <1>11, <2>1 DEF Sampled, Tallies
  <2>4. Sampled({})'
    BY <1>1, <1>5, <1>13, <2>2, <2>3 DEF Sampled, Traced
  <2>5. r.admission.cycles = 0
    BY <1>4, <1>6
  <2> QED
    BY <1>1, <1>2, <1>5, <1>9, <1>12, <2>1, <2>2, <2>4, <2>5 DEF UpOk
<1>15. CASE Acquires
  <2>1. f \in SimFrames /\ vpc' = "wake" /\ r' = Acquired(r, f) /\ carry' = f
    BY <1>15 DEF Acquires, f
  <2>2. r'.tick_base = f.tick /\ r'.admission = NewAdmission(f.tick) /\ r'.controls = <<>> /\ f.tick \in Nat
    <3>1. r'.tick_base = f.tick /\ r'.admission = NewAdmission(f.tick) /\ r'.controls = r.controls
      BY <1>3, <2>1, AcquiredFacts
    <3>2. f.tick \in Nat
      BY <2>1 DEF SimFrames
    <3> QED
      BY <1>4, <3>1, <3>2
  <2>3. Pend'
    BY <2>1, <2>2 DEF Pend
  <2>4. /\ r'.admission.episode["received"] = 0 /\ r'.admission.last_normal_tick = -1
        /\ r'.admission.cycles = 0
    BY <1>6, <2>2
  <2>5. Tallies({}, model.inputs \ damaged, r)'
    BY <2>4, FS_EmptySet DEF Tallies
  <2>6. Sampled({})'
    BY <1>1, <1>5, <1>13, <2>1, <2>3, <2>5 DEF Sampled, Traced
  <2> QED
    BY <1>1, <1>2, <1>5, <1>9, <1>12, <2>1, <2>3, <2>4, <2>6 DEF UpOk
<1> QED
  BY <1>1, <1>14, <1>15

\* A sample lost or corrupted is not under way any more.
LEMMA UpDamages ==
  ASSUME Core, UpOk, Damages
  PROVE  UpOk'
<1> DEFINE l == r.admission.last_normal_tick
<1>1. /\ SimRests /\ vpc' = vpc /\ r' = r /\ carry' = carry /\ faults' # <<>>
      /\ Thinned(uplink', uplink) /\ Harmed /\ uplink' \in Seq(SimFrames \union {Malformed})
  BY DEF Damages
<1>2. model' = model /\ LastTick' = LastTick /\ (Pend' <=> Pend)
  BY <1>1 DEF SimRests, LastTick, Pend
<1>3. PICK G : Sampled(G)
  BY DEF UpOk
<1>4. uplink \in Seq(SimFrames \union {Malformed})
  BY DEF Core, Typed
<1>5. Ticked(uplink') \subseteq Ticked(uplink)
  <2>1. PICK h : Thins(h, uplink', uplink)
    BY <1>1 DEF Thinned
  <2> SUFFICES ASSUME NEW t \in Ticked(uplink') PROVE t \in Ticked(uplink)
    OBVIOUS
  <2>2. PICK i \in DOMAIN uplink' : IsSample(uplink'[i]) /\ t = uplink'[i].tick
    BY DEF Ticked
  <2>3. uplink'[i] # Malformed
    BY <2>2 DEF IsSample
  <2>4. uplink'[i] = uplink[h[i]] /\ h[i] \in DOMAIN uplink
    BY <2>1, <2>3 DEF Thins
  <2> QED
    BY <2>2, <2>4 DEF Ticked
<1>6. /\ \A t \in Ticked(uplink) : t \in Nat /\ t > l /\ (Pend /\ IsSample(carry) => t > carry.tick)
      /\ l \in Int
  BY TickedFacts
<1>7. /\ G \subseteq model.inputs \ damaged /\ \A t \in G : t <= l
  BY <1>3 DEF Sampled, Tallies
<1> DEFINE Gone(D) == /\ damaged' = damaged \union D /\ D \subseteq Ticked(uplink)
                      /\ D \intersect Ticked(uplink') = {}
<1>13. \E D : Gone(D)
  <2>1. CASE damaged' = damaged
    <3>1. Gone({})
      BY <2>1
    <3> HIDE DEF Gone
    <3> QED
      BY <3>1
  <2>2. CASE damaged' # damaged
    <3>1. PICK n \in DOMAIN uplink : /\ IsSample(uplink[n]) /\ damaged' = damaged \union {uplink[n].tick}
                                     /\ Spares(uplink', uplink, n)
      BY <1>1, <2>2 DEF Harmed
    <3>2. uplink[n].tick \in Ticked(uplink)
      BY <3>1 DEF Ticked
    <3>3. uplink[n].tick \notin Ticked(uplink')
      <4> SUFFICES ASSUME uplink[n].tick \in Ticked(uplink') PROVE FALSE
        OBVIOUS
      <4>1. PICK i \in DOMAIN uplink' : IsSample(uplink'[i]) /\ uplink[n].tick = uplink'[i].tick
        BY DEF Ticked
      <4>2. uplink'[i] # Malformed
        BY <4>1 DEF IsSample
      <4>3. PICK m \in DOMAIN uplink \ {n} : uplink'[i] = uplink[m]
        BY <3>1, <4>2 DEF Spares
      <4>4. m \in Nat /\ n \in Nat /\ m # n
        BY <1>4
      <4>5. IsSample(uplink[m]) /\ uplink[m].tick = uplink[n].tick
        BY <4>1, <4>3
      <4>6. \A i_1, i_2 \in DOMAIN uplink :
              i_1 < i_2 /\ IsSample(uplink[i_1]) /\ IsSample(uplink[i_2]) => uplink[i_1].tick < uplink[i_2].tick
        BY DEF Core, InOrder, Rising
      <4>7. uplink[m].tick \in Nat /\ uplink[n].tick \in Nat
        BY <1>6, <3>2, <4>5
      <4>8. CASE m < n
        <5>1. uplink[m].tick < uplink[n].tick
          BY <3>1, <4>5, <4>6, <4>8
        <5> QED
          BY <4>5, <4>7, <5>1
      <4>9. CASE n < m
        <5>1. uplink[n].tick < uplink[m].tick
          BY <3>1, <4>5, <4>6, <4>9
        <5> QED
          BY <4>5, <4>7, <5>1
      <4> QED
        BY <4>4, <4>8, <4>9
    <3>4. Gone({uplink[n].tick})
      BY <3>1, <3>2, <3>3
    <3> HIDE DEF Gone
    <3> QED
      BY <3>4
  <2> QED
    BY <2>1, <2>2
<1>14. PICK D : Gone(D)
  BY <1>13
<1>8. /\ damaged' = damaged \union D /\ D \subseteq Ticked(uplink)
      /\ D \intersect Ticked(uplink') = {}
  BY <1>14
<1> HIDE DEF l
<1>9. G \intersect D = {}
  <2> SUFFICES ASSUME NEW t \in G, t \in D PROVE FALSE
    OBVIOUS
  <2>1. t \in Nat /\ t > l /\ t <= l
    BY <1>6, <1>7, <1>8
  <2> QED
    BY <1>6, <2>1
<1>10. Sampled(G)'
  <2>1. G \subseteq model.inputs \ damaged'
    BY <1>7, <1>8, <1>9
  <2> QED
    BY <1>1, <1>2, <1>3, <2>1 DEF Sampled, Tallies
<1>11. Pend /\ IsSample(carry) => carry.tick \notin D
  <2> SUFFICES ASSUME Pend, IsSample(carry), carry.tick \in D PROVE FALSE
    OBVIOUS
  <2>1. carry.tick \in Nat /\ carry.tick > carry.tick
    BY <1>6, <1>8
  <2> QED
    BY <2>1
<1>12. vpc = "exited" => uplink' = <<>>
  <2> SUFFICES ASSUME vpc = "exited" PROVE uplink' = <<>>
    OBVIOUS
  <2>1. DOMAIN uplink = {}
    BY DEF UpOk
  <2>2. PICK h : Thins(h, uplink', uplink)
    BY <1>1 DEF Thinned
  <2>3. DOMAIN uplink' = {}
    BY <2>1, <2>2 DEF Thins
  <2>4. Len(uplink') = 0
    BY <1>1, <2>3
  <2> QED
    BY <1>1, <2>4
<1> QED
  BY <1>1, <1>2, <1>5, <1>8, <1>10, <1>11, <1>12 DEF UpOk

\* No sample is lost track of.
LEMMA UpInit ==
  ASSUME Init
  PROVE  UpOk
<1>1. /\ vpc = "acquire" /\ r = NewRuntime /\ uplink = <<>> /\ spc = "prologue" /\ damaged = {}
      /\ model.inputs = {} /\ carry = NoFrame
  BY DEF Init, NewModel
<1>2. LastTick = -1 /\ ~Pend
  BY <1>1 DEF LastTick, Pend
<1>3. r.admission = NewAdmission(0)
  BY <1>1 DEF NewRuntime
<1>4. r.admission.episode["received"] = 0 /\ r.admission.last_normal_tick = -1 /\ r.admission.cycles = 0
  <2>1. "received" \in CountFields
    BY DEF CountFields
  <2> QED
    BY <1>3, <2>1 DEF NewAdmission, Zero
<1>5. Sampled({})
  BY <1>1, <1>4, FS_EmptySet DEF Sampled, Tallies
<1>6. Ticked(uplink) = {}
  BY <1>1 DEF Ticked
<1> QED
  BY <1>1, <1>2, <1>4, <1>5, <1>6 DEF UpOk

\* Every step keeps track of them.
LEMMA UpNext ==
  ASSUME Core, UpOk, [Next]_vars
  PROVE  UpOk'
<1>1. CASE Quiet
  BY <1>1, QuietStill, UpStill
<1>2. CASE Interrupted \/ SimKilled \/ Body \/ After
  <2>1. Passes
    BY <1>2, CoreInterrupted, CoreSimKilled, CoreBody, CoreAfter
  <2> QED
    BY <2>1, PassStill, UpStill
<1>3. CASE Acquire
  BY <1>3, UpAcquire
<1>4. CASE \E how : Starts(how)
  BY <1>4, UpStarts
<1>5. CASE \E how : Sends(how)
  BY <1>5, UpOffers
<1>6. CASE \E c, v : Wakes(c, v)
  BY <1>6, UpWakes
<1>7. CASE \E why : Fails(why)
  BY <1>7, UpFails
<1>8. CASE \/ \E state, success : Serves(state, success)
           \/ Halts \/ \E success : Resends(success)
  BY <1>8, ServeStill, UpStill
<1>9. CASE Damages
  BY <1>9, UpDamages
<1> QED
  BY StepKinds, <1>1, <1>2, <1>3, <1>4, <1>5, <1>6, <1>7, <1>8, <1>9

-----------------------------------------------------------------------------
(* The runner. *)

\* A process that has ended stays as it is.
Settles ==
    /\ spc = "done" => UNCHANGED <<spc, scode, model>>
    /\ vpc = "exited" => UNCHANGED <<vpc, vcode, r>>
    /\ vpc = "exited" /\ uplink = <<>> => damaged' = damaged

\* So says every action.
LEMMA EndedSettles ==
  ASSUME [Next]_vars
  PROVE  /\ Settles
         /\ \/ rpc' = rpc /\ rcode' = rcode
            \/ SimEnded \/ VehicleEnded \/ WaitExpires \/ StopVehicle \/ Stopped \/ Judge
<1> USE DEF Settles
<1>1. CASE Sim \/ SimKilled \/ SimSignal
  <2>1. spc # "done" \/ SimSignal
    BY <1>1 DEF Sim, SimKilled, Prologue, Interrupted, Body, After, Offer
  <2>2. UNCHANGED <<vpc, vcode, r, damaged, rpc, rcode>>
    BY <1>1 DEF Sim, SimKilled, SimSignal, Prologue, Interrupted, Body, After, Offer, vehicle, history, runner
  <2>3. SimSignal => UNCHANGED <<spc, scode, model>>
    BY DEF SimSignal, sim
  <2> QED
    BY <2>1, <2>2, <2>3
<1>2. CASE Acquire \/ AcquireFails \/ Wake \/ SleepFails \/ Serve \/ Resend \/ Exit \/ Signal
  <2>1. vpc # "exited"
    BY <1>2 DEF Acquire, AcquireFails, Wake, SleepFails, Serve, Resend, Exit, Signal
  <2>2. UNCHANGED <<spc, scode, model, rpc, rcode>>
    BY <1>2 DEF Acquire, AcquireFails, Wake, SleepFails, Serve, Resend, Exit, Signal, sim, runner
  <2> QED
    BY <2>1, <2>2
<1>3. CASE Lose \/ Corrupt
  <2>1. UNCHANGED <<spc, scode, model, vpc, vcode, r, rpc, rcode>>
    BY <1>3 DEF Lose, Corrupt, sim, vehicle, runner
  <2>2. uplink = <<>> => damaged' = damaged
    <3>1. uplink = <<>> => DOMAIN uplink = {}
      OBVIOUS
    <3> QED
      BY <1>3, <3>1 DEF Lose, Corrupt
  <2> QED
    BY <2>1, <2>2
<1>4. CASE SimEnded \/ VehicleEnded \/ WaitExpires \/ StopVehicle \/ Stopped \/ Judge
  <2>1. UNCHANGED <<spc, scode, model, vcode, r, damaged>>
    BY <1>4 DEF SimEnded, VehicleEnded, WaitExpires, StopVehicle, Stopped, Judge, sim, vehicle, history
  <2>2. vpc = "exited" => vpc' = vpc
    BY <1>4 DEF SimEnded, VehicleEnded, WaitExpires, StopVehicle, Stopped, Judge, vehicle
  <2> QED
    BY <1>4, <2>1, <2>2
<1>5. CASE Finished \/ UNCHANGED vars
  BY <1>5 DEF Finished, vars, sim, vehicle, history, runner
<1> QED
  BY <1>1, <1>2, <1>3, <1>4, <1>5 DEF Next, Runner

\* The runner waits for both, and remembers a failure.
RunnerOk ==
    /\ rpc \in {"vehicle", "stopping", "report", "done"} => spc = "done"
    /\ rpc \in {"report", "done"} => vpc = "exited"
    /\ rpc \in {"stop", "stopping"} => rcode # 0
    /\ rpc = "report" /\ rcode = 0 => scode = 0 /\ vcode = 0

\* A run that both sides ended well has evidence to judge.
LEMMA EvidenceGiven ==
  ASSUME EndsOk, vpc = "exited", vcode = 0
  PROVE  VehicleReason(r) \notin NoEvidence
<1>1. ~stop /\ r.failure = "NONE" /\ Over(r)
  BY DEF EndsOk, ExitedWell
<1>2. VehicleReason(r) = r.state.terminal.reason
  BY <1>1 DEF VehicleReason
<1>3. Motive(r.sim_seen, r.state.terminal.reason, stop)
  BY <1>1 DEF EndsOk, Decision
<1>4. r.state.terminal.reason \in {"DIVERGED", "SENSOR_LOST", "STABILIZED", "NOT_SETTLED", "GROUND_ABORT"}
  BY <1>1, <1>3 DEF Motive, Verdicts, PairedReasons
<1> QED
  BY <1>2, <1>4 DEF NoEvidence

\* The receipt check of reconcile.py finds a damaged sample of the window.
LEMMA ReceiptTells ==
  ASSUME Core, UpOk, uplink_receipt(r, model)
  PROVE  Within(r, damaged, r.admission.last_normal_tick) = {}
<1> DEFINE l == r.admission.last_normal_tick
           W == Within(r, model.inputs, l)
<1>1. PICK G : Sampled(G)
  BY DEF UpOk
<1>2. /\ G \subseteq model.inputs \ damaged /\ IsFiniteSet(G) /\ Cardinality(G) = r.admission.episode["received"]
      /\ \A t \in G : r.tick_base <= t /\ t <= l
  BY <1>1 DEF Sampled, Tallies
<1>3. Cardinality(W) = r.admission.episode["received"]
  BY DEF uplink_receipt
<1>4. IsFiniteSet(model.inputs)
  <2>1. model.inputs \subseteq 0 .. LastTick /\ LastTick \in Int
    BY TickedFacts DEF UpOk
  <2>2. IsFiniteSet(0 .. LastTick)
    BY <2>1, FS_Interval
  <2> QED
    BY <2>1, <2>2, FS_Subset
<1>5. W \subseteq model.inputs /\ G \subseteq W
  BY <1>2 DEF Within
<1>6. IsFiniteSet(W)
  BY <1>4, <1>5, FS_Subset
<1> HIDE DEF W
<1>7. Cardinality(W) = Cardinality(G)
  BY <1>2, <1>3
<1>8. W = G
  BY <1>5, <1>6, <1>7, FS_Subset
<1>9. Within(r, damaged, l) \subseteq W
  BY DEF UpOk, Within, W
<1> QED
  BY <1>2, <1>8, <1>9 DEF Within

\* The judgement, and every other step.
LEMMA RunnerNext ==
  ASSUME Core, EndsOk, UpOk, RunnerOk, LossIsReported, [Next]_vars
  PROVE  RunnerOk' /\ LossIsReported'
<1>1. Settles /\ \/ rpc' = rpc /\ rcode' = rcode
                 \/ SimEnded \/ VehicleEnded \/ WaitExpires \/ StopVehicle \/ Stopped \/ Judge
  BY EndedSettles
<1>2. CASE rpc' = rpc /\ rcode' = rcode
  <2>1. RunnerOk'
    BY <1>1, <1>2 DEF RunnerOk, Settles
  <2>2. rpc = "done" => r' = r /\ damaged' = damaged
    BY <1>1 DEF RunnerOk, Settles, UpOk
  <2> QED
    BY <1>2, <2>1, <2>2 DEF LossIsReported
<1>3. CASE SimEnded
  BY <1>1, <1>3 DEF SimEnded, RunnerOk, Settles, LossIsReported
<1>4. CASE VehicleEnded
  BY <1>1, <1>4 DEF VehicleEnded, RunnerOk, Settles, LossIsReported
<1>5. CASE WaitExpires
  BY <1>5 DEF WaitExpires, RunnerOk, LossIsReported
<1>6. CASE StopVehicle
  BY <1>1, <1>6 DEF StopVehicle, RunnerOk, Settles, LossIsReported
<1>7. CASE Stopped
  BY <1>1, <1>7 DEF Stopped, RunnerOk, Settles, LossIsReported
<1>8. CASE Judge
  <2>1. /\ rpc = "report" /\ rpc' = "done" /\ spc = "done" /\ vpc = "exited"
        /\ UNCHANGED <<spc, scode, model, vpc, vcode, r, damaged>>
    BY <1>1, <1>8 DEF Judge, RunnerOk, Settles, history
  <2>2. RunnerOk'
    BY <2>1 DEF RunnerOk
  <2>3. ASSUME rcode' = 0 PROVE Within(r, damaged, r.admission.last_normal_tick) = {}
    <3>1. CASE rcode = 0
      <4>1. scode = 0 /\ vcode = 0
        BY <2>1, <3>1 DEF RunnerOk
      <4>2. PICK clock : rcode' = Judged(rcode, terminal_order(r, model, clock))
        BY <1>8, <4>1 DEF Judge, Killed
      <4>3. VehicleReason(r) \notin NoEvidence
        BY <2>1, <4>1, EvidenceGiven
      <4>4. eligible(r, model, terminal_order(r, model, clock), up_open, down_open)
        BY <2>3, <4>2, <4>3 DEF Judged
      <4>5. uplink_receipt(r, model)
        BY <4>4 DEF eligible
      <4> QED
        BY <4>5, ReceiptTells
    <3>2. CASE rcode # 0
      <4>1. PICK clock : rcode' = Judged(rcode, terminal_order(r, model, clock))
        BY <1>8, <2>3, <3>2 DEF Judge
      <4> QED
        BY <2>3, <3>2, <4>1 DEF Judged
    <3> QED
      BY <3>1, <3>2
  <2> QED
    BY <2>1, <2>2, <2>3 DEF LossIsReported
<1> QED
  BY <1>1, <1>2, <1>3, <1>4, <1>5, <1>6, <1>7, <1>8

\* Where every sample is, and what the runner knows, in every run.
THEOREM FreerunSamples == Spec => [](Core /\ EndsOk /\ UpOk /\ RunnerOk /\ LossIsReported)
<1>1. Init => UpOk /\ RunnerOk /\ LossIsReported
  <2>1. Init => RunnerOk /\ LossIsReported
    BY DEF Init, RunnerOk, LossIsReported
  <2> QED
    BY <2>1, UpInit
<1>2. /\ Core /\ EndsOk /\ UpOk /\ RunnerOk /\ LossIsReported /\ [Next]_vars
      => UpOk' /\ RunnerOk' /\ LossIsReported'
  BY UpNext, RunnerNext
<1> QED
  BY <1>1, <1>2, FreerunEnds, PTL DEF Spec

\* LossIsReported, for every skew, batch and number of faults: a run judged 0
\* lost no sample between the first and the last tick received, because the
\* samples received are as many as the samples sent in that window.
THEOREM LossIsReportedHolds == Spec => []LossIsReported
BY FreerunSamples, PTL

-----------------------------------------------------------------------------
(* The ordinary replies on their way down. *)

\* The ticks of the ordinary replies of a queue.
NormalTicks(q) == {q[i].tick : i \in {j \in DOMAIN q : q[j].state # "TERMINATED"}}

\* The queue of a vehicle whose replies come to no harm: all sound, the
\* ordinary ones newer than last and one newer than the other.
Lined(q, last) ==
    /\ \A i \in DOMAIN q : q[i].sound /\ (q[i].state # "TERMINATED" => q[i].tick > last)
    /\ \A i, j \in DOMAIN q :
           i < j /\ q[i].state # "TERMINATED" /\ q[j].state # "TERMINATED" => q[i].tick < q[j].tick

\* H is the ticks of the ordinary replies the simulator has received, of those
\* in S; every other one is under way, or too late for the simulator.
Answers(H, d, last, q, S, done) ==
    /\ H \subseteq S /\ IsFiniteSet(H) /\ Cardinality(H) = d["received"]
    /\ \A t \in H : t <= last
    /\ IF H = {} THEN last = -1 ELSE last \in H
    /\ \A t \in S : t \in H \/ t \in NormalTicks(q) \/ (done /\ t > last)

\* Without a fault every ordinary reply in S is accounted for.
Delivery(d, last, q, S, done) ==
    /\ d["malformed"] = 0 /\ Lined(q, last) /\ NormalTicks(q) \subseteq S
    /\ \E H : Answers(H, d, last, q, S, done)

\* The ticks of an ordered queue are as many as its ordinary replies.
LEMMA TicksCounted ==
  ASSUME NEW p \in Seq(ReplyType), NEW last \in Int, Lined(p, last)
  PROVE  /\ Normal(p) = {i \in DOMAIN p : p[i].state # "TERMINATED"} /\ IsFiniteSet(NormalTicks(p))
         /\ Cardinality(NormalTicks(p)) = Cardinality(Normal(p))
<1> DEFINE N == {i \in DOMAIN p : p[i].state # "TERMINATED"}
           T == NormalTicks(p)
           f == [i \in N |-> p[i].tick]
<1>1. DOMAIN p = 1 .. Len(p) /\ Len(p) \in Nat /\ \A i \in DOMAIN p : p[i] \in ReplyType
  OBVIOUS
<1>2. Normal(p) = N
  BY DEF Normal, Lined
<1>3. IsFiniteSet(N)
  <2>1. IsFiniteSet(1 .. Len(p)) /\ N \subseteq 1 .. Len(p)
    BY <1>1, FS_Interval
  <2> QED
    BY <2>1, FS_Subset
<1>4. \A i, j \in N : i # j => p[i].tick # p[j].tick
  <2> SUFFICES ASSUME NEW i \in N, NEW j \in N, i < j PROVE p[i].tick # p[j].tick
    BY <1>1
  <2>1. p[i].tick < p[j].tick /\ p[i].tick \in Int /\ p[j].tick \in Int
    BY <1>1 DEF Lined, ReplyType
  <2> QED
    BY <2>1
<1>5. /\ \A i \in N : f[i] \in T
      /\ \A t \in T : \E i \in N : f[i] = t
  BY DEF NormalTicks
<1>6. f \in [N -> T]
  BY <1>5
<1>7. \A i, j \in N : f[i] = f[j] => i = j
  BY <1>4
<1> HIDE DEF f, N, T
<1>8. f \in Bijection(N, T)
  BY <1>5, <1>6, <1>7 DEF Bijection, Injection, Surjection, IsInjective
<1>9. ExistsBijection(N, T)
  BY <1>8 DEF ExistsBijection
<1>10. IsFiniteSet(T) /\ Cardinality(T) = Cardinality(N)
  BY <1>3, <1>9, FS_Bijection
<1> QED
  BY <1>2, <1>10 DEF N, T

\* A pass receives the replies of its batch.
LEMMA DeliveryPasses ==
  ASSUME NEW m \in ModelType, NEW z, NEW q \in Seq(ReplyType), NEW S \in SUBSET Int,
         Drained(m, z, Batch(q)), Delivery(m.down, m.last_received_tick, q, S, FALSE)
  PROVE  Delivery(z.down, z.last_received_tick, Rest(q), S, FALSE)
<1> DEFINE p == Batch(q)
           w == Rest(q)
           n == Len(p)
           l == m.last_received_tick
           x == z.last_received_tick
           B == NormalTicks(p)
<1>1. RxMax \in Nat /\ l \in Int
  BY AdmissionAssumption DEF ModelType
<1>2. /\ p \in Seq(ReplyType) /\ w \in Seq(ReplyType) /\ n \in Nat /\ n <= Len(q)
      /\ Len(w) = Len(q) - n /\ (\A i \in 1 .. n : p[i] = q[i])
      /\ \A i \in 1 .. Len(w) : w[i] = q[n + i]
  BY <1>1, BatchFacts
<1>3. /\ Lined(q, l) /\ NormalTicks(q) \subseteq S /\ m.down["malformed"] = 0
  BY DEF Delivery
<1>4. PICK H : Answers(H, m.down, l, q, S, FALSE)
  BY DEF Delivery
<1> HIDE DEF p, w, n, l
<1>5. /\ DOMAIN p = 1 .. n /\ DOMAIN w = 1 .. Len(w) /\ DOMAIN q = 1 .. Len(q)
      /\ Len(q) \in Nat /\ Len(w) \in Nat
  BY <1>2 DEF n
<1>6. /\ \A i \in DOMAIN p : i \in DOMAIN q /\ p[i] = q[i] /\ i \in Nat /\ i <= n
      /\ \A i \in DOMAIN w : n + i \in DOMAIN q /\ w[i] = q[n + i] /\ i \in Nat /\ i > 0
  BY <1>2, <1>5
<1>7. \A i \in DOMAIN q : i \in DOMAIN p \/ (i - n \in DOMAIN w /\ w[i - n] = q[i])
  <2> SUFFICES ASSUME NEW i \in DOMAIN q, ~(i \in DOMAIN p) PROVE i - n \in DOMAIN w /\ w[i - n] = q[i]
    OBVIOUS
  <2>1. i - n \in 1 .. Len(w) /\ n + (i - n) = i
    BY <1>2, <1>5
  <2> QED
    BY <1>2, <1>5, <2>1
<1>8. Lined(p, l)
  BY <1>3, <1>6 DEF Lined
<1>9. /\ Normal(p) = {i \in DOMAIN p : p[i].state # "TERMINATED"} /\ IsFiniteSet(B)
      /\ Cardinality(B) = Cardinality(Normal(p))
  BY <1>1, <1>2, <1>8, TicksCounted DEF l
<1>10. /\ z \in ModelType /\ z.down["received"] = m.down["received"] + Cardinality(Normal(p))
       /\ (\A i \in DOMAIN p : p[i].sound) => z.down["malformed"] = m.down["malformed"]
       /\ x \in {l} \union {p[i].tick : i \in Normal(p)} /\ x >= l
       /\ \A i \in Normal(p) : p[i].tick <= x
  BY DEF Drained, p, l
<1>11. /\ x \in {l} \union B /\ \A t \in B : t <= x
  BY <1>9, <1>10 DEF NormalTicks
<1>12. x \in Int /\ x >= l
  BY <1>10 DEF ModelType
<1>13. z.down["malformed"] = 0
  BY <1>3, <1>8, <1>10 DEF Lined
<1> HIDE DEF x
<1>14. \A t \in B : t \in Int /\ t > l
  <2>1. \A i \in DOMAIN p : p[i].tick \in Int /\ (p[i].state # "TERMINATED" => p[i].tick > l)
    <3>1. \A i \in DOMAIN p : p[i] \in ReplyType
      BY <1>2
    <3> QED
      BY <1>8, <3>1 DEF Lined, ReplyType
  <2> QED
    BY <2>1 DEF NormalTicks
<1>15. B \subseteq NormalTicks(q) /\ NormalTicks(w) \subseteq NormalTicks(q)
  BY <1>6 DEF NormalTicks
<1>16. NormalTicks(q) \subseteq B \union NormalTicks(w)
  BY <1>6, <1>7 DEF NormalTicks
<1>17. ASSUME NEW i \in DOMAIN w, w[i].state # "TERMINATED" PROVE w[i].tick > x
  <2>1. n + i \in DOMAIN q /\ q[n + i].state # "TERMINATED" /\ w[i].tick = q[n + i].tick
    BY <1>6, <1>17
  <2>2. q[n + i].tick > l /\ q[n + i].tick \in Int
    <3>1. q[n + i] \in ReplyType
      BY <2>1
    <3> QED
      BY <1>3, <2>1, <3>1 DEF Lined, ReplyType
  <2>3. ASSUME NEW j \in Normal(p) PROVE p[j].tick < q[n + i].tick
    <3>1. j \in DOMAIN p /\ p[j].state # "TERMINATED"
      BY <1>9
    <3>2. j \in DOMAIN q /\ p[j] = q[j] /\ j < n + i
      <4>1. j \in DOMAIN q /\ p[j] = q[j] /\ j \in Nat /\ j <= n /\ i \in Nat /\ i > 0
        BY <1>6, <1>17, <3>1
      <4> QED
        BY <1>2, <4>1
    <3> QED
      BY <1>3, <2>1, <3>1, <3>2 DEF Lined
  <2> QED
    BY <1>10, <2>1, <2>2, <2>3 DEF x
<1>18. Lined(w, x)
  <2>1. \A i \in DOMAIN w : w[i].sound
    BY <1>3, <1>6 DEF Lined
  <2>2. ASSUME NEW i \in DOMAIN w, NEW j \in DOMAIN w, i < j, w[i].state # "TERMINATED",
               w[j].state # "TERMINATED"
        PROVE  w[i].tick < w[j].tick
    <3>1. /\ n + i \in DOMAIN q /\ w[i] = q[n + i] /\ n + j \in DOMAIN q /\ w[j] = q[n + j]
      BY <1>6
    <3>2. n + i < n + j
      BY <1>2, <1>6, <2>2
    <3> QED
      BY <1>3, <2>2, <3>1, <3>2 DEF Lined
  <2> QED
    BY <1>17, <2>1, <2>2 DEF Lined
<1>19. /\ H \subseteq S /\ IsFiniteSet(H) /\ Cardinality(H) = m.down["received"]
       /\ (\A t \in H : t <= l) /\ (IF H = {} THEN l = -1 ELSE l \in H)
       /\ \A t \in S : t \in H \/ t \in NormalTicks(q)
  BY <1>4 DEF Answers
<1> DEFINE K == H \union B
<1>20. IsFiniteSet(K) /\ Cardinality(K) = z.down["received"]
  <2>1. H \intersect B = {}
    <3> SUFFICES ASSUME NEW t \in H, t \in B PROVE FALSE
      OBVIOUS
    <3> QED
      BY <1>1, <1>14, <1>19 DEF l
  <2>2. IsFiniteSet(K) /\ Cardinality(K) = Cardinality(H) + Cardinality(B) - Cardinality(H \intersect B)
    BY <1>9, <1>19, FS_Union
  <2>3. Cardinality(H \intersect B) = 0
    BY <2>1, FS_EmptySet
  <2>4. Cardinality(H) \in Nat /\ Cardinality(B) \in Nat
    BY <1>9, <1>19, FS_CardinalityType
  <2>5. Cardinality(K) = Cardinality(H) + Cardinality(B)
    BY <2>2, <2>3, <2>4
  <2> QED
    BY <1>9, <1>10, <1>19, <2>2, <2>5
<1>21. K \subseteq S
  BY <1>3, <1>15, <1>19
<1>22. \A t \in K : t <= x
  <2>1. ASSUME NEW t \in H PROVE t <= x
    <3>1. t <= l /\ l <= x /\ t \in Int
      BY <1>1, <1>12, <1>19, <2>1
    <3> QED
      BY <1>1, <1>12, <3>1 DEF l
  <2> QED
    BY <1>11, <2>1 DEF x
<1>23. IF K = {} THEN x = -1 ELSE x \in K
  <2>1. CASE x \in B
    BY <2>1
  <2>2. CASE x = l /\ x \notin B
    <3>1. B = {}
      <4> SUFFICES ASSUME NEW t \in B PROVE FALSE
        OBVIOUS
      <4>1. t \in Int /\ t > l /\ t <= x
        BY <1>11, <1>14 DEF x
      <4> QED
        BY <1>1, <2>2, <4>1
    <3> QED
      BY <1>19, <2>2, <3>1
  <2> QED
    BY <1>11, <2>1, <2>2 DEF x
<1>24. \A t \in S : t \in K \/ t \in NormalTicks(w)
  BY <1>16, <1>19
<1> HIDE DEF K
<1>25. Answers(K, z.down, x, w, S, FALSE)
  BY <1>20, <1>21, <1>22, <1>23, <1>24 DEF Answers
<1>26. NormalTicks(w) \subseteq S
  BY <1>3, <1>15
<1> QED
  BY <1>13, <1>18, <1>25, <1>26 DEF Delivery, w, x

\* The simulator's end: what is under way is too late.
LEMMA DeliveryEnds ==
  ASSUME NEW d, NEW last, NEW q, NEW S, Delivery(d, last, q, S, FALSE)
  PROVE  Delivery(d, last, <<>>, S, TRUE)
<1>1. PICK H : Answers(H, d, last, q, S, FALSE)
  BY DEF Delivery
<1>2. \A t \in NormalTicks(q) : t > last
  BY DEF Delivery, Lined, NormalTicks
<1>3. Answers(H, d, last, <<>>, S, TRUE)
  BY <1>1, <1>2 DEF Answers
<1>4. Lined(<<>>, last) /\ NormalTicks(<<>>) = {}
  <2>1. DOMAIN <<>> = {}
    OBVIOUS
  <2> QED
    BY <2>1 DEF Lined, NormalTicks
<1> QED
  BY <1>3, <1>4 DEF Delivery

\* A tick later than every tick of the replies sent is later than the last one
\* received.
LEMMA LaterReply ==
  ASSUME NEW d, NEW last \in Int, NEW q, NEW S \in SUBSET Nat, NEW done, NEW t \in Nat,
         \A x \in S : x < t, Delivery(d, last, q, S, done)
  PROVE  t > last /\ t \notin S
<1>1. PICK H : Answers(H, d, last, q, S, done)
  BY DEF Delivery
<1>2. last = -1 \/ last \in S
  BY <1>1 DEF Answers
<1> QED
  BY <1>2

\* A reply for a simulator that has ended.
LEMMA DeliveryLate ==
  ASSUME NEW d, NEW last \in Int, NEW q, NEW S \in SUBSET Nat, NEW t \in Nat,
         \A x \in S : x < t, Delivery(d, last, q, S, TRUE)
  PROVE  Delivery(d, last, q, S \union {t}, TRUE)
<1>1. PICK H : Answers(H, d, last, q, S, TRUE)
  BY DEF Delivery
<1>2. t > last
  BY LaterReply
<1>3. Answers(H, d, last, q, S \union {t}, TRUE)
  BY <1>1, <1>2 DEF Answers
<1> QED
  BY <1>3 DEF Delivery

\* A reply joins the queue: an ordinary one of the tick t, or a terminal one.
LEMMA DeliverySends ==
  ASSUME NEW d, NEW last \in Int, NEW q \in Seq(ReplyType), NEW S \in SUBSET Nat, NEW t \in Nat,
         \A x \in S : x < t, NEW m \in ReplyType, m.sound,
         NEW new, IF m.state = "TERMINATED" THEN new = {} ELSE m.tick = t /\ new = {t},
         Delivery(d, last, q, S, FALSE)
  PROVE  Delivery(d, last, Append(q, m), S \union new, FALSE)
<1> DEFINE w == Append(q, m)
           n == Len(q) + 1
<1>1. PICK H : Answers(H, d, last, q, S, FALSE)
  BY DEF Delivery
<1>2. t > last
  BY LaterReply
<1>3. /\ DOMAIN w = DOMAIN q \union {n} /\ w[n] = m /\ (\A i \in DOMAIN q : w[i] = q[i] /\ i < n)
      /\ n \notin DOMAIN q /\ \A i \in DOMAIN w : i \in Nat /\ i <= n
  <2>1. /\ Len(q) \in Nat /\ DOMAIN q = 1 .. Len(q) /\ Len(w) = n /\ DOMAIN w = 1 .. n
    OBVIOUS
  <2>2. w[n] = m /\ \A i \in 1 .. Len(q) : w[i] = q[i]
    OBVIOUS
  <2> HIDE DEF w
  <2> QED
    BY <2>1, <2>2
<1> HIDE DEF w
<1>4. NormalTicks(w) = NormalTicks(q) \union new
  <2>1. ASSUME NEW x \in NormalTicks(w) PROVE x \in NormalTicks(q) \union new
    BY <1>3, <2>1 DEF NormalTicks
  <2>2. ASSUME NEW x \in NormalTicks(q) PROVE x \in NormalTicks(w)
    BY <1>3, <2>2 DEF NormalTicks
  <2>3. ASSUME NEW x \in new PROVE x \in NormalTicks(w)
    BY <1>3, <2>3 DEF NormalTicks
  <2> QED
    BY <2>1, <2>2, <2>3
<1>5. /\ Lined(q, last) /\ NormalTicks(q) \subseteq S /\ d["malformed"] = 0
  BY DEF Delivery
<1>6. \A i \in DOMAIN q : q[i].state # "TERMINATED" => q[i].tick < t
  BY <1>5 DEF NormalTicks
<1>7. Lined(w, last)
  <2>1. \A i \in DOMAIN w : w[i].sound /\ (w[i].state # "TERMINATED" => w[i].tick > last)
    BY <1>2, <1>3, <1>5 DEF Lined
  <2>2. ASSUME NEW i \in DOMAIN w, NEW j \in DOMAIN w, i < j, w[i].state # "TERMINATED",
               w[j].state # "TERMINATED"
        PROVE  w[i].tick < w[j].tick
    <3>1. i \in DOMAIN q
      <4>1. i # n
        BY <1>3, <2>2
      <4> QED
        BY <1>3, <4>1
    <3>2. CASE j \in DOMAIN q
      BY <1>3, <1>5, <2>2, <3>1, <3>2 DEF Lined
    <3>3. CASE j = n
      BY <1>3, <1>6, <2>2, <3>1, <3>3
    <3> QED
      BY <1>3, <3>2, <3>3
  <2> QED
    BY <2>1, <2>2 DEF Lined
<1>8. Answers(H, d, last, w, S \union new, FALSE)
  BY <1>1, <1>4 DEF Answers
<1> QED
  BY <1>4, <1>5, <1>7, <1>8 DEF Delivery, w

\* The records are numbered by their ticks, and without a fault no ordinary
\* reply sent is lost track of.
Numbered(rt) == \A i \in DOMAIN rt.controls : rt.controls[i].tick = rt.tick_base + i - 1
DownOk ==
    /\ Numbered(r)
    /\ faults = <<>> =>
           Delivery(model.down, model.last_received_tick, downlink, SentTicks(r), spc = "done")

\* A step that moves no reply.
Unmoved ==
    /\ r'.controls = r.controls /\ (r'.tick_base = r.tick_base \/ r.controls = <<>>)
    /\ model'.down = model.down /\ model'.last_received_tick = model.last_received_tick
    /\ Graver
    /\ faults' = <<>> => downlink' = downlink /\ (spc' = "done" <=> spc = "done")

\* It keeps the replies where they are.
LEMMA DownUnmoved ==
  ASSUME DownOk, Unmoved
  PROVE  DownOk'
<1>1. SentTicks(r') = SentTicks(r)
  BY DEF SentTicks, Unmoved
<1>2. Numbered(r')
  <2>1. CASE r'.tick_base = r.tick_base
    BY <2>1 DEF DownOk, Unmoved, Numbered
  <2>2. CASE r.controls = <<>>
    <3>1. DOMAIN r'.controls = {}
      BY <2>2 DEF Unmoved
    <3> QED
      BY <3>1 DEF Numbered
  <2> QED
    BY <2>1, <2>2 DEF Unmoved
<1>3. ASSUME faults' = <<>>
      PROVE  Delivery(model.down, model.last_received_tick, downlink, SentTicks(r), spc = "done")'
  <2>1. faults = <<>> /\ downlink' = downlink /\ (spc' = "done") = (spc = "done")
    BY <1>3 DEF Unmoved, Graver
  <2>2. Delivery(model.down, model.last_received_tick, downlink, SentTicks(r), spc = "done")
    BY <2>1 DEF DownOk
  <2> QED
    BY <1>1, <2>1, <2>2 DEF Unmoved
<1> QED
  BY <1>2, <1>3 DEF DownOk

\* The ticks of the replies sent are the ticks of records, before this cycle's.
LEMMA SentBefore ==
  ASSUME NEW rt \in RuntimeType, Numbered(rt)
  PROVE  SentTicks(rt) \in SUBSET Nat /\ (\A x \in SentTicks(rt) : x < Now(rt)) /\ Now(rt) \in Nat
<1> DEFINE c == rt.controls
           b == rt.tick_base
<1>1. c \in Seq(ControlType) /\ b \in Nat
  BY DEF RuntimeType
<1>2. Len(c) \in Nat /\ DOMAIN c = 1 .. Len(c) /\ \A i \in DOMAIN c : c[i] \in ControlType
  BY <1>1
<1>3. \A i \in DOMAIN c : c[i].tick \in Nat /\ c[i].tick < b + Len(c)
  <2> SUFFICES ASSUME NEW i \in DOMAIN c PROVE c[i].tick \in Nat /\ c[i].tick < b + Len(c)
    OBVIOUS
  <2>1. c[i].tick \in Nat
    BY <1>2 DEF ControlType
  <2>2. c[i].tick = b + i - 1 /\ i \in 1 .. Len(c)
    BY <1>2 DEF Numbered
  <2> HIDE DEF c, b
  <2> QED
    BY <1>1, <1>2, <2>1, <2>2
<1>4. Now(rt) = b + Len(c)
  BY DEF Now
<1>5. Now(rt) \in Nat
  <2> HIDE DEF b, c
  <2> QED
    BY <1>1, <1>2, <1>4
<1> QED
  BY <1>3, <1>4, <1>5 DEF SentTicks

\* A step of the simulator: the model after it counts as m does, and the
\* simulator has ended or has left the queue q.
LEMMA DownPasses ==
  ASSUME DownOk, r' = r, Graver, NEW m, NEW q,
         faults = <<>> => Delivery(m.down, m.last_received_tick, q, SentTicks(r), FALSE),
         model'.down = m.down, model'.last_received_tick = m.last_received_tick,
         \/ spc' = "done" /\ downlink' = <<>>
         \/ spc' # "done" /\ downlink' = q
  PROVE  DownOk'
<1>1. r' = r /\ Graver
  OBVIOUS
<1>2. Numbered(r')
  BY <1>1 DEF DownOk
<1>3. ASSUME faults' = <<>>
      PROVE  Delivery(model.down, model.last_received_tick, downlink, SentTicks(r), spc = "done")'
  <2>1. faults = <<>>
    BY <1>1, <1>3 DEF Graver
  <2>2. Delivery(m.down, m.last_received_tick, q, SentTicks(r), FALSE)
    BY <2>1
  <2>3. CASE spc' = "done" /\ downlink' = <<>>
    <3>1. Delivery(m.down, m.last_received_tick, <<>>, SentTicks(r), TRUE)
      BY <2>2, DeliveryEnds
    <3>2. (spc' = "done") = TRUE
      BY <2>3
    <3> QED
      BY <1>1, <2>3, <3>1, <3>2
  <2>4. CASE spc' # "done" /\ downlink' = q
    <3>1. (spc' = "done") = FALSE
      BY <2>4
    <3> QED
      BY <1>1, <2>2, <2>4, <3>1
  <2> QED
    BY <2>3, <2>4
<1> QED
  BY <1>2, <1>3 DEF DownOk

\* The simulator's steps that send nothing.
LEMMA DownSim ==
  ASSUME Core, DownOk, Interrupted \/ SimKilled \/ Body \/ After
  PROVE  DownOk'
<1>1. model \in ModelType /\ r \in RuntimeType /\ downlink \in Seq(ReplyType) /\ Typed
  BY DEF Core, Typed
<1>2. spc # "done" /\ r' = r /\ Graver
  BY CoreInterrupted, CoreSimKilled, CoreBody, CoreAfter DEF Passes
<1>3. (spc = "done") = FALSE
  BY <1>2
<1>4. faults = <<>> => Delivery(model.down, model.last_received_tick, downlink, SentTicks(r), FALSE)
  BY <1>3 DEF DownOk
<1>5. SentTicks(r) \in SUBSET Int
  BY <1>1, SentBefore DEF DownOk
<1>6. CASE Interrupted \/ SimKilled
  <2>1. spc' = "done" /\ downlink' = <<>> /\ model' \in {model, Ended(model)}
    BY <1>6, CoreInterrupted, CoreSimKilled
  <2>2. model'.down = model.down /\ model'.last_received_tick = model.last_received_tick
    BY <1>1, <2>1, EndedFacts
  <2> QED
    BY <1>2, <1>4, <2>1, <2>2, DownPasses
<1>7. ASSUME NEW m \in Drains
      PROVE  /\ faults = <<>> =>
                    Delivery(m.down, m.last_received_tick, Rest(downlink), SentTicks(r), FALSE)
             /\ m \in ModelType
  <2>1. Drained(model, m, Batch(downlink)) /\ m \in ModelType
    BY <1>1, DrainsFacts
  <2> QED
    BY <1>1, <1>4, <1>5, <2>1, DeliveryPasses
<1>8. CASE Body
  <2>1. PICK m \in Drains : Steered(m)
    BY <1>8, CoreBody
  <2>2. m \in ModelType /\ (faults = <<>> =>
            Delivery(m.down, m.last_received_tick, Rest(downlink), SentTicks(r), FALSE))
    BY <1>7
  <2>3. CASE /\ spc' = "done" /\ downlink' = <<>> /\ model' = Ended([m EXCEPT !.source = "vehicle"])
    <3> DEFINE x == [m EXCEPT !.source = "vehicle"]
    <3>1. x \in ModelType /\ x.down = m.down /\ x.last_received_tick = m.last_received_tick
      BY <2>2 DEF ModelType
    <3> HIDE DEF x
    <3>2. model'.down = m.down /\ model'.last_received_tick = m.last_received_tick
      BY <2>3, <3>1, EndedFacts DEF x
    <3> QED
      BY <1>2, <2>2, <2>3, <3>2, DownPasses
  <2>4. CASE /\ spc' = "offer" /\ downlink' = Rest(downlink) /\ \E class \in Truths : model' = advance(m, k, class)
    <3>1. PICK class \in Truths : model' = advance(m, k, class)
      BY <2>4
    <3>2. model'.down = m.down /\ model'.last_received_tick = m.last_received_tick
      BY <2>2, <3>1, AdvanceFacts
    <3>3. spc' # "done" /\ downlink' = Rest(downlink)
      BY <2>4
    <3> QED
      BY <1>2, <2>2, <3>2, <3>3, DownPasses
  <2> QED
    BY <2>1, <2>3, <2>4 DEF Steered
<1>9. CASE After
  <2>1. PICK m \in Drains : Awaited(m)
    BY <1>9, CoreAfter
  <2>2. m \in ModelType /\ (faults = <<>> =>
            Delivery(m.down, m.last_received_tick, Rest(downlink), SentTicks(r), FALSE))
    BY <1>7
  <2>3. /\ model' \in {m, Ended(m)}
        /\ \/ spc' = "done" /\ downlink' = <<>>
           \/ spc' # "done" /\ downlink' = Rest(downlink)
    BY <2>1 DEF Awaited
  <2>4. model'.down = m.down /\ model'.last_received_tick = m.last_received_tick
    BY <2>2, <2>3, EndedFacts
  <2> QED
    BY <1>2, <2>2, <2>3, <2>4, DownPasses
<1> QED
  BY <1>6, <1>8, <1>9

\* A cycle is served: its reply is under way, if its send succeeded.
LEMMA DownServes ==
  ASSUME Core, DownOk, NEW state, NEW success, Serves(state, success)
  PROVE  DownOk'
<1> DEFINE m == Reply(Now(r), state.mode, state.terminal.reason)
           c == Control(r, state, success)
           new == IF success /\ state.mode # "TERMINATED" THEN {Now(r)} ELSE {}
           d == model.down
           last == model.last_received_tick
           S == SentTicks(r)
<1>1. /\ vpc = "serve" /\ SimRests /\ state \in FreeState /\ r' \in RuntimeType
      /\ CycleServed(r, r', state, success) /\ Replied(m, success)
  BY DEF Serves
<1>2. /\ r'.tick_base = r.tick_base /\ r'.controls = Append(r.controls, c)
  BY <1>1 DEF CycleServed
<1>3. /\ m \in ReplyType /\ m.sound /\ success \in BOOLEAN /\ Graver
      /\ downlink' = IF success /\ spc # "done" THEN Append(downlink, m) ELSE downlink
  BY <1>1 DEF Replied
<1>4. r \in RuntimeType /\ downlink \in Seq(ReplyType) /\ model \in ModelType /\ last \in Int
  BY DEF Core, Typed, ModelType
<1>5. r.controls \in Seq(ControlType) /\ r.tick_base \in Nat /\ Len(r.controls) \in Nat
  BY <1>4 DEF RuntimeType
<1>6. c \in ControlType /\ c.tick = Now(r) /\ c.state = state.mode /\ c.sent = success
  <2>1. Ordered(r.admission) /\ r.admission.held \in SimFrames \union {NoFrame}
    BY <1>1, ServeHeld
  <2>2. c \in ControlType
    BY <1>1, <1>3, <1>4, <2>1, ControlFacts
  <2> QED
    BY <2>2 DEF Control
<1>7. m.tick = Now(r) /\ m.state = state.mode
  BY DEF Reply
<1>8. S \in SUBSET Nat /\ (\A x \in S : x < Now(r)) /\ Now(r) \in Nat
  BY <1>4, SentBefore DEF DownOk
<1> HIDE DEF m, c
<1>9. /\ DOMAIN r'.controls = DOMAIN r.controls \union {Len(r.controls) + 1}
      /\ r'.controls[Len(r.controls) + 1] = c
      /\ \A i \in DOMAIN r.controls : r'.controls[i] = r.controls[i]
  BY <1>2, <1>5, <1>6
<1>10. Numbered(r')
  <2>1. r'.controls[Len(r.controls) + 1].tick = r'.tick_base + (Len(r.controls) + 1) - 1
    <3>1. Now(r) = r.tick_base + Len(r.controls)
      BY DEF Now
    <3>2. r.tick_base + Len(r.controls) = r.tick_base + (Len(r.controls) + 1) - 1
      BY <1>5
    <3> QED
      BY <1>2, <1>6, <1>9, <3>1, <3>2
  <2> QED
    BY <1>2, <1>9, <2>1 DEF Numbered, DownOk
<1>11. SentTicks(r') = S \union new
  <2>1. ASSUME NEW x \in SentTicks(r') PROVE x \in S \union new
    BY <1>6, <1>9, <2>1 DEF SentTicks
  <2>2. ASSUME NEW x \in S PROVE x \in SentTicks(r')
    BY <1>9, <2>2 DEF SentTicks
  <2>3. ASSUME NEW x \in new PROVE x \in SentTicks(r')
    BY <1>6, <1>9, <2>3 DEF SentTicks
  <2> QED
    BY <2>1, <2>2, <2>3
<1>12. model' = model /\ spc' = spc
  BY <1>1 DEF SimRests
<1> HIDE DEF S
<1>13. ASSUME faults' = <<>>
       PROVE  Delivery(model.down, model.last_received_tick, downlink, SentTicks(r), spc = "done")'
  <2>1. faults = <<>>
    BY <1>3, <1>13 DEF Graver
  <2>2. Delivery(d, last, downlink, S, spc = "done")
    BY <2>1 DEF DownOk, S
  <2>3. CASE ~success
    <3>1. S \union new = S /\ downlink' = downlink
      BY <1>3, <2>3
    <3> QED
      BY <1>11, <1>12, <2>2, <3>1
  <2>4. CASE success /\ spc = "done"
    <3>1. Delivery(d, last, downlink, S, TRUE) /\ (spc = "done") = TRUE
      BY <2>2, <2>4
    <3>2. Delivery(d, last, downlink, S \union {Now(r)}, TRUE)
      BY <1>4, <1>8, <3>1, DeliveryLate
    <3>3. Delivery(d, last, downlink, S \union new, TRUE)
      BY <3>1, <3>2
    <3> QED
      BY <1>3, <1>11, <1>12, <2>4, <3>1, <3>3
  <2>5. CASE success /\ spc # "done"
    <3>1. Delivery(d, last, downlink, S, FALSE) /\ (spc = "done") = FALSE
      BY <2>2, <2>5
    <3>2. IF m.state = "TERMINATED" THEN new = {} ELSE m.tick = Now(r) /\ new = {Now(r)}
      BY <1>7, <2>5
    <3>3. Delivery(d, last, Append(downlink, m), S \union new, FALSE)
      <4> HIDE DEF new, d, last
      <4> QED
        BY <1>3, <1>4, <1>8, <3>1, <3>2, DeliverySends
    <3> QED
      BY <1>3, <1>11, <1>12, <2>5, <3>1, <3>3
  <2> QED
    BY <1>3, <2>3, <2>4, <2>5
<1> QED
  BY <1>10, <1>13 DEF DownOk

\* A copy of the terminal reply.
LEMMA DownResends ==
  ASSUME Core, EndsOk, DownOk, NEW success, Resends(success)
  PROVE  DownOk'
<1> DEFINE m == ReplyOf(r)
           d == model.down
           last == model.last_received_tick
           S == SentTicks(r)
<1>1. /\ vpc = "resend" /\ SimRests /\ Replied(m, success) /\ CopySent(r, r', success)
  BY DEF Resends
<1>2. m.state = "TERMINATED"
  BY <1>1 DEF EndsOk, ReplyOf, Reply, Over
<1>3. /\ r'.tick_base = r.tick_base /\ r'.controls = r.controls
  BY <1>1 DEF CopySent
<1>4. r \in RuntimeType /\ downlink \in Seq(ReplyType) /\ model \in ModelType /\ last \in Int
  BY DEF Core, Typed, ModelType
<1>5. S \in SUBSET Nat /\ (\A x \in S : x < Now(r)) /\ Now(r) \in Nat
  BY <1>4, SentBefore DEF DownOk
<1>6. /\ m \in ReplyType /\ m.sound /\ Graver
      /\ downlink' = IF success /\ spc # "done" THEN Append(downlink, m) ELSE downlink
  BY <1>1 DEF Replied
<1>7. model' = model /\ spc' = spc
  BY <1>1 DEF SimRests
<1>8. CASE success /\ spc # "done"
  <2>1. Numbered(r')
    BY <1>3 DEF Numbered, DownOk
  <2>2. SentTicks(r') = S
    BY <1>3 DEF SentTicks
  <2>3. ASSUME faults' = <<>>
        PROVE  Delivery(model.down, model.last_received_tick, downlink, SentTicks(r), spc = "done")'
    <3>1. faults = <<>> /\ (spc = "done") = FALSE
      BY <1>6, <1>8, <2>3 DEF Graver
    <3>2. Delivery(d, last, downlink, S, FALSE)
      BY <3>1 DEF DownOk
    <3> HIDE DEF S, m, d, last
    <3>3. Delivery(d, last, Append(downlink, m), S \union {}, FALSE)
      BY <1>2, <1>4, <1>5, <1>6, <3>2, DeliverySends
    <3>4. Delivery(d, last, Append(downlink, m), S, FALSE)
      BY <3>3
    <3> QED
      BY <1>6, <1>7, <1>8, <2>2, <3>1, <3>4 DEF d, last
  <2> QED
    BY <2>1, <2>3 DEF DownOk
<1>9. CASE ~(success /\ spc # "done")
  <2>1. Unmoved
    BY <1>3, <1>6, <1>7, <1>9 DEF Unmoved
  <2> QED
    BY <2>1, DownUnmoved
<1> QED
  BY <1>8, <1>9

\* Nothing is under way at first.
LEMMA DownInit ==
  ASSUME Init
  PROVE  DownOk
<1>1. /\ r = NewRuntime /\ downlink = <<>> /\ spc = "prologue"
      /\ \E class : model = NewModel(class)
  BY DEF Init
<1>2. r.controls = <<>> /\ SentTicks(r) = {}
  BY <1>1 DEF NewRuntime, SentTicks
<1>3. model.down["malformed"] = 0 /\ model.down["received"] = 0 /\ model.last_received_tick = -1
  <2>1. "malformed" \in DownFields /\ "received" \in DownFields
    BY DEF DownFields
  <2> QED
    BY <1>1, <2>1 DEF NewModel, Zero
<1>4. DOMAIN downlink = {} /\ DOMAIN r.controls = {} /\ NormalTicks(downlink) = {}
  BY <1>1, <1>2 DEF NormalTicks
<1>5. Answers({}, model.down, model.last_received_tick, downlink, SentTicks(r), spc = "done")
  BY <1>2, <1>3, FS_EmptySet DEF Answers
<1> QED
  BY <1>2, <1>3, <1>4, <1>5 DEF DownOk, Numbered, Delivery, Lined

\* Every step keeps track of the replies.
LEMMA DownNext ==
  ASSUME Core, EndsOk, DownOk, [Next]_vars
  PROVE  DownOk'
<1>0. model \in ModelType /\ r \in RuntimeType
  BY DEF Core, Typed
<1>1. CASE Quiet
  <2>1. Unmoved
    BY <1>1 DEF Quiet, Unmoved
  <2> QED
    BY <2>1, DownUnmoved
<1>2. CASE Interrupted \/ SimKilled \/ Body \/ After
  BY <1>2, DownSim
<1>3. CASE Acquire
  <2>2. downlink' = downlink /\ faults' = faults /\ vpc = "acquire" /\ SimRests
    BY <1>3, CoreAcquire DEF Acquire
  <2>3. r.controls = <<>>
    <3>1. ~acquired
      BY <2>2 DEF Core, VehOk
    <3> QED
      BY <3>1, Unacquired
  <2>4. r'.controls = r.controls
    <3>1. CASE r' = r
      BY <3>1
    <3>2. CASE r' = Acquired(r, Head(uplink))
      BY <1>0, <3>2 DEF Acquired, RuntimeType
    <3> QED
      BY <1>3, <3>1, <3>2, CoreAcquire DEF Acquires, Rejects
  <2>5. Graver
    BY <2>2 DEF Graver, Core, Typed
  <2>6. Unmoved
    BY <2>2, <2>3, <2>4, <2>5 DEF Unmoved, SimRests
  <2> QED
    BY <2>6, DownUnmoved
<1>4. CASE \E how : Starts(how)
  <2>1. PICK how : Starts(how)
    BY <1>4
  <2> DEFINE z == offer(model, 0, FALSE, how)
  <2>2. /\ spc = "prologue" /\ how \in {"failed", "sent"} /\ Sending(0, FALSE, how)
        /\ \/ spc' = "drain" /\ model' = z /\ downlink' = downlink
           \/ spc' = "done" /\ model' = Ended(z) /\ downlink' = <<>>
    BY <2>1 DEF Starts
  <2>3. z \in ModelType /\ Offered(model, z, 0, FALSE, how)
    BY <1>0, <2>2, OfferFacts
  <2> HIDE DEF z
  <2>4. z.down = model.down /\ z.last_received_tick = model.last_received_tick
    BY <2>3 DEF Offered
  <2>5. /\ model'.down = model.down /\ model'.last_received_tick = model.last_received_tick
    BY <2>2, <2>3, <2>4, EndedFacts
  <2>6. r' = r /\ Graver /\ (spc = "done") = FALSE
    BY <2>2 DEF Sending
  <2>7. faults = <<>> => Delivery(model.down, model.last_received_tick, downlink, SentTicks(r), FALSE)
    BY <2>6 DEF DownOk
  <2>8. \/ spc' = "done" /\ downlink' = <<>>
        \/ spc' # "done" /\ downlink' = downlink
    BY <2>2
  <2> QED
    BY <2>5, <2>6, <2>7, <2>8, DownPasses
<1>5. CASE \E how : Sends(how)
  <2>1. PICK how : Sends(how)
    BY <1>5
  <2> DEFINE over == model.reason # "none"
             z == offer(model, k + 1, over, how)
  <2>2. /\ spc = "offer" /\ spc' = "drain" /\ Sending(k + 1, over, how) /\ model' = z /\ downlink' = downlink
    BY <2>1 DEF Sends
  <2>3. Offered(model, z, k + 1, over, how)
    <3>1. k + 1 \in Nat /\ how \in {"lost", "failed", "sent"} /\ over \in BOOLEAN
      BY <2>2 DEF Core, Typed, Sending
    <3>2. over => model.reason \in Legal
      BY <2>2 DEF Core, SimOk
    <3> QED
      BY <1>0, <3>1, <3>2, OfferFacts
  <2> HIDE DEF z
  <2>4. model'.down = model.down /\ model'.last_received_tick = model.last_received_tick
    BY <2>2, <2>3 DEF Offered
  <2>5. r' = r /\ Graver
    BY <2>2 DEF Sending
  <2>6. Unmoved
    BY <2>2, <2>4, <2>5 DEF Unmoved
  <2> QED
    BY <2>6, DownUnmoved
<1>6. CASE \E c, v : Wakes(c, v)
  <2>1. PICK c, v : Wakes(c, v)
    BY <1>6
  <2>2. r'.controls = r.controls /\ r'.tick_base = r.tick_base
    BY <1>0, <2>1 DEF Wakes, Admitted, RuntimeType
  <2>3. SimRests /\ downlink' = downlink /\ faults' = faults
    BY <2>1 DEF Wakes
  <2>4. Graver
    BY <2>3 DEF Graver, Core, Typed
  <2>5. Unmoved
    BY <2>2, <2>3, <2>4 DEF Unmoved, SimRests
  <2> QED
    BY <2>5, DownUnmoved
<1>7. CASE \E why : Fails(why)
  <2>1. PICK why : Fails(why)
    BY <1>7
  <2>2. r'.controls = r.controls /\ r'.tick_base = r.tick_base
    BY <2>1 DEF Fails, Broken
  <2>3. Unmoved
    BY <2>1, <2>2 DEF Fails, Unmoved, SimRests
  <2> QED
    BY <2>3, DownUnmoved
<1>8. CASE \E state, success : Serves(state, success)
  BY <1>8, DownServes
<1>9. CASE \E success : Resends(success)
  BY <1>9, DownResends
<1>10. CASE Halts
  <2>1. Unmoved
    BY <1>10 DEF Halts, Unmoved, SimRests, Graver, Core, Typed
  <2> QED
    BY <2>1, DownUnmoved
<1>11. CASE Damages
  <2>1. Unmoved
    BY <1>11 DEF Damages, Unmoved, SimRests
  <2> QED
    BY <2>1, DownUnmoved
<1> QED
  BY StepKinds, <1>1, <1>2, <1>3, <1>4, <1>5, <1>6, <1>7, <1>8, <1>9, <1>10, <1>11

-----------------------------------------------------------------------------
(* The simulator's books. *)

\* They depend on the counters, the samples recorded and the ending seen.
LEMMA ClosesSame ==
  ASSUME NEW m, NEW z, SimCloses(m), z.up = m.up, z.down = m.down, z.term = m.term,
         z.inputs = m.inputs, z.terminal_logged = m.terminal_logged, z.vehicle_seen = m.vehicle_seen
  PROVE  SimCloses(z)
BY DEF SimCloses

\* A drain books every packet.
LEMMA ClosesDrained ==
  ASSUME NEW m \in ModelType, NEW z, NEW p, SimCloses(m), Drained(m, z, p),
         \A i \in Final(p) : p[i].reason # "NONE"
  PROVE  SimCloses(z)
<1>1. z \in ModelType /\ SameUplink(m, z)
  BY DEF Drained
<1> DEFINE a1 == m.down["received"]
           a2 == m.down["intentionally_lost"]
           a3 == m.down["actuator_selected"]
           a4 == m.down["superseded"]
           b1 == m.term["down_received_raw"]
           b2 == m.term["down_intentionally_lost"]
           b3 == m.term["down_survived"]
           c1 == z.down["received"]
           c2 == z.down["intentionally_lost"]
           c3 == z.down["actuator_selected"]
           c4 == z.down["superseded"]
           d1 == z.term["down_received_raw"]
           d2 == z.term["down_intentionally_lost"]
           d3 == z.term["down_survived"]
<1>2. /\ a1 \in Nat /\ a2 \in Nat /\ a3 \in Nat /\ a4 \in Nat /\ b1 \in Nat /\ b2 \in Nat /\ b3 \in Nat
      /\ c1 \in Nat /\ c2 \in Nat /\ c3 \in Nat /\ c4 \in Nat /\ d1 \in Nat /\ d2 \in Nat /\ d3 \in Nat
  BY <1>1, ModelCounters
<1>3. c1 - (c3 + c2 + c4) = a1 - (a3 + a2 + a4) /\ d1 - (d2 + d3) = b1 - (b2 + b3)
  BY DEF Drained, Unsettled, Unanswered
<1>4. a1 = a3 + a2 + a4 /\ b1 = b2 + b3 /\ (m.vehicle_seen # "NONE") = (b3 > 0)
  BY DEF SimCloses
<1>5. \/ z.vehicle_seen = m.vehicle_seen /\ d3 = b3
      \/ d3 > b3 /\ \E i \in Final(p) : z.vehicle_seen = p[i].reason
  BY DEF Drained
<1>6. \A q \in {"up_attempts", "up_intentionally_lost", "up_tx_fail", "up_transmitted"} :
          z.term[q] = m.term[q]
  BY DEF Drained, TermFields
<1>7. z.up = m.up /\ z.inputs = m.inputs /\ z.terminal_logged = m.terminal_logged
  BY <1>1 DEF SameUplink
<1>8. (z.vehicle_seen # "NONE") = (d3 > 0)
  <2> HIDE DEF b3, d3
  <2>1. CASE z.vehicle_seen = m.vehicle_seen /\ d3 = b3
    BY <1>4, <2>1
  <2>2. CASE d3 > b3 /\ \E i \in Final(p) : z.vehicle_seen = p[i].reason
    BY <1>2, <2>2
  <2> QED
    BY <1>5, <2>1, <2>2
<1>9. c1 = c3 + c2 + c4 /\ d1 = d2 + d3
  <2> HIDE DEF a1, a2, a3, a4, b1, b2, b3, c1, c2, c3, c4, d1, d2, d3
  <2> QED
    BY <1>2, <1>3, <1>4
<1>10. /\ m.up["generated"] = m.up["intentionally_lost"] + m.up["transmitted"] + m.up["sensor_tx_fail"]
       /\ Cardinality(m.inputs) = m.up["transmitted"]
       /\ m.terminal_logged = (m.term["up_transmitted"] > 0)
       /\ m.term["up_attempts"] = m.term["up_intentionally_lost"] + m.term["up_tx_fail"]
                                  + m.term["up_transmitted"]
  BY DEF SimCloses
<1> QED
  BY <1>6, <1>7, <1>8, <1>9, <1>10 DEF SimCloses

\* offer books the frame by the result of its send.
LEMMA ClosesOffered ==
  ASSUME NEW m \in ModelType, NEW z \in ModelType, NEW tick, NEW over \in BOOLEAN,
         NEW how \in {"lost", "failed", "sent"}, SimCloses(m), Offered(m, z, tick, over, how),
         IsFiniteSet(m.inputs), tick \notin m.inputs
  PROVE  SimCloses(z)
<1> DEFINE sent == how = "sent"
           u1 == m.up["generated"]
           u2 == m.up["intentionally_lost"]
           u3 == m.up["transmitted"]
           u4 == m.up["sensor_tx_fail"]
           t1 == m.term["up_attempts"]
           t2 == m.term["up_intentionally_lost"]
           t3 == m.term["up_tx_fail"]
           t4 == m.term["up_transmitted"]
<1>1. m.up \in [UpFields -> Nat] /\ m.term \in [TermFields -> Nat]
  BY DEF ModelType
<1>2. /\ u1 \in Nat /\ u2 \in Nat /\ u3 \in Nat /\ u4 \in Nat
      /\ t1 \in Nat /\ t2 \in Nat /\ t3 \in Nat /\ t4 \in Nat
  BY <1>1 DEF UpFields, TermFields
<1>3. /\ u1 = u2 + u3 + u4 /\ Cardinality(m.inputs) = u3 /\ m.terminal_logged = (t4 > 0)
      /\ t1 = t2 + t3 + t4
  BY DEF SimCloses
<1>4. /\ z.down = m.down /\ z.vehicle_seen = m.vehicle_seen
      /\ z.inputs = (IF sent /\ ~over THEN m.inputs \union {tick} ELSE m.inputs)
      /\ z.terminal_logged = (m.terminal_logged \/ (sent /\ over))
  BY DEF Offered
<1>5. CASE over
  <2> DEFINE field == [lost |-> "up_intentionally_lost", failed |-> "up_tx_fail", sent |-> "up_transmitted"][how]
  <2>1. z.up = m.up /\ z.term = Plus(Plus(m.term, "up_attempts", 1), field, 1) /\ z.inputs = m.inputs
    BY <1>4, <1>5 DEF Offered
  <2>2. field = IF how = "lost" THEN "up_intentionally_lost" ELSE IF how = "failed" THEN "up_tx_fail"
                ELSE "up_transmitted"
    OBVIOUS
  <2> HIDE DEF field
  <2>3. /\ z.term["up_attempts"] = t1 + 1
        /\ z.term["up_intentionally_lost"] = t2 + (IF how = "lost" THEN 1 ELSE 0)
        /\ z.term["up_tx_fail"] = t3 + (IF how = "failed" THEN 1 ELSE 0)
        /\ z.term["up_transmitted"] = t4 + (IF sent THEN 1 ELSE 0)
    BY <1>1, <1>2, <2>1, <2>2 DEF Plus, TermFields
  <2>4. \A q \in {"down_received_raw", "down_intentionally_lost", "down_survived"} : z.term[q] = m.term[q]
    BY <1>1, <2>1, <2>2 DEF Plus, TermFields
  <2> DEFINE y1 == z.term["up_attempts"]
             y2 == z.term["up_intentionally_lost"]
             y3 == z.term["up_tx_fail"]
             y4 == z.term["up_transmitted"]
  <2> HIDE DEF t1, t2, t3, t4, y1, y2, y3, y4
  <2>5. y1 = y2 + y3 + y4
    BY <1>2, <1>3, <2>3 DEF y1, y2, y3, y4
  <2>6. z.terminal_logged = (y4 > 0)
    <3>1. CASE sent
      <4>1. y4 > 0
        BY <1>2, <2>3, <3>1 DEF y4
      <4> QED
        BY <1>4, <1>5, <3>1, <4>1
    <3>2. CASE ~sent
      <4>1. y4 = t4
        BY <1>2, <2>3, <3>2 DEF y4
      <4>2. m.terminal_logged \in BOOLEAN
        BY DEF ModelType
      <4>3. z.terminal_logged = m.terminal_logged
        BY <1>4, <3>2, <4>2
      <4> QED
        BY <1>3, <4>1, <4>3
    <3> QED
      BY <3>1, <3>2
  <2> QED
    BY <1>4, <2>1, <2>4, <2>5, <2>6 DEF SimCloses, y1, y2, y3, y4
<1>6. CASE ~over
  <2> DEFINE field == [lost |-> "intentionally_lost", failed |-> "sensor_tx_fail", sent |-> "transmitted"][how]
  <2>1. z.term = m.term /\ z.up = Plus(Plus(m.up, "generated", 1), field, 1)
    BY <1>6 DEF Offered
  <2>2. field = IF how = "lost" THEN "intentionally_lost" ELSE IF how = "failed" THEN "sensor_tx_fail"
                ELSE "transmitted"
    OBVIOUS
  <2> HIDE DEF field
  <2>3. /\ z.up["generated"] = u1 + 1
        /\ z.up["intentionally_lost"] = u2 + (IF how = "lost" THEN 1 ELSE 0)
        /\ z.up["sensor_tx_fail"] = u4 + (IF how = "failed" THEN 1 ELSE 0)
        /\ z.up["transmitted"] = u3 + (IF sent THEN 1 ELSE 0)
    BY <1>1, <1>2, <2>1, <2>2 DEF Plus, UpFields
  <2> DEFINE y1 == z.up["generated"]
             y2 == z.up["intentionally_lost"]
             y3 == z.up["transmitted"]
             y4 == z.up["sensor_tx_fail"]
  <2> HIDE DEF u1, u2, u3, u4, y1, y2, y3, y4
  <2>4. y1 = y2 + y3 + y4
    BY <1>2, <1>3, <2>3 DEF y1, y2, y3, y4
  <2>5. Cardinality(z.inputs) = y3
    <3>1. CASE sent
      <4>1. z.inputs = m.inputs \union {tick}
        BY <1>4, <1>6, <3>1
      <4>2. Cardinality(m.inputs \union {tick}) = Cardinality(m.inputs) + 1
        BY FS_AddElement
      <4> QED
        BY <1>3, <2>3, <3>1, <4>1, <4>2 DEF y3
    <3>2. CASE ~sent
      <4>1. z.inputs = m.inputs /\ y3 = u3 + 0
        BY <1>4, <2>3, <3>2 DEF y3
      <4> QED
        BY <1>2, <1>3, <4>1
    <3> QED
      BY <3>1, <3>2
  <2>6. z.terminal_logged = m.terminal_logged
    <3>1. m.terminal_logged \in BOOLEAN
      BY DEF ModelType
    <3> QED
      BY <1>4, <1>6, <3>1
  <2> QED
    BY <1>4, <2>1, <2>4, <2>5, <2>6 DEF SimCloses, y1, y2, y3, y4
<1> QED
  BY <1>5, <1>6

\* The reply that ends an episode carries its reason.
LEMMA FinalReasons ==
  ASSUME Core, EndsOk
  PROVE  \A i \in Final(Batch(downlink)) : Batch(downlink)[i].reason # "NONE"
<1> DEFINE p == Batch(downlink)
<1>1. downlink \in Seq(ReplyType) /\ RxMax \in Nat
  BY AdmissionAssumption DEF Core, Typed
<1>2. /\ p \in Seq(ReplyType) /\ Len(p) \in Nat /\ Len(p) <= Len(downlink)
      /\ \A i \in 1 .. Len(p) : p[i] = downlink[i]
  BY <1>1, BatchFacts
<1> HIDE DEF p
<1>3. \A i \in DOMAIN p : i \in DOMAIN downlink /\ p[i] = downlink[i]
  BY <1>1, <1>2
<1>4. Over(r) => r.state.terminal.reason # "NONE"
  BY DEF EndsOk, Decision, Motive, Verdicts, PairedReasons
<1> QED
  BY <1>3, <1>4 DEF EndsOk, Echoed, Final, p

\* The simulator's books are closed after every step.
LEMMA ClosesNext ==
  ASSUME Core, EndsOk, UpOk, SimCloses(model), [Next]_vars
  PROVE  SimCloses(model)'
<1>1. model \in ModelType /\ Typed
  BY DEF Core, Typed
<1>2. LastTick \in Int /\ IsFiniteSet(model.inputs) /\ LastTick + 1 \notin model.inputs
  <2>1. LastTick \in Int /\ model.inputs \subseteq 0 .. LastTick
    BY TickedFacts DEF UpOk
  <2>2. IsFiniteSet(0 .. LastTick)
    BY <2>1, FS_Interval
  <2>3. IsFiniteSet(model.inputs)
    BY <2>1, <2>2, FS_Subset
  <2>4. LastTick + 1 \notin 0 .. LastTick
    BY <2>1
  <2> QED
    BY <2>1, <2>3, <2>4
<1>3. ASSUME NEW m \in Drains PROVE m \in ModelType /\ SimCloses(m)
  <2>1. Drained(model, m, Batch(downlink)) /\ m \in ModelType
    BY <1>1, DrainsFacts
  <2> QED
    BY <1>1, <2>1, FinalReasons, ClosesDrained
<1>4. ASSUME NEW m \in ModelType, SimCloses(m) PROVE SimCloses(Ended(m))
  BY <1>4, EndedFacts, ClosesSame DEF SameUplink
<1>5. CASE model' = model
  BY <1>5
<1>6. CASE Interrupted \/ SimKilled
  BY <1>1, <1>4, <1>6, CoreInterrupted, CoreSimKilled
<1>7. CASE Body
  <2>1. PICK m \in Drains : Steered(m)
    BY <1>7, CoreBody
  <2>2. m \in ModelType /\ SimCloses(m)
    BY <1>3
  <2>3. CASE model' = Ended([m EXCEPT !.source = "vehicle"])
    <3> DEFINE x == [m EXCEPT !.source = "vehicle"]
    <3>1. /\ x \in ModelType /\ x.up = m.up /\ x.down = m.down /\ x.term = m.term /\ x.inputs = m.inputs
          /\ x.terminal_logged = m.terminal_logged /\ x.vehicle_seen = m.vehicle_seen
      BY <2>2 DEF ModelType
    <3> HIDE DEF x
    <3>2. SimCloses(x)
      BY <2>2, <3>1, ClosesSame
    <3>3. model' = Ended(x)
      BY <2>3 DEF x
    <3> QED
      BY <1>4, <3>1, <3>2, <3>3
  <2>4. CASE \E class \in Truths : model' = advance(m, k, class)
    <3>1. PICK class \in Truths : model' = advance(m, k, class)
      BY <2>4
    <3>2. /\ model'.up = m.up /\ model'.down = m.down /\ model'.term = m.term /\ model'.inputs = m.inputs
          /\ model'.terminal_logged = m.terminal_logged /\ model'.vehicle_seen = m.vehicle_seen
      BY <2>2, <3>1, AdvanceFacts
    <3> QED
      BY <2>2, <3>2, ClosesSame
  <2> QED
    BY <2>1, <2>3, <2>4 DEF Steered
<1>8. CASE After
  <2>1. PICK m \in Drains : Awaited(m)
    BY <1>8, CoreAfter
  <2>2. m \in ModelType /\ SimCloses(m) /\ (model' = m \/ model' = Ended(m))
    BY <1>3, <2>1 DEF Awaited
  <2> QED
    BY <1>4, <2>2
<1>9. CASE \E how : Starts(how)
  <2>1. PICK how : Starts(how)
    BY <1>9
  <2> DEFINE z == offer(model, 0, FALSE, how)
  <2>2. /\ spc = "prologue" /\ how \in {"lost", "failed", "sent"}
        /\ model' = z \/ model' = Ended(z)
    BY <2>1 DEF Starts
  <2>3. z \in ModelType /\ Offered(model, z, 0, FALSE, how)
    BY <1>1, <2>2, OfferFacts
  <2>4. LastTick + 1 = 0
    BY <2>2 DEF LastTick
  <2> HIDE DEF z
  <2>5. SimCloses(z)
    BY <1>1, <1>2, <2>2, <2>3, <2>4, ClosesOffered
  <2> QED
    BY <1>4, <2>2, <2>3, <2>5
<1>10. CASE \E how : Sends(how)
  <2>1. PICK how : Sends(how)
    BY <1>10
  <2> DEFINE over == model.reason # "none"
             z == offer(model, k + 1, over, how)
  <2>2. /\ spc = "offer" /\ Sending(k + 1, over, how) /\ model' = z
    BY <2>1 DEF Sends
  <2>3. k + 1 \in Nat /\ how \in {"lost", "failed", "sent"} /\ over \in BOOLEAN
    BY <2>2 DEF Core, Typed, Sending
  <2>4. over => model.reason \in Legal
    BY <2>2 DEF Core, SimOk
  <2>5. z \in ModelType /\ Offered(model, z, k + 1, over, how)
    BY <1>1, <2>3, <2>4, OfferFacts
  <2>6. LastTick = k
    BY <2>2 DEF LastTick
  <2> HIDE DEF z, over
  <2>7. SimCloses(z)
    BY <1>1, <1>2, <2>3, <2>5, <2>6, ClosesOffered
  <2> QED
    BY <2>2, <2>7
<1>11. CASE \/ Quiet \/ Acquire \/ Halts \/ Damages
            \/ \E c, v : Wakes(c, v)
            \/ \E why : Fails(why)
            \/ \E state, success : Serves(state, success)
            \/ \E success : Resends(success)
  <2>1. model' = model
    BY <1>11, CoreAcquire DEF Quiet, Halts, Damages, Wakes, Fails, Serves, Resends, SimRests
  <2> QED
    BY <1>5, <2>1
<1> QED
  BY StepKinds, <1>6, <1>7, <1>8, <1>9, <1>10, <1>11

\* They are at first.
LEMMA ClosesInit ==
  ASSUME Init
  PROVE  SimCloses(model)
<1>1. PICK class : model = NewModel(class)
  BY DEF Init
<1>2. /\ model.up = Zero(UpFields) /\ model.down = Zero(DownFields) /\ model.term = Zero(TermFields)
      /\ model.inputs = {} /\ model.terminal_logged = FALSE /\ model.vehicle_seen = "NONE"
  BY <1>1 DEF NewModel
<1>3. /\ \A q \in UpFields : model.up[q] = 0
      /\ \A q \in DownFields : model.down[q] = 0
      /\ \A q \in TermFields : model.term[q] = 0
  BY <1>2 DEF Zero
<1>4. Cardinality(model.inputs) = 0
  BY <1>2, FS_EmptySet
<1>5. /\ model.up["generated"] = 0 /\ model.up["intentionally_lost"] = 0
      /\ model.up["transmitted"] = 0 /\ model.up["sensor_tx_fail"] = 0
  BY <1>3 DEF UpFields
<1>6. /\ model.down["received"] = 0 /\ model.down["actuator_selected"] = 0
      /\ model.down["intentionally_lost"] = 0 /\ model.down["superseded"] = 0
  BY <1>3 DEF DownFields
<1>7. /\ model.term["up_attempts"] = 0 /\ model.term["up_intentionally_lost"] = 0
      /\ model.term["up_tx_fail"] = 0 /\ model.term["up_transmitted"] = 0
      /\ model.term["down_received_raw"] = 0 /\ model.term["down_intentionally_lost"] = 0
      /\ model.term["down_survived"] = 0
  BY <1>3 DEF TermFields
<1>8. (0 > 0) = FALSE
  OBVIOUS
<1>9. model.terminal_logged = (model.term["up_transmitted"] > 0)
  BY <1>2, <1>7, <1>8, Zenon
<1>10. (model.vehicle_seen # "NONE") = FALSE
  BY <1>2
<1>11. (model.vehicle_seen # "NONE") = (model.term["down_survived"] > 0)
  BY <1>7, <1>8, <1>10, Zenon
<1>12. 0 = 0 + 0 + 0 /\ 0 = 0 + 0
  OBVIOUS
<1> QED
  BY <1>4, <1>5, <1>6, <1>7, <1>9, <1>11, <1>12, Zenon DEF SimCloses

\* Where every reply is, and that the simulator's books close, in every run.
THEOREM FreerunReplies == Spec => [](DownOk /\ SimCloses(model))
<1>1. Init => DownOk /\ SimCloses(model)
  BY DownInit, ClosesInit
<1>2. Core /\ EndsOk /\ UpOk /\ DownOk /\ SimCloses(model) /\ [Next]_vars => DownOk' /\ SimCloses(model)'
  BY DownNext, ClosesNext
<1> QED
  BY <1>1, <1>2, FreerunSamples, PTL DEF Spec

\* Without a fault, the receipts of both links are complete at the end.
LEMMA ReceiptsComplete ==
  ASSUME Core, EndsOk, UpOk, DownOk, SimCloses(model), spc = "done", vpc = "exited", vcode = 0,
         faults = <<>>
  PROVE  /\ uplink_receipt(r, model) /\ downlink_receipt(r, model)
         /\ SimCloses(model) /\ LinkSound(r, model)
<1>1. r \in RuntimeType /\ model \in ModelType
  BY DEF Core, Typed
<1> DEFINE l == r.admission.last_normal_tick
           x == model.last_received_tick
<1>2. uplink_receipt(r, model)
  <2>1. PICK G : Sampled(G)
    BY DEF UpOk
  <2>2. /\ G \subseteq model.inputs /\ IsFiniteSet(G) /\ Cardinality(G) = r.admission.episode["received"]
        /\ \A t \in G : r.tick_base <= t /\ t <= l
        /\ IF G = {} THEN l = -1 ELSE l \in G
    BY <2>1 DEF Sampled, Tallies
  <2>3. Ticked(uplink) = {} /\ ~Pend
    <3>1. uplink = <<>>
      BY DEF UpOk
    <3> QED
      BY <3>1 DEF Ticked, Pend
  <2>4. \A t \in model.inputs : t \in G \/ t > l
    BY <2>1, <2>3 DEF Sampled, Traced
  <2>5. l \in Int /\ model.inputs \subseteq Nat
    BY <1>1 DEF RuntimeType, AdmissionType, ModelType
  <2>6. Within(r, model.inputs, l) = G
    BY <2>2, <2>4, <2>5 DEF Within
  <2>7. (Cardinality(G) = 0) <=> (G = {})
    BY <2>2, FS_EmptySet
  <2> QED
    BY <2>2, <2>6, <2>7 DEF uplink_receipt
<1>3. Delivery(model.down, x, downlink, SentTicks(r), TRUE)
  <2>1. (spc = "done") = TRUE
    OBVIOUS
  <2> QED
    BY <2>1 DEF DownOk
<1>4. downlink_receipt(r, model)
  <2>1. PICK H : Answers(H, model.down, x, downlink, SentTicks(r), TRUE)
    BY <1>3 DEF Delivery
  <2>2. /\ H \subseteq SentTicks(r) /\ IsFiniteSet(H) /\ Cardinality(H) = model.down["received"]
        /\ \A t \in H : t <= x
        /\ IF H = {} THEN x = -1 ELSE x \in H
        /\ \A t \in SentTicks(r) : t \in H \/ t \in NormalTicks(downlink) \/ t > x
    BY <2>1 DEF Answers
  <2>3. \A t \in NormalTicks(downlink) : t > x
    BY <1>3 DEF Delivery, Lined, NormalTicks
  <2>4. x \in Int /\ SentTicks(r) \subseteq Nat
    BY <1>1, SentBefore DEF DownOk, ModelType
  <2>5. \A t \in SentTicks(r) : r.tick_base <= t
    <3>1. r.controls \in Seq(ControlType) /\ r.tick_base \in Nat
      BY <1>1 DEF RuntimeType
    <3>2. \A i \in DOMAIN r.controls : r.controls[i].tick = r.tick_base + i - 1 /\ i \in Nat /\ i >= 1
      BY <3>1 DEF DownOk, Numbered
    <3>3. \A i \in Nat : i >= 1 => r.tick_base <= r.tick_base + i - 1
      BY <3>1
    <3> QED
      BY <3>2, <3>3 DEF SentTicks
  <2>6. Within(r, SentTicks(r), x) = H
    BY <2>2, <2>3, <2>4, <2>5 DEF Within
  <2>7. (Cardinality(H) = 0) <=> (H = {})
    BY <2>2, FS_EmptySet
  <2> QED
    BY <2>2, <2>6, <2>7 DEF downlink_receipt
<1>5. LinkSound(r, model)
  <2>1. ~r.admission.integrity
    BY DEF EndsOk, ExitedWell
  <2> DEFINE a == r.admission
  <2>2. a \in AdmissionType /\ Accused(a)
    BY <1>1 DEF RuntimeType, Core, Admitting
  <2>3. /\ a.episode["malformed"] \in Nat /\ a.episode["skew_excess"] \in Nat
        /\ a.terminals["skew_excess"] \in Nat
    BY <2>2 DEF AdmissionType, CountFields, TerminalFields
  <2>4. /\ a.episode["malformed"] = 0 /\ a.episode["skew_excess"] = 0 /\ a.terminals["skew_excess"] = 0
    BY <2>1, <2>2, <2>3, SMTT(30) DEF Accused
  <2>5. /\ \A q \in {"conflict", "future_expired", "nonfinite"} : a.episode[q] = 0
        /\ \A q \in {"conflict", "future_expired", "illegal_reason"} : a.terminals[q] = 0
    BY <2>2 DEF Accused
  <2>6. model.down["malformed"] = 0
    BY <1>3 DEF Delivery
  <2> QED
    BY <2>4, <2>5, <2>6 DEF LinkSound
<1> QED
  BY <1>2, <1>4, <1>5

\* DelaysAreNotLosses, for every skew, batch and delay: without a fault, and
\* with both exit codes 0, the receipts of reconcile_freerun are complete, the
\* simulator's counters close and the link is sound.
THEOREM DelaysAreNotLossesHolds == Spec => []DelaysAreNotLosses
<1>1. Core /\ EndsOk /\ UpOk /\ DownOk /\ SimCloses(model) => DelaysAreNotLosses
  BY ReceiptsComplete DEF DelaysAreNotLosses
<1> QED
  BY <1>1, FreerunSamples, FreerunReplies, PTL

\* The records: what a batch may hold, and only the last one may be final.
Paged(rt) ==
    \A n \in DOMAIN rt.controls :
        /\ rt.controls[n].rx_count <= IF n = 1 THEN RxMax + 1 ELSE RxMax
        /\ (rt.controls[n].state = "TERMINATED") <=> (n = Len(rt.controls) /\ Over(rt))

\* The recorded window begins after the warm-up.
Warm(a) ==
    IF a.cycles > Warmup THEN a.warmup_occupancy \in Nat
    ELSE a.warmup_occupancy = -1 /\ a.recorded = Zero(CountFields)

\* The final reply and its copies.
Copied(rt) ==
    /\ rt.terminal_cycle = IF Over(rt) THEN 1 ELSE 0
    /\ rt.term_attempts = rt.term_sent + rt.term_failed
    /\ IF Over(rt)
       THEN /\ rt.controls # <<>> /\ rt.term_attempts >= 1
            /\ rt.first_terminal_tx_ok <=> rt.controls[Len(rt.controls)].sent
            /\ rt.term_sent > 0 \/ ~rt.first_terminal_tx_ok
            /\ rt.term_failed > 0 \/ rt.first_terminal_tx_ok
       ELSE rt.term_attempts = 0

\* Both windows against the recording; a cycle that is not recorded yet is a
\* charge on the counters.
Dues(a, busy) == IF busy THEN Charge(a) ELSE NoCharge
EpisodeBooks(rt, busy) ==
    /\ Outputs(rt.episode_window, rt.controls)
    /\ Inputs(rt.admission.episode, Dues(rt.admission, busy), rt.admission.terminals["received_raw"],
              rt.controls)
RecordedBooks(rt, busy) ==
    /\ Outputs(rt.recorded_window, RecordedRows(rt))
    /\ Inputs(rt.admission.recorded, Dues(rt.admission, busy), rt.terminal_received_recorded,
              RecordedRows(rt))
    /\ rt.discarded + (IF busy THEN rt.admission.discard_count ELSE 0) = Spilled(rt.admission.recorded)
    /\ Len(rt.controls) <= Warmup => rt.recorded_window = Zero(WindowFields)

\* The cycle under way.
Charged(rt) ==
    /\ rt.admission.counts["consumed"] = IF rt.admission.fresh THEN 1 ELSE 0
    /\ rt.admission.rx_count <= IF rt.controls = <<>> THEN RxMax + 1 ELSE RxMax

Measured(rt, busy) ==
    /\ Paged(rt) /\ Continuous(rt.controls) /\ Warm(rt.admission) /\ Copied(rt)
    /\ EpisodeBooks(rt, busy) /\ RecordedBooks(rt, busy /\ Recording(rt))
    /\ busy => Charged(rt)

\* A runtime that differs only in its failure is measured alike.
LEMMA MeasuredBroken ==
  ASSUME NEW rt, NEW z, NEW why, NEW busy \in BOOLEAN, Broken(rt, z, why), Measured(rt, busy)
  PROVE  Measured(z, busy)
<1>1. Over(z) = Over(rt) /\ Recording(z) = Recording(rt) /\ RecordedRows(z) = RecordedRows(rt)
  BY DEF Broken, Over, Recording, RecordedRows
<1>2. Paged(z)
  BY <1>1 DEF Broken, Measured, Paged
<1>3. Copied(z)
  BY <1>1 DEF Broken, Measured, Copied
<1>4. EpisodeBooks(z, busy) /\ Continuous(z.controls) /\ Warm(z.admission) /\ (busy => Charged(z))
  BY DEF Broken, Measured, EpisodeBooks, Charged
<1>5. RecordedBooks(z, busy /\ Recording(z))
  BY <1>1 DEF Broken, Measured, RecordedBooks
<1> QED
  BY <1>2, <1>3, <1>4, <1>5 DEF Measured

\* A copy of the final reply only moves its counters.
LEMMA MeasuredResent ==
  ASSUME NEW rt \in RuntimeType, NEW z, NEW success \in BOOLEAN, CopySent(rt, z, success), Over(rt),
         Measured(rt, FALSE)
  PROVE  Measured(z, FALSE)
<1>1. Over(z) = Over(rt) /\ RecordedRows(z) = RecordedRows(rt)
  BY DEF CopySent, Over, RecordedRows
<1>2. Paged(z)
  BY <1>1 DEF CopySent, Measured, Paged
<1>3. Copied(z)
  <2> DEFINE a == rt.term_attempts
             b == rt.term_sent
             c == rt.term_failed
             b1 == b + (IF success THEN 1 ELSE 0)
             c1 == c + (IF success THEN 0 ELSE 1)
  <2>1. a \in Nat /\ b \in Nat /\ c \in Nat
    BY DEF RuntimeType
  <2>2. /\ a = b + c /\ a >= 1 /\ rt.controls # <<>>
        /\ rt.first_terminal_tx_ok <=> rt.controls[Len(rt.controls)].sent
        /\ b > 0 \/ ~rt.first_terminal_tx_ok
        /\ c > 0 \/ rt.first_terminal_tx_ok
        /\ rt.terminal_cycle = 1
    BY DEF Measured, Copied
  <2>3. z.term_attempts = a + 1 /\ z.term_sent = b1 /\ z.term_failed = c1
    BY DEF CopySent
  <2> HIDE DEF a, b, c
  <2>4. a + 1 = b1 + c1 /\ a + 1 >= 1 /\ (b > 0 => b1 > 0) /\ (c > 0 => c1 > 0)
    BY <2>1, <2>2
  <2> HIDE DEF b1, c1
  <2>5. /\ z.term_attempts = z.term_sent + z.term_failed /\ z.term_attempts >= 1
        /\ b > 0 => z.term_sent > 0
        /\ c > 0 => z.term_failed > 0
    BY <2>3, <2>4
  <2>6. /\ z.controls = rt.controls /\ z.first_terminal_tx_ok = rt.first_terminal_tx_ok
        /\ z.terminal_cycle = rt.terminal_cycle
    BY DEF CopySent
  <2> QED
    BY <1>1, <2>2, <2>5, <2>6 DEF Copied
<1>4. EpisodeBooks(z, FALSE) /\ Continuous(z.controls) /\ Warm(z.admission)
  BY DEF CopySent, Measured, EpisodeBooks
<1>5. RecordedBooks(z, FALSE)
  BY <1>1 DEF CopySent, Measured, RecordedBooks
<1> QED
  BY <1>2, <1>3, <1>4, <1>5 DEF Measured

\* Before the first cycle everything is zero.
Blank(rt) ==
    /\ rt.controls = <<>> /\ rt.admission = NewAdmission(rt.tick_base) /\ rt.tick_base \in Nat
    /\ rt.episode_window = Zero(WindowFields) /\ rt.recorded_window = Zero(WindowFields)
    /\ rt.discarded = 0 /\ rt.terminal_received_recorded = 0 /\ rt.terminal_cycle = 0
    /\ rt.term_attempts = 0 /\ rt.term_sent = 0 /\ rt.term_failed = 0 /\ ~Over(rt)

\* The recording and the counters agree there.
LEMMA MeasuredBlank ==
  ASSUME NEW rt, Blank(rt), SkewMax <= MaxSkew
  PROVE  Measured(rt, FALSE)
<1> DEFINE a == rt.admission
           c == Zero(CountFields)
           w == Zero(WindowFields)
<1>1. /\ a.cycles = 0 /\ a.episode = c /\ a.recorded = c /\ a.warmup_occupancy = -1
      /\ a.terminals["received_raw"] = 0
  BY NewAdmissionFacts DEF Blank
<1>2. /\ \A q \in CountFields : c[q] = 0
      /\ \A q \in WindowFields : w[q] = 0
  BY DEF Zero
<1>3. Outputs(w, <<>>)
  <2>1. /\ \A q \in Rungs : w[q] = 0
        /\ w["served"] = 0 /\ w["sent"] = 0 /\ w["failed"] = 0
    BY <1>2 DEF WindowFields
  <2> QED
    BY <2>1, NothingCounted DEF Outputs
<1>4. /\ c["consumed"] = 0 /\ c["old"] = 0 /\ c["superseded"] = 0 /\ c["nonfinite"] = 0
      /\ c["skew_excess"] = 0 /\ c["received"] = 0 /\ c["malformed"] = 0
  BY <1>2 DEF CountFields
<1>5. Inputs(c, NoCharge, 0, <<>>)
  <2>1. /\ NoCharge.consumed = 0 /\ NoCharge.old = 0 /\ NoCharge.superseded = 0 /\ NoCharge.other = 0
        /\ NoCharge.rx = 0
    BY DEF NoCharge
  <2>2. 0 - 0 = 0 /\ 0 + 0 - 0 = 0 /\ 0 + 0 + 0 - 0 = 0
    OBVIOUS
  <2> QED
    BY <1>4, <2>1, <2>2, NothingCounted, Zenon DEF Inputs
<1>6. RecordedRows(rt) = <<>> /\ Len(rt.controls) = 0 /\ DOMAIN rt.controls = {}
  BY AdmissionAssumption DEF Blank, RecordedRows
<1>7. Paged(rt) /\ Continuous(rt.controls) /\ Copied(rt)
  BY <1>6 DEF Paged, Continuous, Copied, Blank
<1>8. Warm(a)
  <2>1. ~(a.cycles > Warmup)
    BY <1>1, AdmissionAssumption
  <2> QED
    BY <1>1, <2>1 DEF Warm
<1>9. EpisodeBooks(rt, FALSE)
  BY <1>1, <1>3, <1>5 DEF EpisodeBooks, Dues, Blank
<1>10. RecordedBooks(rt, FALSE)
  <2>1. rt.discarded + (IF FALSE THEN a.discard_count ELSE 0) = Spilled(a.recorded)
    <3>1. 0 + 0 = 0 + 0 + 0 + 0
      OBVIOUS
    <3>2. Spilled(c) = 0 + 0 + 0 + 0
      BY <1>4, Zenon DEF Spilled
    <3> QED
      BY <1>1, <3>1, <3>2 DEF Blank
  <2>2. Len(rt.controls) <= Warmup => rt.recorded_window = Zero(WindowFields)
    BY DEF Blank
  <2>3. Outputs(rt.recorded_window, RecordedRows(rt))
    BY <1>3, <1>6 DEF Blank
  <2>4. Inputs(a.recorded, Dues(a, FALSE), rt.terminal_received_recorded, RecordedRows(rt))
    BY <1>1, <1>5, <1>6 DEF Dues, Blank
  <2> QED
    BY <2>1, <2>2, <2>3, <2>4 DEF RecordedBooks
<1> QED
  BY <1>7, <1>8, <1>9, <1>10 DEF Measured

\* What two counts spill together.
LEMMA SpilledAdd ==
  ASSUME NEW c \in [CountFields -> Nat], NEW d \in [CountFields -> Nat]
  PROVE  /\ Spilled(Add(c, d)) = Spilled(c) + Spilled(d) /\ Spilled(c) \in Nat /\ Spilled(d) \in Nat
<1> DEFINE z == Add(c, d)
<1>1. \A q \in CountFields : z[q] = c[q] + d[q]
  BY DEF Add
<1> HIDE DEF z
<1> DEFINE c1 == c["old"] c2 == c["superseded"] c3 == c["nonfinite"] c4 == c["skew_excess"]
           d1 == d["old"] d2 == d["superseded"] d3 == d["nonfinite"] d4 == d["skew_excess"]
           z1 == z["old"] z2 == z["superseded"] z3 == z["nonfinite"] z4 == z["skew_excess"]
<1>2. z1 = c1 + d1 /\ z2 = c2 + d2 /\ z3 = c3 + d3 /\ z4 = c4 + d4
  BY <1>1 DEF CountFields
<1>3. /\ c1 \in Nat /\ c2 \in Nat /\ c3 \in Nat /\ c4 \in Nat
      /\ d1 \in Nat /\ d2 \in Nat /\ d3 \in Nat /\ d4 \in Nat
  BY BookType
<1>4. /\ Spilled(c) = c1 + c2 + c3 + c4 /\ Spilled(d) = d1 + d2 + d3 + d4
      /\ Spilled(z) = z1 + z2 + z3 + z4
  BY DEF Spilled
<1> HIDE DEF c1, c2, c3, c4, d1, d2, d3, d4, z1, z2, z3, z4
<1>5. /\ z1 + z2 + z3 + z4 = (c1 + c2 + c3 + c4) + (d1 + d2 + d3 + d4)
      /\ c1 + c2 + c3 + c4 \in Nat /\ d1 + d2 + d3 + d4 \in Nat
  BY <1>2, <1>3
<1> QED
  BY <1>4, <1>5 DEF z

\* A cycle of the admission is a charge on the counters of both windows.
LEMMA MeasuredAdmitted ==
  ASSUME NEW rt \in RuntimeType, NEW c, NEW v, NEW P \in SUBSET SimFrames,
         Cycled(rt.admission, c, v, P), Admitting(rt, FALSE), Measured(rt, FALSE),
         Len(v) <= RxLimit(rt.admission)
  PROVE  Measured(Admitted(rt, c), TRUE)
<1> DEFINE a == rt.admission
           z == Admitted(rt, c)
           n == c.terminals["received_raw"] - a.terminals["received_raw"]
           rows == rt.controls
<1>1. /\ c \in AdmissionType /\ a \in AdmissionType /\ Booked(a, c, Len(v)) /\ c.cycles = a.cycles + 1
      /\ a.cycles = Len(rows) /\ Window(a) /\ rows \in Seq(ControlType)
      /\ rt.terminal_received_recorded \in Nat /\ rt.discarded \in Nat
  <2>1. a.cycles = Len(rows) + 0 /\ Len(rows) \in Nat
    BY DEF Admitting, RuntimeType
  <2> QED
    BY <2>1 DEF Cycled, Admitting, Sound, RuntimeType
<1>2. c.latch \in SimFrames \union {NoFrame}
  BY DEF Cycled, Kept, Remembered
<1>3. /\ a.terminals["received_raw"] \in Nat /\ c.terminals["received_raw"] \in Nat
      /\ c.terminals["received_raw"] >= a.terminals["received_raw"]
  BY <1>1, TallyType DEF Booked
<1>4. /\ z \in RuntimeType /\ Unserved(rt, z) /\ z.admission = c
      /\ z.terminal_received_recorded = rt.terminal_received_recorded + (IF Recording(rt) THEN n ELSE 0)
  BY <1>1, <1>2, <1>3, AdmittedFacts
<1>5. /\ n \in Int /\ a.terminals["received_raw"] + n = c.terminals["received_raw"]
  BY <1>3
<1>6. c.rx_count = c.counts["received"] + c.counts["malformed"] + n
  BY <1>1 DEF Booked
<1>7. a.episode \in [CountFields -> Nat] /\ a.recorded \in [CountFields -> Nat] /\ c.counts \in [CountFields -> Nat]
      /\ a.cycles \in Nat /\ c.discard_count \in Nat
  BY <1>1 DEF AdmissionType
<1> HIDE DEF z, n
<1>8. /\ z.controls = rows /\ z.episode_window = rt.episode_window /\ z.recorded_window = rt.recorded_window
      /\ z.discarded = rt.discarded /\ Over(z) = Over(rt) /\ Recording(z) = Recording(rt)
      /\ RecordedRows(z) = RecordedRows(rt)
  BY <1>4 DEF Unserved, Over, Recording, RecordedRows
<1>9. Paged(z) /\ Continuous(z.controls) /\ Copied(z)
  BY <1>4, <1>8 DEF Measured, Paged, Copied, Unserved
<1>10. Warm(c)
  <2>1. CASE a.cycles > Warmup
    <3>1. c.cycles > Warmup /\ a.cycles # Warmup
      BY <1>1, <1>7, <2>1, AdmissionAssumption
    <3>2. a.warmup_occupancy \in Nat
      BY <2>1 DEF Measured, Warm
    <3> QED
      BY <1>1, <3>1, <3>2 DEF Warm, Booked
  <2>2. CASE a.cycles = Warmup
    <3>1. c.cycles > Warmup
      BY <1>1, <1>7, <2>2, AdmissionAssumption
    <3>2. future_parked(a) \in Nat
      <4>1. IsFiniteSet({f \in a.future : ~IsTerminal(f)})
        BY <1>1, FS_Subset DEF Window
      <4> QED
        BY <4>1, FS_CardinalityType DEF future_parked, ParkedIn
    <3> QED
      BY <1>1, <2>2, <3>1, <3>2 DEF Warm, Booked
  <2>3. CASE a.cycles < Warmup
    <3>1. ~(c.cycles > Warmup) /\ a.cycles # Warmup /\ ~(a.cycles >= Warmup) /\ ~(a.cycles > Warmup)
      BY <1>1, <1>7, <2>3, AdmissionAssumption
    <3> QED
      BY <1>1, <3>1 DEF Warm, Booked, Measured
  <2> QED
    BY <1>7, <2>1, <2>2, <2>3, AdmissionAssumption
<1>11. EpisodeBooks(z, TRUE)
  <2>1. Inputs(a.episode, NoCharge, a.terminals["received_raw"], rows) /\ Outputs(rt.episode_window, rows)
    BY DEF Measured, EpisodeBooks, Dues
  <2>2. a.terminals["received_raw"] \in Int
    BY <1>3
  <2>3. Inputs(Add(a.episode, c.counts), Charge(c), a.terminals["received_raw"] + n, rows)
    BY <1>1, <1>5, <1>6, <1>7, <2>1, <2>2, InputsCharged
  <2>4. Inputs(c.episode, Charge(c), c.terminals["received_raw"], rows)
    BY <1>1, <1>5, <2>3 DEF Booked
  <2> QED
    BY <1>4, <1>8, <2>1, <2>4 DEF EpisodeBooks, Dues
<1>12. RecordedBooks(z, TRUE /\ Recording(z))
  <2> DEFINE e == rt.terminal_received_recorded
             s == RecordedRows(rt)
  <2>1. /\ Inputs(a.recorded, NoCharge, e, s) /\ Outputs(rt.recorded_window, s)
        /\ rt.discarded + 0 = Spilled(a.recorded)
        /\ Len(rows) <= Warmup => rt.recorded_window = Zero(WindowFields)
    <3>1. (FALSE /\ Recording(rt)) = FALSE
      OBVIOUS
    <3>2. RecordedBooks(rt, FALSE)
      BY <3>1 DEF Measured
    <3> QED
      BY <3>2 DEF RecordedBooks, Dues
  <2>2. CASE Recording(rt)
    <3>1. a.cycles >= Warmup
      BY <1>1, <2>2 DEF Recording
    <3>2. c.recorded = Add(a.recorded, c.counts) /\ c.discard_count = Spilled(c.counts)
      BY <1>1, <3>1 DEF Booked
    <3>3. e \in Int
      BY <1>1
    <3>4. z.terminal_received_recorded = e + n
      BY <1>4, <2>2
    <3> HIDE DEF e, s
    <3>5. Inputs(Add(a.recorded, c.counts), Charge(c), e + n, s)
      BY <1>1, <1>5, <1>6, <1>7, <2>1, <3>3, InputsCharged
    <3>6. rt.discarded + c.discard_count = Spilled(c.recorded)
      <4>1. Spilled(Add(a.recorded, c.counts)) = Spilled(a.recorded) + Spilled(c.counts)
        BY <1>7, SpilledAdd
      <4>2. rt.discarded + 0 = rt.discarded
        BY <1>1
      <4> QED
        BY <2>1, <3>2, <4>1, <4>2
    <3>7. (TRUE /\ Recording(z)) = TRUE
      BY <1>8, <2>2
    <3>8. RecordedBooks(z, TRUE)
      <4>1. Inputs(z.admission.recorded, Dues(z.admission, TRUE), z.terminal_received_recorded, RecordedRows(z))
        BY <1>4, <1>8, <3>2, <3>4, <3>5 DEF Dues, s
      <4>2. z.discarded + (IF TRUE THEN z.admission.discard_count ELSE 0) = Spilled(z.admission.recorded)
        BY <1>4, <1>8, <3>6
      <4>3. Outputs(z.recorded_window, RecordedRows(z))
        BY <1>8, <2>1 DEF s
      <4>4. Len(z.controls) <= Warmup => z.recorded_window = Zero(WindowFields)
        BY <1>8, <2>1
      <4> QED
        BY <4>1, <4>2, <4>3, <4>4 DEF RecordedBooks
    <3> QED
      BY <3>7, <3>8
  <2>3. CASE ~Recording(rt)
    <3>1. ~(a.cycles >= Warmup)
      BY <1>1, <2>3 DEF Recording
    <3>2. c.recorded = a.recorded
      BY <1>1, <3>1 DEF Booked
    <3>3. z.terminal_received_recorded = e
      <4>1. e + 0 = e
        BY <1>1
      <4> QED
        BY <1>4, <2>3, <4>1
    <3>4. (TRUE /\ Recording(z)) = FALSE
      BY <1>8, <2>3
    <3>5. RecordedBooks(z, FALSE)
      BY <1>4, <1>8, <2>1, <3>2, <3>3 DEF RecordedBooks, Dues
    <3> QED
      BY <3>4, <3>5
  <2> QED
    BY <2>2, <2>3
<1>13. Charged(z)
  <2>1. Len(rows) \in Nat /\ (Len(rows) = 0 <=> rows = <<>>)
    BY <1>1
  <2>2. c.rx_count <= IF rows = <<>> THEN RxMax + 1 ELSE RxMax
    BY <1>1, <2>1 DEF Booked, RxLimit
  <2> QED
    BY <1>1, <1>4, <1>8, <2>2 DEF Charged, Booked
<1> QED
  BY <1>4, <1>9, <1>10, <1>11, <1>12, <1>13 DEF Measured, z

\* The rows after the warm-up grow with the recording.
LEMMA RecordedNext ==
  ASSUME NEW S, NEW rows \in Seq(S), NEW x \in S
  PROVE  LET old == SubSeq(rows, Warmup + 1, Len(rows))
             new == SubSeq(Append(rows, x), Warmup + 1, Len(Append(rows, x)))
         IN  /\ old \in Seq(S)
             /\ IF Len(rows) >= Warmup THEN new = Append(old, x) ELSE new = <<>> /\ old = <<>>
<1> DEFINE n == Len(rows)
           v == Append(rows, x)
           old == SubSeq(rows, Warmup + 1, n)
           new == SubSeq(v, Warmup + 1, n + 1)
<1>1. /\ n \in Nat /\ Warmup \in Nat /\ v \in Seq(S) /\ Len(v) = n + 1 /\ v[n + 1] = x
      /\ \A i \in 1 .. n : v[i] = rows[i]
  BY AdmissionAssumption
<1> HIDE DEF v
<1>2. old \in Seq(S) /\ new \in Seq(S)
  BY <1>1
<1>3. CASE n >= Warmup
  <2>1. Len(old) = n - Warmup /\ \A i \in 1 .. n - Warmup : old[i] = rows[Warmup + i]
    BY <1>1, <1>3
  <2>2. Len(new) = n + 1 - Warmup /\ \A i \in 1 .. n + 1 - Warmup : new[i] = v[Warmup + i]
    BY <1>1, <1>3
  <2> DEFINE w == Append(old, x)
  <2> HIDE DEF old, new, n
  <2>3. /\ w \in Seq(S) /\ Len(w) = n + 1 - Warmup /\ w[n + 1 - Warmup] = x
        /\ \A i \in 1 .. n - Warmup : w[i] = old[i]
    BY <1>1, <1>2, <1>3, <2>1
  <2> HIDE DEF w
  <2>4. ASSUME NEW i \in 1 .. n + 1 - Warmup PROVE new[i] = w[i]
    <3>1. CASE i = n + 1 - Warmup
      <4>1. Warmup + i = n + 1
        BY <1>1, <3>1
      <4> QED
        BY <1>1, <2>2, <2>3, <3>1, <4>1
    <3>2. CASE i # n + 1 - Warmup
      <4>1. i \in 1 .. n - Warmup /\ Warmup + i \in 1 .. n
        BY <1>1, <1>3, <3>2
      <4> QED
        BY <1>1, <2>1, <2>2, <2>3, <4>1 DEF n
    <3> QED
      BY <3>1, <3>2
  <2>5. Len(new) = Len(w)
    BY <2>2, <2>3
  <2>6. new = w
    BY <1>2, <2>2, <2>3, <2>4, <2>5
  <2> QED
    BY <1>1, <1>2, <1>3, <2>6 DEF w, v, old, new, n
<1>4. CASE ~(n >= Warmup)
  <2>1. Len(old) = 0 /\ Len(new) = 0
    BY <1>1, <1>4
  <2>2. old = <<>> /\ new = <<>>
    BY <1>2, <2>1
  <2> QED
    BY <1>1, <1>2, <1>4, <2>2 DEF v
<1> QED
  BY <1>3, <1>4

\* The record of a cycle follows the one before.
LEMMA ServedFollows ==
  ASSUME NEW rt \in RuntimeType, Admitting(rt, TRUE), rt.admission.held \in SimFrames \union {NoFrame},
         Continuous(rt.controls), NEW x \in ControlType, x.tick = Now(rt),
         x.sensor_tick = rt.admission.held.tick, x.fresh = rt.admission.fresh,
         x.staleness = staleness(rt.admission)
  PROVE  Continuous(Append(rt.controls, x))
<1> DEFINE a == rt.admission
           rows == rt.controls
           v == Append(rows, x)
           l == Len(rows)
<1>1. /\ a \in AdmissionType /\ rows \in Seq(ControlType) /\ l \in Nat /\ rt.tick_base \in Nat
      /\ a.held \in MaybeFrame /\ rt.tick_base \in Int
  <2>1. a \in AdmissionType /\ rows \in Seq(ControlType) /\ rt.tick_base \in Nat
    BY DEF RuntimeType
  <2>2. a.held \in MaybeFrame
    BY <2>1 DEF AdmissionType
  <2> QED
    BY <2>1, <2>2
<1>2. /\ DOMAIN rows = 1 .. l /\ DOMAIN v = (1 .. l) \union {l + 1} /\ v[l + 1] = x
      /\ \A i \in 1 .. l : v[i] = rows[i] /\ i # l + 1
  BY <1>1, Appended
<1>3. a.held.tick \in Int /\ (a.held.tick = -1 <=> a.held = NoFrame)
  BY <1>1, FrameFacts
<1>4. a.cycles = l + 1 /\ a.expected = Now(rt)
  <2>1. a.cycles = l + 1
    BY DEF Admitting
  <2>2. a.tick_base = rt.tick_base /\ a.expected = a.tick_base + a.cycles - 1
    BY <1>1, <2>1 DEF Admitting
  <2> QED
    BY <1>1, <2>1, <2>2 DEF Now
<1>5. ASSUME NEW n \in 1 .. l PROVE Follows(v, n)
  <2>1. Follows(rows, n)
    BY <1>2 DEF Continuous
  <2>2. HeldBefore(v, n) = HeldBefore(rows, n)
    <3>1. n # 1 => n - 1 \in 1 .. l
      BY <1>1
    <3> QED
      BY <1>2, <3>1 DEF HeldBefore
  <2>3. v[n] = rows[n]
    BY <1>2
  <2> QED
    BY <2>1, <2>2, <2>3 DEF Follows
<1>6. HeldBefore(v, l + 1) = Last(rt)
  <2>1. CASE rows = <<>>
    BY <2>1 DEF HeldBefore, Last, NoTick
  <2>2. CASE rows # <<>>
    <3>1. l + 1 # 1 /\ (l + 1) - 1 = l /\ l \in 1 .. l
      BY <1>1, <2>2
    <3> QED
      BY <1>2, <2>2, <3>1 DEF HeldBefore, Last
  <2> QED
    BY <2>1, <2>2
<1>7. IF x.fresh THEN x.sensor_tick \in Last(rt) + 1 .. x.tick ELSE x.sensor_tick = Last(rt)
  BY DEF Admitting, Presented
<1>8. x.staleness = IF x.sensor_tick = -1 THEN l + 1 ELSE x.tick - x.sensor_tick
  BY <1>3, <1>4 DEF staleness
<1>9. Follows(v, l + 1)
  BY <1>2, <1>6, <1>7, <1>8 DEF Follows
<1> QED
  BY <1>2, <1>5, <1>9 DEF Continuous

\* The record of the cycle pays the charge, in the windows it belongs to.
LEMMA MeasuredServed ==
  ASSUME NEW rt \in RuntimeType, Admitting(rt, TRUE), rt.admission.held \in SimFrames \union {NoFrame},
         ~Over(rt), NEW state \in FreeState, NEW success \in BOOLEAN, NEW z \in RuntimeType,
         CycleServed(rt, z, state, success), Measured(rt, TRUE)
  PROVE  Measured(z, FALSE)
<1> DEFINE a == rt.admission
           rows == rt.controls
           x == Control(rt, state, success)
           v == Append(rows, x)
           l == Len(rows)
           over == state.mode = "TERMINATED"
           fresh == a.fresh
           rung == Rung(a.fresh, staleness(a))
           Record(w) == WindowRecord(w, rung, over, success, fresh)
<1>1. /\ a \in AdmissionType /\ rows \in Seq(ControlType) /\ Ordered(a) /\ l \in Nat
      /\ rt.episode_window \in [WindowFields -> Nat] /\ rt.recorded_window \in [WindowFields -> Nat]
  <2>1. a \in AdmissionType /\ rows \in Seq(ControlType)
    BY DEF RuntimeType
  <2>2. rt.episode_window \in [WindowFields -> Nat] /\ rt.recorded_window \in [WindowFields -> Nat]
    BY DEF RuntimeType
  <2>3. Ordered(a)
    BY DEF Admitting, Sound
  <2>4. l \in Nat
    BY <2>1
  <2> QED
    BY <2>1, <2>2, <2>3, <2>4
<1>2. fresh \in BOOLEAN /\ over \in BOOLEAN
  BY <1>1 DEF AdmissionType
<1>3. /\ x \in ControlType /\ x.tick = Now(rt) /\ x.sensor_tick = a.held.tick
      /\ x.fresh = a.fresh /\ x.staleness = staleness(a) /\ x.rx_count = a.rx_count
      /\ x.old = a.counts["old"] /\ x.superseded = a.counts["superseded"]
      /\ x.other = a.counts["nonfinite"] + a.counts["skew_excess"]
      /\ x.state = state.mode /\ x.sent = success
  BY <1>1, ControlFacts
<1>4. /\ z.admission = a /\ z.controls = v /\ z.state = state
      /\ z.terminal_received_recorded = rt.terminal_received_recorded
      /\ z.episode_window = Record(rt.episode_window)
      /\ z.recorded_window = IF Recording(rt) THEN Record(rt.recorded_window) ELSE rt.recorded_window
      /\ z.discarded = rt.discarded + (IF Recording(rt) THEN a.discard_count ELSE 0)
  BY DEF CycleServed
<1>5. /\ z.terminal_cycle = (IF over THEN 1 ELSE 0) /\ z.term_attempts = (IF over THEN 1 ELSE 0)
      /\ z.first_terminal_tx_ok <=> (over /\ success)
      /\ z.term_sent = (IF success THEN (IF over THEN 1 ELSE 0) ELSE 0)
      /\ z.term_failed = (IF success THEN 0 ELSE (IF over THEN 1 ELSE 0))
  BY DEF CycleServed
<1>6. Over(z) <=> over
  BY <1>4 DEF Over
<1> HIDE DEF x
<1>7. /\ v \in Seq(ControlType) /\ DOMAIN rows = 1 .. l /\ DOMAIN v = (1 .. l) \union {l + 1} /\ Len(v) = l + 1
      /\ v[l + 1] = x /\ (\A i \in 1 .. l : v[i] = rows[i] /\ i # l + 1)
  BY <1>1, <1>3, Appended
<1>8. Charged(rt) /\ Paged(rt) /\ Continuous(rows) /\ Warm(a) /\ EpisodeBooks(rt, TRUE)
      /\ RecordedBooks(rt, TRUE /\ Recording(rt))
  BY DEF Measured
<1> HIDE DEF v
<1>9. Paged(z)
  <2>1. ASSUME NEW n \in 1 .. l
        PROVE  /\ v[n].rx_count <= (IF n = 1 THEN RxMax + 1 ELSE RxMax)
               /\ (v[n].state = "TERMINATED") <=> (n = Len(v) /\ Over(z))
    <3>1. /\ rows[n].rx_count <= (IF n = 1 THEN RxMax + 1 ELSE RxMax)
          /\ rows[n].state # "TERMINATED"
      BY <1>7, <1>8 DEF Paged
    <3>2. v[n] = rows[n] /\ n # Len(v)
      BY <1>7
    <3> QED
      BY <3>1, <3>2
  <2>2. /\ x.rx_count <= (IF l + 1 = 1 THEN RxMax + 1 ELSE RxMax)
        /\ (x.state = "TERMINATED") <=> (l + 1 = Len(v) /\ Over(z))
    <3>1. l + 1 = 1 <=> rows = <<>>
      BY <1>1
    <3> QED
      BY <1>3, <1>6, <1>7, <1>8, <3>1 DEF Charged
  <2> QED
    BY <1>4, <1>7, <2>1, <2>2 DEF Paged
<1>10. Continuous(z.controls)
  BY <1>3, <1>4, <1>8, ServedFollows DEF v
<1>11. Warm(z.admission)
  BY <1>4, <1>8
<1>12. Copied(z)
  <2>1. z.controls # <<>> /\ z.controls[Len(z.controls)] = x
    <3>1. Len(v) # 0
      BY <1>1, <1>7
    <3>2. v # <<>>
      BY <3>1
    <3> QED
      BY <1>4, <1>7, <3>2
  <2>2. CASE over
    <3>1. z.terminal_cycle = 1 /\ z.term_attempts = 1 /\ (z.first_terminal_tx_ok <=> success)
      BY <1>5, <2>2
    <3>2. CASE success
      <4>1. z.term_sent = 1 /\ z.term_failed = 0
        BY <1>5, <2>2, <3>2
      <4>2. 1 = 1 + 0 /\ 1 >= 1 /\ 1 > 0
        OBVIOUS
      <4>3. z.term_attempts = z.term_sent + z.term_failed /\ z.term_attempts >= 1 /\ z.term_sent > 0
        BY <3>1, <4>1, <4>2
      <4>4. z.first_terminal_tx_ok /\ x.sent
        BY <1>3, <3>1, <3>2
      <4> QED
        BY <1>6, <2>1, <2>2, <3>1, <4>3, <4>4 DEF Copied
    <3>3. CASE ~success
      <4>1. z.term_sent = 0 /\ z.term_failed = 1
        BY <1>5, <2>2, <3>3
      <4>2. 1 = 0 + 1 /\ 1 >= 1 /\ 1 > 0
        OBVIOUS
      <4>3. z.term_attempts = z.term_sent + z.term_failed /\ z.term_attempts >= 1 /\ z.term_failed > 0
        BY <3>1, <4>1, <4>2
      <4>4. ~z.first_terminal_tx_ok /\ ~x.sent
        BY <1>3, <3>1, <3>3
      <4> QED
        BY <1>6, <2>1, <2>2, <3>1, <4>3, <4>4 DEF Copied
    <3> QED
      BY <3>2, <3>3
  <2>3. CASE ~over
    <3>1. z.terminal_cycle = 0 /\ z.term_attempts = 0 /\ z.term_sent = 0 /\ z.term_failed = 0
      BY <1>5, <2>3
    <3>2. 0 = 0 + 0
      OBVIOUS
    <3> QED
      BY <1>6, <2>3, <3>1, <3>2 DEF Copied
  <2> QED
    BY <2>2, <2>3
<1>13. a.counts["consumed"] = (IF x.fresh THEN 1 ELSE 0)
  BY <1>3, <1>8 DEF Charged
<1>14. rung = Rung(x.fresh, x.staleness) /\ (x.state = "TERMINATED" <=> over) /\ (x.sent <=> success) /\ (x.fresh <=> fresh)
  BY <1>3
<1>15. a.episode \in [CountFields -> Nat] /\ a.recorded \in [CountFields -> Nat] /\ a.terminals["received_raw"] \in Int
  <2>1. a.terminals["received_raw"] \in Nat
    BY <1>1, TallyType
  <2> QED
    BY <1>1, <2>1 DEF AdmissionType
<1> HIDE DEF rung, over, fresh
<1>16. EpisodeBooks(z, FALSE)
  <2>1. Outputs(rt.episode_window, rows)
        /\ Inputs(a.episode, Charge(a), a.terminals["received_raw"], rows)
    BY <1>8 DEF EpisodeBooks, Dues
  <2>2. Outputs(Record(rt.episode_window), v)
    BY <1>1, <1>2, <1>3, <1>14, <2>1, OutputsNext DEF v
  <2>3. Inputs(a.episode, NoCharge, a.terminals["received_raw"], v)
    BY <1>1, <1>3, <1>13, <1>15, <2>1, InputsPaid DEF v
  <2> QED
    BY <1>4, <2>2, <2>3 DEF EpisodeBooks, Dues
<1>17. RecordedBooks(z, FALSE)
  <2> DEFINE s == RecordedRows(rt)
             e == rt.terminal_received_recorded
  <2>1. /\ s \in Seq(ControlType)
        /\ IF l >= Warmup THEN RecordedRows(z) = Append(s, x) ELSE RecordedRows(z) = s
    <3>1. RecordedRows(z) = SubSeq(v, Warmup + 1, Len(v)) /\ s = SubSeq(rows, Warmup + 1, Len(rows))
      BY <1>4 DEF RecordedRows
    <3> HIDE DEF s
    <3> QED
      BY <1>1, <1>3, <3>1, RecordedNext DEF v
  <2>2. e \in Int /\ rt.discarded \in Nat /\ a.discard_count \in Nat
    BY <1>1 DEF RuntimeType, AdmissionType
  <2>3. CASE Recording(rt)
    <3>1. l >= Warmup /\ ~(Len(v) <= Warmup)
      BY <1>1, <1>7, <2>3, AdmissionAssumption DEF Recording
    <3>2. (TRUE /\ Recording(rt)) = TRUE
      BY <2>3
    <3>3. RecordedBooks(rt, TRUE)
      BY <1>8, <3>2
    <3>4. /\ Outputs(rt.recorded_window, s) /\ Inputs(a.recorded, Charge(a), e, s)
          /\ rt.discarded + a.discard_count = Spilled(a.recorded)
      BY <3>3 DEF RecordedBooks, Dues
    <3> HIDE DEF s, e
    <3>5. Outputs(Record(rt.recorded_window), Append(s, x))
      BY <1>1, <1>2, <1>3, <1>14, <2>1, <3>4, OutputsNext
    <3>6. Inputs(a.recorded, NoCharge, e, Append(s, x))
      BY <1>1, <1>3, <1>13, <1>15, <2>1, <2>2, <3>4, InputsPaid
    <3>7. z.discarded + (IF FALSE THEN z.admission.discard_count ELSE 0) = Spilled(z.admission.recorded)
      <4>1. z.discarded = rt.discarded + a.discard_count /\ z.admission = a
        BY <1>4, <2>3
      <4>2. (rt.discarded + a.discard_count) + 0 = rt.discarded + a.discard_count
        BY <2>2
      <4> QED
        BY <3>4, <4>1, <4>2
    <3>8. Outputs(z.recorded_window, RecordedRows(z))
      BY <1>4, <2>1, <2>3, <3>1, <3>5
    <3>9. Inputs(z.admission.recorded, Dues(z.admission, FALSE), z.terminal_received_recorded, RecordedRows(z))
      BY <1>4, <2>1, <3>1, <3>6 DEF Dues, e
    <3> QED
      BY <1>4, <3>1, <3>7, <3>8, <3>9 DEF RecordedBooks
  <2>4. CASE ~Recording(rt)
    <3>1. ~(l >= Warmup) /\ l <= Warmup
      BY <1>1, <2>4, AdmissionAssumption DEF Recording
    <3>2. (TRUE /\ Recording(rt)) = FALSE
      BY <2>4
    <3>3. RecordedBooks(rt, FALSE)
      BY <1>8, <3>2
    <3>4. z.discarded + (IF FALSE THEN z.admission.discard_count ELSE 0) = Spilled(z.admission.recorded)
      <4>1. z.discarded = rt.discarded + 0 /\ z.admission = a
        BY <1>4, <2>4
      <4>2. (rt.discarded + 0) + 0 = rt.discarded + 0
        BY <2>2
      <4>3. rt.discarded + 0 = Spilled(a.recorded)
        BY <3>3 DEF RecordedBooks
      <4> QED
        BY <4>1, <4>2, <4>3
    <3>5. z.recorded_window = rt.recorded_window /\ z.recorded_window = Zero(WindowFields)
      BY <1>4, <2>4, <3>1, <3>3 DEF RecordedBooks
    <3>6. RecordedRows(z) = s
      BY <2>1, <3>1
    <3>7. Outputs(z.recorded_window, RecordedRows(z))
      BY <3>3, <3>5, <3>6 DEF RecordedBooks
    <3>8. Inputs(z.admission.recorded, Dues(z.admission, FALSE), z.terminal_received_recorded, RecordedRows(z))
      BY <1>4, <3>3, <3>6 DEF RecordedBooks, Dues
    <3> QED
      BY <3>4, <3>5, <3>7, <3>8 DEF RecordedBooks
  <2> QED
    BY <2>3, <2>4
<1>18. (FALSE /\ Recording(z)) = FALSE
  OBVIOUS
<1> QED
  BY <1>9, <1>10, <1>11, <1>12, <1>16, <1>17, <1>18 DEF Measured

\* Nothing is recorded at first.
LEMMA MeasuredInit ==
  ASSUME Init
  PROVE  Measured(r, vpc = "serve")
<1>1. r = NewRuntime /\ (vpc = "serve") = FALSE
  BY DEF Init
<1>2. Blank(r)
  <2>1. ~Over(r)
    BY <1>1 DEF NewRuntime, Over, initial
  <2> QED
    BY <1>1, <2>1 DEF Blank, NewRuntime
<1>3. Measured(r, FALSE)
  BY <1>2, MeasuredBlank, FreerunAssumption
<1> QED
  BY <1>1, <1>3

\* Every step keeps the recording and the counters in step.
LEMMA MeasuredNext ==
  ASSUME Core, EndsOk, Measured(r, vpc = "serve"), [Next]_vars
  PROVE  Measured(r, vpc = "serve")'
<1>0. r \in RuntimeType /\ Admitting(r, vpc = "serve")
  BY DEF Core, Typed
<1>1. ASSUME r' = r, (vpc' = "serve") <=> (vpc = "serve")
      PROVE  Measured(r, vpc = "serve")'
  <2>1. (vpc' = "serve") = (vpc = "serve")
    BY <1>1
  <2> QED
    BY <1>1, <2>1
<1>2. CASE \/ Quiet \/ Interrupted \/ Body \/ After \/ SimKilled \/ Halts \/ Damages
           \/ \E how : Starts(how)
           \/ \E how : Sends(how)
  <2>1. r' = r /\ ((vpc' = "serve") <=> (vpc = "serve"))
    <3>1. CASE Quiet
      BY <3>1 DEF Quiet
    <3>2. CASE Interrupted \/ Body \/ After \/ SimKilled
      BY <3>2 DEF Interrupted, Body, After, SimKilled, vehicle
    <3>3. CASE Halts
      BY <3>3 DEF Halts
    <3>4. CASE Damages
      BY <3>4 DEF Damages
    <3>5. CASE \E how : Starts(how)
      BY <3>5 DEF Starts, Sending
    <3>6. CASE \E how : Sends(how)
      BY <3>6 DEF Sends, Sending
    <3> QED
      BY <1>2, <3>1, <3>2, <3>3, <3>4, <3>5, <3>6
  <2> QED
    BY <1>1, <2>1
<1>3. CASE Acquire
  <2>1. vpc = "acquire" /\ (Acquires \/ Rejects)
    BY <1>3, CoreAcquire
  <2>2. CASE Rejects
    BY <1>1, <2>1, <2>2 DEF Rejects
  <2>3. CASE Acquires
    <3> DEFINE f == Head(uplink)
    <3>1. f \in SimFrames /\ r' = Acquired(r, f) /\ vpc' = "wake"
      BY <2>3 DEF Acquires
    <3>2. f.tick \in Nat
      BY <3>1 DEF SimFrames
    <3>3. r = [NewRuntime EXCEPT !.failure = r.failure]
      BY <2>1 DEF Core, VehOk
    <3> HIDE DEF f
    <3>4. /\ r.controls = <<>> /\ r.episode_window = Zero(WindowFields)
          /\ r.recorded_window = Zero(WindowFields)
          /\ r.discarded = 0 /\ r.terminal_received_recorded = 0 /\ r.terminal_cycle = 0
          /\ r.term_attempts = 0 /\ r.term_sent = 0 /\ r.term_failed = 0
      BY <3>3 DEF NewRuntime
    <3>5. ~Over(r)
      BY <2>1 DEF Core, VehOk
    <3>6. /\ r'.controls = r.controls /\ r'.episode_window = r.episode_window
          /\ r'.recorded_window = r.recorded_window /\ r'.discarded = r.discarded
          /\ r'.terminal_received_recorded = r.terminal_received_recorded
          /\ r'.terminal_cycle = r.terminal_cycle /\ r'.term_attempts = r.term_attempts
          /\ r'.term_sent = r.term_sent /\ r'.term_failed = r.term_failed /\ r'.state = r.state
          /\ r'.tick_base = f.tick /\ r'.admission = NewAdmission(f.tick)
      BY <1>0, <3>1 DEF Acquired, RuntimeType
    <3>7. Blank(r')
      BY <3>2, <3>4, <3>5, <3>6 DEF Blank, Over
    <3>8. Measured(r', FALSE)
      BY <3>7, MeasuredBlank, FreerunAssumption
    <3>9. (vpc' = "serve") = FALSE
      BY <3>1
    <3> QED
      BY <3>8, <3>9
  <2> QED
    BY <2>1, <2>2, <2>3
<1>4. CASE \E c, v : Wakes(c, v)
  <2>1. PICK c, v : Wakes(c, v)
    BY <1>4
  <2> DEFINE P == Around(r.admission, uplink, carry, model.envelope)
  <2>2. /\ vpc = "wake" /\ vpc' = "serve" /\ r' = Admitted(r, c) /\ Cycled(r.admission, c, v, P)
        /\ v = Cargo(carry, r.controls = <<>>, Drawn(uplink, veh_refused))
    BY <2>1 DEF Wakes
  <2>3. P \in SUBSET SimFrames
    BY DEF Core, PoolOk
  <2>4. Len(v) <= RxLimit(r.admission)
    BY <2>2, CargoKnown
  <2>5. (vpc = "serve") = FALSE /\ (vpc' = "serve") = TRUE
    BY <2>2
  <2>6. Admitting(r, FALSE) /\ Measured(r, FALSE)
    BY <1>0, <2>5
  <2> HIDE DEF P
  <2>7. Measured(Admitted(r, c), TRUE)
    BY <1>0, <2>2, <2>3, <2>4, <2>6, MeasuredAdmitted
  <2> QED
    BY <2>2, <2>5, <2>7
<1>5. CASE \E why : Fails(why)
  <2>1. PICK why : Fails(why)
    BY <1>5
  <2>2. Broken(r, r', why) /\ (vpc = "serve") = FALSE /\ (vpc' = "serve") = FALSE
    BY <2>1 DEF Fails
  <2>3. Measured(r, FALSE)
    BY <2>2
  <2>4. Measured(r', FALSE)
    BY <2>2, <2>3, MeasuredBroken
  <2> QED
    BY <2>2, <2>4
<1>6. CASE \E state, success : Serves(state, success)
  <2>1. PICK state, success : Serves(state, success)
    BY <1>6
  <2>2. /\ vpc = "serve" /\ state \in FreeState /\ r' \in RuntimeType /\ CycleServed(r, r', state, success)
        /\ vpc' \in {"wake", "resend", "after"} /\ success \in BOOLEAN
    BY <2>1 DEF Serves, Replied
  <2>3. /\ Admitting(r, TRUE) /\ ~Over(r) /\ r.admission.held \in SimFrames \union {NoFrame}
    BY <2>2, ServeHeld
  <2>4. (vpc = "serve") = TRUE /\ (vpc' = "serve") = FALSE
    BY <2>2
  <2>5. Measured(r, TRUE)
    BY <2>4
  <2>6. Measured(r', FALSE)
    BY <1>0, <2>2, <2>3, <2>5, MeasuredServed
  <2> QED
    BY <2>4, <2>6
<1>7. CASE \E success : Resends(success)
  <2>1. PICK success : Resends(success)
    BY <1>7
  <2>2. /\ vpc = "resend" /\ CopySent(r, r', success) /\ vpc' \in {"resend", "after"} /\ success \in BOOLEAN
    BY <2>1 DEF Resends, Replied
  <2>3. Over(r)
    BY <2>2 DEF EndsOk
  <2>4. (vpc = "serve") = FALSE /\ (vpc' = "serve") = FALSE
    BY <2>2
  <2>5. Measured(r, FALSE)
    BY <2>4
  <2>6. Measured(r', FALSE)
    BY <1>0, <2>2, <2>3, <2>5, MeasuredResent
  <2> QED
    BY <2>4, <2>6
<1> QED
  BY StepKinds, <1>2, <1>3, <1>4, <1>5, <1>6, <1>7

\* The recording and the counters stay in step, in every run.
THEOREM FreerunMeasured == Spec => []Measured(r, vpc = "serve")
<1>1. Init => Measured(r, vpc = "serve")
  BY MeasuredInit
<1>2. Core /\ EndsOk /\ Measured(r, vpc = "serve") /\ [Next]_vars => Measured(r, vpc = "serve")'
  BY MeasuredNext
<1> QED
  BY <1>1, <1>2, FreerunEnds, PTL DEF Spec

\* The counters of a closed admission close.
LEMMA AccountsClose ==
  ASSUME NEW a \in AdmissionType, ~a.open, Accounts(a), Window(a)
  PROVE  /\ Closes(a.episode, 0, future_parked(a))
         /\ a.cycles > Warmup => Closes(a.recorded, a.warmup_occupancy, future_parked(a))
<1> DEFINE p == future_parked(a)
<1>1. p \in Nat
  <2>1. IsFiniteSet({f \in a.future : ~IsTerminal(f)})
    BY FS_Subset DEF Window
  <2> QED
    BY <2>1, FS_CardinalityType DEF future_parked, ParkedIn
<1> HIDE DEF p
<1>2. Current(a) = 0 /\ Pending(a) = p
  <2>1. Pending(a) = p + 0
    BY DEF Pending, p
  <2> QED
    BY <1>1, <2>1 DEF Current
<1>3. a.episode \in [CountFields -> Nat] /\ a.recorded \in [CountFields -> Nat] /\ a.warmup_occupancy \in Int
  BY DEF AdmissionType
<1>4. Closes(a.episode, 0, p)
  <2> DEFINE x == a.episode["received"]
             y == Dispositions(a.episode)
  <2>1. x \in Nat /\ y \in Nat
    BY <1>3, BalanceType
  <2>2. (x - y) + 0 = p
    BY <1>2 DEF Accounts, Balance
  <2> HIDE DEF x, y
  <2>3. x + 0 = y + p
    BY <1>1, <2>1, <2>2
  <2> QED
    BY <2>3 DEF Closes, x, y
<1>5. ASSUME a.cycles > Warmup PROVE Closes(a.recorded, a.warmup_occupancy, p)
  <2> DEFINE x == a.recorded["received"]
             y == Dispositions(a.recorded)
             o == a.warmup_occupancy
  <2>1. x \in Nat /\ y \in Nat /\ o \in Int
    BY <1>3, BalanceType
  <2>2. (x - y) + 0 + o = p
    BY <1>2, <1>5 DEF Accounts, Balance
  <2> HIDE DEF x, y, o
  <2>3. x + o = y + p
    BY <1>1, <2>1, <2>2
  <2> QED
    BY <2>3 DEF Closes, x, y, o
<1> QED
  BY <1>4, <1>5 DEF p

\* The summary and the recording of a vehicle between two cycles are valid.
LEMMA MeasuredValid ==
  ASSUME NEW rt \in RuntimeType, Admitting(rt, FALSE), Numbered(rt), Measured(rt, FALSE)
  PROVE  validate(rt)
<1> DEFINE a == rt.admission
           rows == rt.controls
           total == Len(rows)
           ended == CountOf(rows, LAMBDA x : x.state = "TERMINATED")
<1>1. /\ a \in AdmissionType /\ rows \in Seq(ControlType) /\ total \in Nat /\ DOMAIN rows = 1 .. total
      /\ ~a.open /\ Accounts(a) /\ Window(a)
  <2>1. a \in AdmissionType /\ rows \in Seq(ControlType)
    BY DEF RuntimeType
  <2> QED
    BY <2>1 DEF Admitting, Sound
<1>2. a.cycles = total
  <2>1. a.cycles = total + 0
    BY DEF Admitting
  <2> QED
    BY <1>1, <2>1
<1>3. /\ Paged(rt) /\ Continuous(rows) /\ Warm(a) /\ Copied(rt) /\ EpisodeBooks(rt, FALSE) /\ RecordedBooks(rt, FALSE)
  <2>1. (FALSE /\ Recording(rt)) = FALSE
    OBVIOUS
  <2> QED
    BY <2>1 DEF Measured
<1>4. IF total > Warmup
      THEN a.warmup_occupancy >= 0 /\ Closes(a.recorded, a.warmup_occupancy, future_parked(a))
      ELSE /\ a.warmup_occupancy = -1
           /\ \A q \in CountFields : a.recorded[q] = 0
           /\ \A q \in WindowFields : rt.recorded_window[q] = 0
  <2>1. CASE total > Warmup
    <3>1. a.warmup_occupancy \in Nat
      BY <1>2, <1>3, <2>1 DEF Warm
    <3>2. a.warmup_occupancy >= 0
      BY <3>1
    <3> QED
      BY <1>1, <1>2, <2>1, <3>2, AccountsClose
  <2>2. CASE ~(total > Warmup)
    <3>1. total <= Warmup
      BY <1>1, <2>2, AdmissionAssumption
    <3>2. a.warmup_occupancy = -1 /\ a.recorded = Zero(CountFields)
      BY <1>2, <1>3, <2>2 DEF Warm
    <3>3. rt.recorded_window = Zero(WindowFields)
      BY <1>3, <3>1 DEF RecordedBooks
    <3> QED
      BY <2>2, <3>2, <3>3 DEF Zero
  <2> QED
    BY <2>1, <2>2
<1>5. Closes(a.episode, 0, future_parked(a))
  BY <1>1, AccountsClose
<1>6. ended = IF Over(rt) THEN 1 ELSE 0
  <2> DEFINE E == {i \in DOMAIN rows : rows[i].state = "TERMINATED"}
  <2>1. ended = Cardinality(E)
    BY DEF CountOf
  <2>2. \A i \in DOMAIN rows : (rows[i].state = "TERMINATED") <=> (i = total /\ Over(rt))
    BY <1>3 DEF Paged
  <2>3. CASE Over(rt)
    <3>1. rows # <<>>
      BY <1>3, <2>3 DEF Copied
    <3>2. total \in DOMAIN rows
      BY <1>1, <3>1
    <3>3. E = {total}
      BY <2>2, <2>3, <3>2
    <3> QED
      BY <2>1, <2>3, <3>3, FS_Singleton
  <2>4. CASE ~Over(rt)
    <3>1. E = {}
      BY <2>2, <2>4
    <3> QED
      BY <2>1, <2>4, <3>1, FS_EmptySet
  <2> QED
    BY <2>3, <2>4
<1>7. rt.terminal_cycle = ended /\ ended <= 1 /\ (ended = 1 <=> Over(rt))
  BY <1>3, <1>6 DEF Copied
<1> HIDE DEF ended
<1>8. rt.term_attempts = rt.term_sent + rt.term_failed
  BY <1>3 DEF Copied
<1>9. IF ended = 1
      THEN /\ rt.term_attempts >= 1 /\ rt.first_terminal_tx_ok = rows[total].sent
           /\ rt.term_sent > 0 \/ ~rt.first_terminal_tx_ok
           /\ rt.term_failed > 0 \/ rt.first_terminal_tx_ok
      ELSE rt.term_attempts = 0
  <2>1. CASE Over(rt)
    <3>1. /\ rt.controls # <<>> /\ rt.term_attempts >= 1
          /\ rt.first_terminal_tx_ok <=> rows[total].sent
          /\ rt.term_sent > 0 \/ ~rt.first_terminal_tx_ok
          /\ rt.term_failed > 0 \/ rt.first_terminal_tx_ok
      BY <1>3, <2>1 DEF Copied
    <3>2. rows[total] \in ControlType /\ rt.first_terminal_tx_ok \in BOOLEAN
      BY <1>1, <3>1 DEF RuntimeType
    <3>3. rows[total].sent \in BOOLEAN
      BY <3>2 DEF ControlType
    <3>4. rt.first_terminal_tx_ok = rows[total].sent
      BY <3>1, <3>2, <3>3
    <3> QED
      BY <1>7, <2>1, <3>1, <3>4
  <2>2. CASE ~Over(rt)
    BY <1>3, <1>7, <2>2 DEF Copied
  <2> QED
    BY <2>1, <2>2
<1>10. \A n \in DOMAIN rows : /\ rows[n].tick = rt.tick_base + n - 1
                              /\ rows[n].rx_count <= IF n = 1 THEN RxMax + 1 ELSE RxMax
  BY <1>3 DEF Paged, Numbered
<1>11. HistoryMatches(rows)
  BY <1>1, <1>3, HistoryFollows
<1>12. /\ a.episode \in [CountFields -> Nat] /\ a.recorded \in [CountFields -> Nat]
       /\ a.terminals["received_raw"] \in Int /\ rt.terminal_received_recorded \in Int
  <2>1. a.terminals["received_raw"] \in Nat /\ rt.terminal_received_recorded \in Nat
    BY <1>1, TallyType DEF RuntimeType
  <2> QED
    BY <1>1, <2>1, SMTT(30) DEF AdmissionType
<1>13. WindowMatches(a.episode, rt.episode_window, a.terminals["received_raw"], rows)
  <2>1. /\ Outputs(rt.episode_window, rows)
        /\ Inputs(a.episode, NoCharge, a.terminals["received_raw"], rows)
    BY <1>3 DEF EpisodeBooks, Dues
  <2> QED
    BY <1>1, <1>12, <2>1, WindowBooked
<1>14. WindowMatches(a.recorded, rt.recorded_window, rt.terminal_received_recorded, RecordedRows(rt))
  <2>1. /\ Outputs(rt.recorded_window, RecordedRows(rt))
        /\ Inputs(a.recorded, NoCharge, rt.terminal_received_recorded, RecordedRows(rt))
    BY <1>3 DEF RecordedBooks, Dues
  <2>2. RecordedRows(rt) \in Seq(ControlType)
    BY <1>1, AdmissionAssumption DEF RecordedRows
  <2> QED
    BY <1>12, <2>1, <2>2, WindowBooked
<1>15. rt.discarded = a.recorded["old"] + a.recorded["superseded"]
                      + a.recorded["nonfinite"] + a.recorded["skew_excess"]
  <2>1. rt.discarded + 0 = Spilled(a.recorded) /\ rt.discarded \in Nat
    BY <1>3 DEF RecordedBooks, RuntimeType
  <2>2. rt.discarded + 0 = rt.discarded
    BY <2>1
  <2> QED
    BY <2>1, <2>2 DEF Spilled
<1> QED
  BY <1>4, <1>5, <1>7, <1>8, <1>9, <1>10, <1>11, <1>13, <1>14, <1>15 DEF validate, ended

\* MeasurementValid, for every batch size and warm-up and however the run went:
\* validate of scripts/latency.py accepts the vehicle's summary and recording.
THEOREM MeasurementValidHolds == Spec => []MeasurementValid
<1>1. Core /\ DownOk /\ Measured(r, vpc = "serve") => MeasurementValid
  <2> SUFFICES ASSUME Core, DownOk, Measured(r, vpc = "serve"), vpc = "exited"
               PROVE  validate(r)
    BY DEF MeasurementValid
  <2>1. (vpc = "serve") = FALSE
    OBVIOUS
  <2>2. r \in RuntimeType /\ Admitting(r, FALSE) /\ Measured(r, FALSE) /\ Numbered(r)
    BY <2>1 DEF Core, Typed, DownOk
  <2> QED
    BY <2>2, MeasuredValid
<1> QED
  BY <1>1, FreerunCore, FreerunReplies, FreerunMeasured, PTL
=============================================================================
