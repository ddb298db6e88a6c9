-------------------------- MODULE AdmissionCycles --------------------------
(***************************************************************************)
(* freerun::Admission driven cycle by cycle: by any datagrams, in any      *)
(* order, by a caller that keeps to the ticks as run_freerun does.          *)
(***************************************************************************)
EXTENDS Admission

CONSTANTS TickBase,
          MaxCycles,  \* bound: cycles begun
          MaxTick,    \* bound: ticks of frames
          Uses,       \* what samples may say of themselves
          EnvelopeReasons,    \* reasons terminal envelopes may flag
          Bodies      \* the other bytes of a frame

ASSUME CyclesAssumption == TickBase \in Nat /\ MaxCycles \in Nat /\ MaxTick \in Nat

VARIABLES adm,  \* the Admission object
          got   \* history: ticks of valid samples received, newer than the held one

admission_vars == <<adm, got>>

Frames ==
    [tick : 0 .. MaxTick, use : Uses, reason : {"none"}, body : Bodies] \union
    [tick : 0 .. MaxTick, use : {"valid"}, reason : EnvelopeReasons, body : Bodies]

AdmissionInit == adm = NewAdmission(TickBase) /\ got = {}

\* run_freerun begins cycle n for tick_base + n.
Begin ==
    /\ ~adm.open /\ adm.cycles < MaxCycles
    /\ adm' = begin_cycle(adm, IF adm.cycles = 0 THEN TickBase ELSE adm.expected + 1)
    /\ UNCHANGED got

Receive(f) ==
    /\ adm.open /\ adm.rx_count < RxLimit(adm)
    /\ adm' = receive(adm, f)
    /\ got' = IF ~IsTerminal(f) /\ f.use = "valid" /\ f.tick > adm.held.tick
              THEN got \union {f.tick} ELSE got

Finish ==
    /\ adm.open
    /\ adm' = finish_cycle(adm)
    /\ got' = {t \in got : t > adm'.held.tick}

CyclesDone == adm.cycles = MaxCycles /\ ~adm.open /\ UNCHANGED admission_vars

AdmissionNext == Begin \/ Finish \/ CyclesDone \/ \E f \in Frames \union {Malformed} : Receive(f)
AdmissionSpec == AdmissionInit /\ [][AdmissionNext]_admission_vars

-----------------------------------------------------------------------------
\* Between cycles identities_hold(): every sample received is disposed of
\* exactly once or still parked, over the whole episode and over the recorded
\* window, whatever was parked when the window began.
IdentitiesHold == ~adm.open => identities_hold(adm)

\* No buffer overflows: a cycle's discards and terminal_seen_ (written without
\* a test of its size) fit their arrays, and the parked frames fit the slots of
\* future_, one frame to a slot; both know at most one frame of a tick.
BuffersSuffice ==
    /\ adm.discard_count <= adm.rx_count /\ adm.terminal_seen_count <= adm.rx_count
    /\ \A f \in adm.future : f.tick - adm.expected \in 1 .. SkewMax
    /\ \A fs \in {adm.future, adm.terminal_seen} : \A f, g \in fs : f.tick = g.tick => f = g

\* As long as integrity_failed() is false and no sample was flagged invalid, the
\* held sample is the newest valid one received whose tick has come, arrived
\* late or parked; the newer ones are parked.
HeldIsNewest ==
    ~adm.open /\ ~adm.integrity /\ adm.episode["invalid"] = 0 =>
        got = {f.tick : f \in {g \in adm.future : ~IsTerminal(g) /\ g.use = "valid"}}

\* No terminal envelope is lost silently: without an integrity failure one that
\* was received is latched, or parked until its tick.
TerminalNotLost ==
    ~adm.open /\ ~adm.integrity /\ adm.terminals["received_raw"] > 0 =>
        adm.latch # NoFrame \/ \E f \in adm.future : IsTerminal(f)

=============================================================================
