--------------------------- MODULE EpisodePolicy ---------------------------
(***************************************************************************)
(* The episode policy driven cycle by cycle, by any inputs its contract    *)
(* (src/episode.hpp) allows: the observation held by lockstep::Session or  *)
(* freerun::Admission, commands in any order with any sequence numbers,    *)
(* the simulator's terminal flag, the horizon and a stop.                  *)
(***************************************************************************)
EXTENDS EpisodeRef

CONSTANTS MaxTick,    \* bound: ticks 0 .. MaxTick
          AutoArm,
          CmdOpcodes, \* opcodes an arriving command may carry
          Leads,      \* effective_tick - tick of an arriving command
          Classes,    \* classes a fresh observation may have
          SimFlags,   \* terminal reasons the simulator may flag
          Stops       \* stop reasons the vehicle may raise

ASSUME PolicyAssumption ==
    /\ Leads \subseteq Int /\ AutoArm \in BOOLEAN
    /\ SimFlags \subseteq {"horizon", "angle", "nonfinite", "other"}
    /\ Stops \subseteq Reasons

VARIABLES state,  \* episode::State
          tick,   \* the next cycle's tick
          held,   \* the held observation
          delta,  \* the last cycle's requested output
          open    \* history: sequence numbers acknowledged QUEUED and not since settled

vars == <<state, tick, held, delta, open>>

Commands ==
    {NoCommand} \union
    {[cmd_seq |-> s, opcode |-> o, effective_tick |-> tick + l] :
        s \in 0 .. SeqMod - 1, o \in CmdOpcodes, l \in Leads}

\* The inputs a cycle may have.  A fresh observation is newer than the held
\* one and not from the future; a stale cycle's age is at least 1.
Observed(fresh, obs) ==
    \/ fresh /\ obs.tick \in held.tick + 1 .. tick /\ obs.class \in Classes
    \/ ~fresh /\ obs = held /\ (held = NoHeld \/ held.tick < tick)

Observations == {held} \union [tick : 0 .. tick, class : Classes]

Input(fresh, obs, c, horizon, sim, why) ==
    [tick |-> tick, held |-> obs, fresh |-> fresh,
     staleness |-> IF obs = NoHeld THEN tick + 1 ELSE tick - obs.tick,
     command |-> c, horizon_reached |-> horizon, sim_reason |-> sim, stop_reason |-> why]

Inputs ==
    {Input(fo[1], fo[2], c, h, s, w) :
        fo \in {x \in BOOLEAN \X Observations : Observed(x[1], x[2])},
        c \in Commands, h \in BOOLEAN, s \in {"none"} \union SimFlags, w \in {"NONE"} \union Stops}

Queued(as) == {as[i].cmd_seq : i \in {j \in DOMAIN as : as[j].status = "QUEUED"}}
Settled(as) ==
    {as[i].cmd_seq : i \in {j \in DOMAIN as :
        as[j].status \in {"APPLIED", "APPLIED_LATE", "REJECTED_STATE", "PREEMPTED"}}}

Init ==
    /\ state = initial(AutoArm) /\ tick = 0 /\ held = NoHeld
    /\ delta = NoTick /\ open = {}

Cycle(in) ==
    LET result == step(state, in)
    IN  /\ tick <= MaxTick
        /\ state' = result.state /\ delta' = result.delta
        /\ open' = (open \ Settled(result.acks)) \union Queued(result.acks)
        /\ held' = in.held /\ tick' = tick + 1

\* Past the bound.
Finished == tick > MaxTick /\ UNCHANGED vars

Next == (\E in \in Inputs : Cycle(in)) \/ Finished
Spec == Init /\ [][Next]_vars

-----------------------------------------------------------------------------
\* The vehicle's policy (episode.cpp) and the simulator's (episode.py) agree on
\* every input in every reachable state: state, output and acknowledgements.
TwinsAgree == \A in \in Inputs : step(state, in) = RefStep(state, in)

\* Every command acknowledged QUEUED is later settled by exactly one ack,
\* applied, refused or preempted.  The one still open is the pending one, which
\* is the last accepted and not yet due: no due command survives a cycle, and
\* none the end of the episode.
CommandLedger ==
    /\ open = IF state.pending = NoCommand THEN {} ELSE {state.pending.cmd_seq}
    /\ state.mode = "TERMINATED" => open = {}
    /\ state.pending # NoCommand =>
          state.pending = state.last_accepted /\ state.pending.effective_tick >= tick

\* A non-zero output is only requested in FLYING and stems from the held
\* observation: younger than StaleLimit when it is fresh, at most CoastLimit
\* ticks old when the last output is repeated.
OutputIsRecent ==
    [][delta' # NoTick =>
         /\ state'.mode = "FLYING" /\ delta' = held'.tick
         /\ tick - delta' < StaleLimit
         /\ held' = held => tick - delta' <= CoastLimit]_vars

\* Only an ABORT displaces a pending command, and a pending ABORT is displaced
\* by nothing: it stays until its tick or the end of the episode.
AbortStands ==
    [][state.pending # NoCommand /\ state'.pending # state.pending =>
         \/ state'.mode = "TERMINATED"
         \/ state.pending.effective_tick <= tick
         \/ state.pending.opcode # "ABORT" /\ state'.last_accepted.opcode = "ABORT"]_vars

=============================================================================
