# TLA+ models of tvc

`tvc` is a thrust-vector-control loop: a C++ vehicle process that runs a 500 Hz
controller, a Python simulator that is both its plant and its reference, and
scripts that run the two together and decide whether a run may be believed.
This directory holds TLA+ models of its concurrent and stateful parts, the TLC
configurations that check them on small instances, and proofs that the TLA+
proof system checks for every instance. Paths below are relative to the
repository (`src/telemetry.cpp` is the C++ source directory's file).

## The system

| Component | State it keeps | Operations | Interacts with |
|---|---|---|---|
| Telemetry ring, `telem::SpscRing` (`src/telemetry.hpp`) | `head_`, `tail_`, the producer's `cached_tail_`, `drops_`, the slots | `try_push`, `pop_batch` | control thread and drain thread, without locks |
| Drain, `telem::Drain` (`src/telemetry.cpp`) | `stop_`, sequence number, record and ground counters, `write_failed_` | `start`, `run`, `stop` | ring; recording file; UDP copy to the ground |
| Episode policy (`src/episode.cpp`) | `episode::State`: mode, settle count, pending and last accepted command, terminal result, PID state | `step` | pure; called once per cycle by lockstep and free-run |
| Its twin (`sim/episode.py`) | the same | `step` | called by the reference run |
| Reference run (`sim/run_headless.py`, with `actuator.py`, `link.py`, `sensor.py`) | tick, truth, delay line, actuator, episode state | one loop pass per tick | none: one process, no I/O |
| Lockstep simulator (`sim/run_sim.py`) | tick, truth, the tick's one sample, attempt, counters | build and send a sample, time out and retry, accept a reply | vehicle, over UDP |
| Lockstep vehicle (`src/lockstep.cpp`) | `Session`: episode state, held observation, newest answered tick, cached reply, fault, counters | `receive`, `begin_send`/`finish_send`, `stop`, `run` | simulator; telemetry ring; signals |
| Supervision (`scripts/run_scenario.py`, `scripts/reconcile.py`) | exit codes, the two reports and the recording | wait, SIGTERM, SIGKILL, reconcile | both processes |
| Free-run admission (`src/freerun_admission.cpp`) | held sample, parked future samples, per-disposition counters for all cycles and for the recorded window | `begin_cycle`, `receive`, `finish_cycle` | free-run vehicle |
| Free-run vehicle and simulator (`src/freerun.cpp`, `sim/freerun.py`) | two independent 500 Hz schedules, terminal handshake | a cycle each; resend of the terminal reply | each other, over UDP; ring |
| Ground receiver (`ground/link.py`) | the sender it listens to, the last frame and tick, a counter per disposition, the ground recording and a report | `accept`, `collect`, `receive`; `check` with `match_streams` afterwards | drain's UDP copy; standard input and signals; the files of both sides |
| Wire codec (`src/wire.hpp`, `ground/wire.py`) | none | encode, decode, resynchronise a stream | all of the above |
| Controller, plant, environment, fixed-point maths, RNG (`src/control.cpp`, `sim/control_ref.py`, `sim/plant.py`, `sim/environment.py`, `sim/fixmath.py`, `sim/rng.py`) | numeric state | pure arithmetic | episode policy, reference run |
| Scenarios and traces (`sim/scenario.py`, `sim/trace.py`) | none | validate a document; evaluate a trace | reference run, scripts |
| Timing harness (`src/main.cpp`, `loop_stats.cpp`, `rt_setup.cpp`, `env_probe.cpp`) | deadline, overrun and skip counters, histograms | a timed loop | ring |
| Allocation guard (`src/alloc_guard.cpp`) | the cycle scope's mode and counters | enter, leave, count | control thread |
| Campaign runner (`scripts/run_campaign.py`, `run_case`) | digests of sources, binary and simulator; a directory per case; manifests | run a matrix or the goldens, inspect, write a manifest, validate one | working tree, build, other runs |
| Sweep and gate (`scripts/sweep.py`, `bench_gate.py`, `ordered_results` of `latency.py`) | the planned rows, the roster, a result, replay and summary per row | plan, run a row, save, stop; the readers' verdicts | vehicle and simulator processes, the machine's idle states, the operator's signals |
| Plots, demonstration, repository checks (rest of `scripts/`, `sim/gen_*`) | none | functions of finished files | none |

What is hard here, and what makes each component right:

* **Ring and drain.** Two threads share slots without a lock and read indices
  that may be stale. Right means: no slot is written while it may be read,
  records reach the file in order and once, a loss is visible in what *was*
  recorded, and `stop()` neither hangs nor loses the last push.
* **Episode policy.** A command may arrive late, early, twice, out of order or
  wrapped round the sequence space, together with anything that ends the
  episode. Right means: every queued command is settled by exactly one
  acknowledgement, an ABORT is not displaced, an output is
  never older than promised, and the C++ and Python versions are one function.
* **Lockstep.** Datagrams are retried, overtaken, lost and corrupted, processes
  die between steps. Right means: one policy step per tick whatever is
  retried, counters that close so that a loss is *reported*, a run that always
  ends, and a result equal to the reference run's.
* **Free-run.** Two clocks, arrivals several per cycle or none, ticks from the
  future, a terminal reply that may be lost. Right means, for admission: every
  sample is disposed of once, the policy gets the newest one that is due, an
  ending is never lost silently. For the two processes: whatever the delays,
  the policy's contract holds, neither side is accused of what it did not do,
  who ended whom is claimed once, and the summary equals its recording.
* **Ground.** Frames lost, repeated, overtaken and sent by strangers, a receiver
  that stops in the middle, files that change before they are checked. Right
  means: what the check accepts is what happened, and a loss on the link alone
  is counted, not refused.
* **Campaigns.** Hours of runs in a working tree that somebody may edit or
  rebuild, crashes, two runners. Right means: a manifest names what its cases
  really ran on, stale evidence is refused, a manifest is never replaced.
* **Sweeps.** Child processes that fail or hang, signals at any instruction, a
  roster rewritten in place while it may be read, a machine whose state may
  change within a row. Right means: only whole, disciplined sessions pass the
  gate, no child is left behind, the sweep ends.

`PROJECT.json` lists these as hazards, each at the line where it bites, with
the properties that would catch it going wrong.

## Modules

| Module | Models | Notes |
|---|---|---|
| `TelemetryDrain` | `SpscRing`, `Drain::run`, `Drain::stop` | both threads split at every access to shared memory |
| `RecordLog` | what the telemetry path promises | abstract specification: a bounded log |
| `TelemetryProofs` | theorems about `TelemetryDrain` and `Ground`, with induction over recordings | |
| `Episode` | `episode::step` (C++) | operators only |
| `EpisodeRef` | `step` of `sim/episode.py` | operators only, in the Python code's structure |
| `EpisodePolicy` | the policy driven by any inputs its contract allows | state machine over `Episode` and `EpisodeRef` |
| `EpisodePolicyProofs` | theorems about `EpisodePolicy` | |
| `Headless` | the loop of `run_headless` | abstract specification of a lockstep run |
| `HeadlessProofs` | theorems about `Headless` | |
| `Lockstep` | both processes, the sockets, the runner, reconciliation | composes the components; implements `Headless` |
| `LockstepProofs` | theorems about `Lockstep` | uses the lemmas of the two above through `INSTANCE` |
| `Admission` | `freerun::Admission` | operators only, one per member function |
| `AdmissionCycles` | admission driven cycle by cycle, by any datagrams and any caller | state machine over `Admission` |
| `AdmissionCyclesProofs` | theorems about `AdmissionCycles`, lemmas about the operators of a free run | extends `Freerun` too |
| `FreerunVehicle` | `Runtime` and one cycle of `run_freerun`, exit code | operators only, over `Episode` and `Admission` |
| `FreerunSim` | `Model` of `sim/freerun.py` and `offer` | operators only |
| `FreerunReport` | `validate` (`scripts/latency.py`) and `reconcile_freerun` | operators on the two records |
| `Freerun` | both processes, the sockets, the runner | composes the four above |
| `FreerunProofs` | theorems about `Freerun` | over the lemmas of `AdmissionCyclesProofs` |
| `GroundCheck` | `match_streams` and `check` | operators on the files and reports of a run |
| `Ground` | the vehicle's copies, the network, `receive`, and `check` over time | state machine over `GroundCheck` |
| `Campaign` | `run_campaign.py`, the evidence `run_case` files, the validators | several runs in one working tree |
| `CampaignProofs` | theorems about `Campaign` | |
| `SweepPlan` | `plan_levels`, `plan_runs` | operators only |
| `Sweep` | `run_row`, the roster, and the readers | state machine over `SweepPlan` |
| `SweepProofs` | theorems about `Sweep` | |
| `MC*` | instances for TLC | constants only |

### TelemetryDrain

The control thread is in `try_push` (`ppc` = `idle`, `write`, `publish`) or in
`stop()` (`join`, `joined`); the drain thread is in `pop_batch` (`load`,
`copy`), emitting a batch (`emit`), or past its loop (`close`, `done`).

A load of an atomic does not have to return the last value stored. The producer
may see any `tail_` from `cached_tail_` up to the present; the drain may see
any `head_` from `headFloor` up. `headFloor` is what coherence already forces
(the last head loaded) and what synchronisation forces: the acquire load that
sees `stop_` raises it to every push before `stop()`. This is exactly what
`Drain::run`'s comment relies on, and mutating the load to a relaxed one breaks
`ImplementsLog`.

A record is the number of the attempt that pushed it plus the drops it carries.
`encode_control` may refuse a record, `fwrite` may fail, a ground send may
succeed, be short or fail, and `fflush`/`fclose` may report an error at the
end. `pushed` and `recording` are history variables: what was accepted and what
is in the file.

### Episode, EpisodeRef, EpisodePolicy

`step` is a function, so it is written as operators, one per stage of the code:
settle count, `StopReason`, then either `Terminate` or `Arrive`, `ApplyDue` and
`Fly`. Observations are abstracted to what the comparisons tell apart
(`settled`, `off`, `diverged`); the PID state becomes the tick of the
observation it last stepped on, so an output can be traced to the observation
it came from. Sequence numbers keep their modulus, `SeqMod`.

`EpisodeRef` translates the Python function separately, so that `TwinsAgree`
compares two translations of two sources and not one with itself.

`EpisodePolicy` drives `step` with any input allowed by the contract in
`src/episode.hpp`: a fresh observation is newer than the held one and not from
the future, a stale cycle's held observation is at least one tick old.

### Headless

One action is one pass of the loop: losses, the scenario's command and the
plant's next class are chosen by the environment, everything else is computed.
`row` is the last row of the trace; earlier ones do not influence the run.

A scenario of a single tick that starts beyond the 0.30 rad limit is an edge the
code leaves open: its only tick is the horizon, the simulator reports `horizon`
and the policy `DIVERGED`, a pair that `reconcile.py` does not accept. TLC shows
it with `Ticks = 1`; with two ticks or more the simulator notices the attitude
first. `EndsPaired` and `SuccessMeansAgreement` are therefore checked, and
proved, for more than one tick.

### Lockstep

The simulator (`spc`), the vehicle (`vpc`) and the runner (`rpc`) interleave at
each system call. The channels are bags: UDP does not order datagrams. A
datagram to a closed port leaves a pending ECONNREFUSED on the sender's socket
(`sim_refused`, `veh_refused`) that fails its next call. A deadline may expire
at any time, so that every combination of retry and late answer occurs.

`faults` records what went wrong, at most `MaxFaults` times: a sample's send
fails (`fail_sensor`), a reply is dropped on receipt (`drop_actuator`), the
simulator is killed (`kill_at`), the send of a reply's first copy or of a repeat
fails (`original_reply`, `reply`), the ring is full (`ring`), `recvmsg` fails
(`recv`), the recording cannot be written (`write`), the network loses or corrupts
a datagram (`lost`, `corrupt`), the runner's wait expires (`slow`), a signal
arrives (`signal`).

All counters of both reports are kept, because `reconcile.py` decides with
them: `Eligible` is the lockstep half of `reconcile`. Its comparison of samples,
records and replies is accumulated tick by tick in `matched`.

Left out of `Lockstep`: timestamps and latencies, the rung field, socket and
file set-up before the loops, the layout of the reports, and the counters that
are zero by construction in lockstep (`*_pending` of receivers). A `sim_reason`
outside 1..3, which the vehicle would flag, is never sent by the simulator.

### Admission, AdmissionCycles

`Admission` has one operator per member function, from an object (a record) to
the object after the call. A frame is its tick, what its flags and floats say
(`valid`, `invalid`, `nonfinite`), its terminal reason if it is an envelope and
a `body` that stands for its other bytes, so that two frames of one tick may
differ. `future_` is the set of frames in its slots: a slot is named by the
distance of its frame's tick, and `BuffersSuffice` checks that no two frames
share one. The unchecked array `terminal_seen_` keeps its write counter.

`AdmissionCycles` calls it the way `run_freerun` does (`Begin`, up to a batch
of `Receive`, `Finish`) with any frames; like `run_freerun` it never skips a tick.
Its history variable `got` holds the ticks of valid samples that a correct
admission still owes the policy.

Left out: the kinds of decoding errors (one `malformed` counter stands for the
five `bad_*`), the timestamps in the discard list, and the clamp of the
staleness at 2^32 - 1.

### Freerun and its parts

The vehicle's `Runtime` and the simulator's `Model` are records, `r` and
`model`, as in the code; `FreerunVehicle` and `FreerunSim` say what a cycle, a
drain or an offer does to them, `FreerunReport` judges them, and `Freerun` has
the processes' steps. A cycle of the vehicle is `Wake` (sleep, `recv_batch`,
admission) and `Serve` (policy, send, record); a pass of the simulator is `Body`
or `After` (sleep, drain, receive, plant) and `Offer`. The origin wait is
`Acquire`/`AcquireFails`, the copies of the last reply are `Resend`.

The two schedules are absolute and do not wait for each other, and a process may
be delayed for any number of periods; so there is no clock, and the steps
interleave in every order. The channels are sequences: both ends are bound to
the loopback interface, which does not reorder. Reordered and duplicated frames
are the subject of `AdmissionCycles`.

A pending ECONNREFUSED takes the place of a batch at the vehicle (which counts
it and goes on) and escapes from `drain()` at the simulator (which ends with 1).
Faults: a send fails (`sensor`, `reply`), a signal (`signal`, `sim_signal`), the
`kill_at` hook (`kill`), a failing sleep (`sleep`), a first datagram that does
not come in time (`origin`), a failed real-time set-up (`rt`), a recording that
is incomplete (`record`), the network (`lost`, `corrupt`), a runner's wait
(`slow`).

Of the timestamps, `decided`, `up_open` and `down_open` keep the order that
`terminal_order` and `terminal_residual` derive from them; where the clocks
cannot tell, `Judge` takes either answer.

Left out: wall-clock distributions, round-trip samples and phase; the delay line
and the actuator, which only reach the plant, here a free choice; SIGKILL after
an unanswered SIGTERM, because neither process blocks for five seconds once it
has a signal; commands, which free-run refuses; a reply with a non-finite delta
or a reason outside 1..8, which the vehicle does not send.

### GroundCheck, Ground

A frame is its sequence number, its tick and whether this vehicle wrote it. The
vehicle's cycles are `Drop` (ring full) and `Emit` (record and copy, either of
which may fail); `net` is the set of datagrams under way, of which any may be
next, stay for a repetition, or never arrive. The receiver goes through `collect`,
`drain` (after the end of its input) and the close and report steps of
`receive`; `code` and `truncated` are its locals. `CheckDigests` and
`CheckReads` are the two passes of `check` over the files, and `Shorten` is a
file that changes before or between them. `Disposition` tries the tests of
`accept` in the code's order; `Merge` is the loop of `match_streams` as a function
of the number of vehicle frames read.

Assumptions: the vehicle is started after the receiver's ready line and its end
precedes the end of the receiver's input, as `collect`'s docstring says
("EOF follows producer exit"); another sender never sends the vehicle's exact
bytes; digests do not collide. Left out: well-formedness of the JSON documents,
sequence numbers at 2^32, errno values other than EINTR.

### Campaign

A content is a version number, a digest is the content, an edit is never
undone. `Edit` and `Alter` may fall between any two steps of any run, `Crash`
ends a run anywhere and leaves its artifacts. The runner's two identities are
kept apart as in the code: what a case *ran* on (the binary when the vehicle
is started, the simulator and scenario when the simulator is) is history the
runner never sees; what its replay *names* is read after the case.

The reads of one file at different lines are different steps, because an edit may
fall between them: a campaign hashes the sources (`Rehash`, line 275), then names
its scenario (`NameScenario`, 279) and validates the document, which reads the
scenario again (`ValidateOwn`, 285); a golden entry names its scenario
(`TakeEntry`, 298) after the case was inspected (`Inspect`). The source digest is
of the C++ files, the simulator, a fixed list of scripts and, of the scenarios,
`S2-gust.json` only (`implementation_source`):
the other seven golden scenarios are held by the entry's own digest and by the
trace. `inspect_case` runs the reference again and compares its trace with the
filed one, so a scenario's content is its text and its trace, and an edit may
change the text alone. An entry can then name a text that no case ran on, but only
one with the same trace, and that is what `AcceptedIsCurrent` claims of goldens.
For the matrix, and for the goldens' S2-gust, the source digests before and after
leave no room for an edit, and the claim is equality. A golden manifest one of
whose scenarios was edited after its entry is refused by every validation.

Two kinds of reads are one step each. `implementation_source` hashes several
files, one after the other: each comparison with it is about one file at a time,
and no content ever returns, so an edit between two files has the same effect as
one before or after. `inspect_case` loads a scenario (228) and then compares its
digest with the replay's (230), which is older than both: they agree only if
nothing was edited between. What `run_scenario.py` reads of a scenario itself
(66, `auto_arm`, before the simulator's read) is part of what the reference run
decides, and a vehicle started otherwise fails `inspect_case`'s comparison of
the states.

A validator is a process of its own, whose steps hash the sources, read the
campaign's scenario, inspect each case and make each golden entry anew;
`check.source` is what it hashed. `write_manifest` creates the file (`Create`),
which is `Torn` until the document is written into it (`Fill`), for ever if the run
is killed in between.

That nothing undoes an edit is needed: a binary replaced before a case and put
back after it would go unnoticed. Also assumed: an edited simulator does not
compute of one scenario what another simulator computed of a different one. The
manifest names the C++ sources and the binary side by side, and nothing in the
scripts checks that one was built from the other, so `Attributable` does not claim
it. For goldens no binary is named. Left out: how the toolchain is identified (a
run and a validator have a lane), the goldens' repeat and retry comparison, which
may only give up, and the CSV excerpts.

### SweepPlan, Sweep

`pc` walks through `main` and `run_row`; `owned` are the processes whose handles
`run_row` holds. `Raise` is any exception of the `try` block, `Interrupt` a
signal at any step (in the block it becomes an exception, elsewhere it ends the
sweep, also in the middle of the cleanup or of a file), `Kill` a SIGKILL. (An
interrupt after the audit, the last thing in the block, is swallowed by the code,
and the sweep goes on; the model ends it there.)
`write_text` truncates before it writes, so a cut leaves a `Torn` file. `truth`
and `lost` are history: how the processes really ended, and which were left
to themselves. The readers are predicates of one state, evaluated in every
reachable one: the gate may be run at any moment.

`ChildrenStopped` names the gaps that the code has: a signal between fork and
assignment, during the cleanup, SIGKILL, a child that outlives SIGKILL.
`GateMeansWhole` excepts idle states that were changed and changed back within
one row: the code reads them at both ends of a row only
(`docs/qualification.md`, "re-reads them when the row ends"). It is about L8
and about the latency analysis; at a harness level the gate judges each summary
by itself and asks for no roster. Left out: statistics, budgets, baselines and
tables, the tests of binary age and affinity before the first row.

## Runs

| Run | Bounds | Shows |
|---|---|---|
| `drain` | 3 slots, batch 2, 6 pushes, one of them refused, a ground endpoint | no slot race; faithful recording; loss visible; stop loses nothing and returns; ground counters close; implements `RecordLog` |
| `episode_commands` | 5 cycles, sequence space of 4, commands late by one, on time and two early, observations of every age, stale limit 4 | every queued command is settled once and none survives its due time; ABORT stands; the age of an output |
| `episode_outputs` | every input of every state reachable in 3 cycles; coast limit 1, stale limit 3, commands, signals, both observation classes | C++ and Python agree |
| `headless` | 5 ticks, all losses, all commands | the run ends with a pair of reasons that `reconcile.py` accepts |
| `lockstep_faults` | 2 ticks, 3 attempts, modelled losses, one fault of any kind, spurious timeouts, expiring waits | one transaction per tick, counters close, faults reported, retries harmful in two ways only, runs end, the two processes compute a reference run |
| `admission` | 3 cycles, 2 datagrams in the first and 1 in the others, skew 2, first tick 1, frames of ticks 0..4 of every kind with 2 bodies | counters close over the episode and the recorded window, buffers suffice, the newest due sample is held, no ending lost silently |
| `freerun_faults` | 3 ticks, 3 cycles, batches of 2, skew 1, 2 copies, one fault of any kind | contract of the policy, no false accusation, audit of the summary, ends that agree, every run ends |
| `freerun_losses` | 4 ticks, 4 cycles, 1 copy, modelled losses in both directions, one fault of any kind | a lost sample inside the observed window is reported; delays never look like losses |
| `ground` | 3 cycles, 3 datagrams received, one stranger's, one fault | what the check accepts is true; losses alone are accepted; the receiver ends |
| `campaign` | a canonical campaign of 2 cases and a golden run of 2 scenarios, a validator, 2 edits, rebuilds, alterations or further starts, crashes | manifests are attributable, accepted evidence is current, manifests stand |
| `sweep` | 7 invocations of 1 to 9 rows, 2 starts, 2 changes of the idle states in plans of at most 2 rows | the gate passes whole sessions only; children are stopped; the sweep ends |
| `lockstep_stop` | 3 ticks, 1 attempt, one fault | **violated**: see the finding |

Why the bounds are enough to reach the interesting cases. In `drain`, six
pushes through three slots wrap the ring, fill it, drop, and leave a drop
between accepted records. In `episode_*`, a sequence space of 4 makes every
relation of two sequence numbers occur (equal, newer, half way, older), with a
settle target of 2 and the coast limit of 1 reached and passed; in
`episode_commands` the stale limit of 4 is reached by an observation that was
fresh at tick 0. In
`admission`, a cycle may meet a parked sample, a late one and a duplicate or
conflicting one at once, and a warm-up of one cycle leaves samples parked across
the start of the recorded window. In `freerun_*` the simulator can run past the
skew and finish before the vehicle's first cycle, or the vehicle can end, resend
and exit between two steps of the simulator; batches of 2 leave datagrams in the
socket. (The safety properties of `freerun_faults` also hold with two faults,
1.8 million states.) `freerun_losses` has four ticks because a sample can only be
missed between two that arrived: of three ticks the last is the envelope. In
`lockstep_faults`, two ticks give a first and a horizon tick, so that a reply of
the first can arrive in the wait of the second. Timeouts need no fault, so the one
fault may hit a first send, a retry or an answer to either (with two faults
and two attempts the properties hold too, 0.7 million states). The third attempt is
what the one harmful retry needs: the simulator's deadline expires, it resends after the vehicle's exit, its deadline expires again before it
reads the reply that lies in its socket, the third send consumes the refusal of the
second, and the reply is accepted. Nothing was lost, and `reconcile.py` finds one
sample more transmitted than received (26 attempts in the code leave room for it).
The other way is a copy that a closing socket still holds unread;
`RetriesAreHarmless` says that there is no third. In `ground`, three
frames are needed for a loss before, between and after those that arrive, and
three receipts for a repeated or overtaken frame beside a kept one. In
`campaign`, two cases put an edit between them, of two golden scenarios one is in
the source digest and one is not, and of two events one can be a
second start and the other an edit during it, or one edit can precede the
manifest and one fall between two reads of the validator. In `sweep`, two L8 rows put an
event after a complete row, a mixed plan puts a harness row before an L8 row,
and the nine rows of the phase grid check that its labels stay apart.

Deadlock is checked in the runs of `TelemetryDrain`, `EpisodePolicy`, `Headless`,
`Lockstep`, `AdmissionCycles` and `Freerun`; the states in which a component is
finished have an explicit stuttering step. It is not checked in `ground`,
`campaign` and `sweep`, where everybody may be done: a receiver that has exited,
runs that have ended with no event left, a sweep that is over.

**Fairness.** `TelemetryDrain` assumes that the operating system schedules the
drain thread and that `join` returns once the thread has ended; nothing forces
the producer to push or to stop. `Lockstep` assumes that each process that can
take a step eventually takes one, and that clocks advance, so that a deadline
eventually expires; the environment's faults are never forced. `Freerun` assumes
the same of its processes, and of the five-second wait for the first datagram
only that it ends once the simulator is gone. `Ground` assumes that the receiver's
process runs: its loop returns to `select` after at most 512 datagrams and tests
stop flag and deadline before each, so each of its own steps is weakly fair and
arrivals are not. `Sweep` assumes that the sweep's process goes on and that a
harness vehicle, which talks to nobody, ends; of an L8 pair it assumes nothing.
`EpisodePolicy`, `AdmissionCycles`, `Headless` and `Campaign` have safety
properties only.

**Liveness.** `StopReturns`: once `stop()` is called, it returns. `RunEnds`:
every lockstep run ends, under every combination of faults in the bounds. The
vehicle's `recvmsg` has no timeout, so this rests on the runner's SIGKILL, and
removing it (a mutant) violates `RunEnds`. In `freerun_faults` every run ends
without SIGKILL, because every wait of the free-run vehicle has a limit.
`ReceiverEnds`: the ground receiver exits after the end of its input or a signal,
however many datagrams keep coming. `SweepEnds`: a sweep comes to an end, also
when an L8 pair hangs, because that row alone has a deadline.

### Finding

*A SIGTERM can be lost by the lockstep vehicle* (`lockstep_stop`,
`StopIsOrderly`). The loop tests `g_stop` (`src/lockstep.cpp:229`) and then
blocks in `recvmsg` without a timeout. A signal delivered between the two sets
the flag but interrupts nothing, and no further datagram comes once the
simulator is gone: the vehicle hangs until the runner kills it, and its summary
is never written. `tests/functional/test_lockstep.py:96` expects a stopped
vehicle to exit with 3.

## Proofs

The proofs about a component state an inductive invariant, show that it holds
initially and that every action keeps it (one lemma per action or group of actions),
and derive the properties from it; `FreerunProofs` does so in five parts, one on top
of the other. TLC checked every property on the run's instance first, and the
inductive invariants that it can evaluate.

| Module | Theorem | States |
|---|---|---|
| `TelemetryProofs` | `TypeCorrect` | `DrainSpec => []TypeOK` |
| | `RaceFree` | `DrainSpec => []NoSlotRace` |
| | `FaithfulRecording` | `DrainSpec => []RecordingFaithful` |
| | `VisibleLoss` | `DrainSpec => []LossIsVisible` |
| | `NothingLostAtStop` | `DrainSpec => []StopLosesNothing` |
| | `GroundAccounting` | `DrainSpec => []GroundCloses` |
| | `LogRefinement` | the safety part of `ImplementsLog` |
| | `GroundInvariant` | `Spec => []GroundInv` |
| | `VerdictAlwaysTrue` | `Spec => []VerdictIsTrue` |
| | `LossNeverInvalid` | `Spec => []LossIsNotInvalid` |
| `EpisodePolicyProofs` | `EveryCommandSettles` | `Spec => []CommandLedger` |
| | `AbortAlwaysStands` | `Spec => AbortStands` |
| | `OutputAlwaysRecent` | `Spec => OutputIsRecent` |
| | `TwinsAlwaysAgree` | `Spec => []TwinsAgree` |
| `HeadlessProofs` | `EndsAlwaysPaired` | `Ticks > 1` implies `Spec => []EndsPaired` |
| `LockstepProofs` | `LockstepOneTransaction` | `Spec => []OneTransaction` |
| | `LockstepCountersClose` | `Spec => []CountersClose` |
| | `LockstepAgreement` | `Ticks > 1` implies `Spec => []SuccessMeansAgreement` |
| | `LockstepImplementsHeadless` | `Spec => ImplementsHeadless` |
| | `LockstepFaultTraces` | `Spec => []FaultInv` |
| | `LockstepFaultsReported` | `Spec => []FaultsAreReported` |
| | `LockstepCalm` | `Ticks > 1` implies `Spec => []CalmInv` |
| | `LockstepRetriesHarmless` | `Ticks > 1` implies `Spec => []RetriesAreHarmless` |
| `AdmissionCyclesProofs` | `IdentitiesAlwaysHold` | `AdmissionSpec => []IdentitiesHold` |
| | `BuffersAlwaysSuffice` | `AdmissionSpec => []BuffersSuffice` |
| | `HeldIsAlwaysNewest` | `AdmissionSpec => []HeldIsNewest` |
| | `TerminalNeverLost` | `AdmissionSpec => []TerminalNotLost` |
| `FreerunProofs` | `FreerunCore` | `Spec => []Core` |
| | `PolicyContractHolds` | `Spec => []PolicyContract` |
| | `NoFalseConflictHolds` | `Spec => []NoFalseConflict` |
| | `EndsAgreeHolds` | `Spec => []EndsAgree` |
| | `LossIsReportedHolds` | `Spec => []LossIsReported` |
| | `DelaysAreNotLossesHolds` | `Spec => []DelaysAreNotLosses` |
| | `FreerunMeasured` | `Spec => []Measured(r, vpc = "serve")` |
| | `MeasurementValidHolds` | `Spec => []MeasurementValid` |
| `CampaignProofs` | `ManifestsAreAttributable` | `Spec => []Attributable` |
| | `AcceptedIsAlwaysCurrent` | `Spec => []AcceptedIsCurrent` |
| | `ManifestAlwaysStands` | `Spec => ManifestStands` |
| `SweepProofs` | `ChildrenAlwaysStopped` | `Spec => []ChildrenStopped` |
| | `GateAlwaysMeansWhole` | `Spec => []GateMeansWhole` |

The assumptions are the named ones of the modules: bounds are natural numbers
(where the code needs it, at least one), options Booleans, sets of choices
subsets of what the code knows; of the policy, a coast limit below the stale
limit and an even, positive sequence space (`EpisodeAssumption`); of a free run, a
skew limit of at most `MaxSkew` (`FreerunAssumption`: `main.cpp` rejects a greater
`skew_max` before it starts). Nothing else
is assumed of the sizes: the ring, the horizon, the number of faults, attempts,
cases, rows and restarts are arbitrary.

### The telemetry ring

All theorems follow from `IInv`, whose parts are:

* `TypeOK`;
* `Indices`: `cached_tail <= tail <= ctail <= chead <= headFloor <= head` and
  `head - cached_tail <= Slots`, with strict room while a slot is being written.
  This is what neither `NoSlotRace` nor the refinement says but both need: a
  stale index is always on the safe side;
* `Contents`: slot `k % Slots` holds the `k`-th accepted record for every `k`
  between `tail` and `head`, and the slot being published holds the new one;
* `BatchHolds`: the batch holds the accepted records up to `ctail`, in order;
* `StopKnown`: once the drain has seen `stop_`, its `headFloor` is the final
  head, so that an empty pop after it means an empty ring;
* `Recorded`: `RecordingFaithful` with the sequence number it needs;
* `LossIsVisible` and `GroundCloses`, which are inductive with `TypeOK`.

The step of most substance is that `head % Slots` differs from `k % Slots` for
every `k` that may still be copied, which is where `head - tail < Slots` enters
(lemmas on residues at the start of the module).

### The episode policy

`PolicyInv` is `CommandLedger` with the state's type, in which a pending command
is a real one and the last accepted (`Sound`), and two facts about the output:
before the flight the controller has not stepped (`Grounded`), and its last step
was on the held observation (`Stepped`). Lemmas describe each stage of `step` by
what it may do to the commands (`Obeys`) and to the output (`Steers`). `TwinStep`
shows that the C++ and the Python policy, two separate translations, are the same
function of any sound state and any input, not only of the reachable ones.

### The reference run and lockstep

`HeadlessInv` says that while the loop runs the policy goes on, with an attitude
beyond the limit noticed unless the run started with it (`Underway`), and that
when it ends the policy has ended at that tick (`Ended`).

`LockstepInv` is what makes two processes and a lossy network one loop:

* `Turns`: the vehicle has answered the present tick or the one before, and what
  it answered last is the simulator's frame;
* `Wires`: every decodable sample under way is older than the last answer, is
  the one answered last, or is the frame; every reply is older than the last one
  or is the last one. So a retry can only repeat, and a late datagram can only
  be old;
* `Stepped`: the vehicle's policy state is the one the simulator last accepted,
  or one policy step on the frame ahead of it. `Built` says what the frame is
  made of, `Told` that record and reply tell of that state, `Known` which side
  knows of the ending, `Faulted` that a success hides no fault;
* `Tallies`, `Counted`, `CountersClose`: the counters;
* `PolicySound` and `Looping`: the invariants of the policy and of the reference
  run, under the refinement mapping.

Most actions (retries, losses, corruption, signals, crashes, the runner's steps)
move no transaction: lemma `Quiet` says once what they have to leave alone. The
three that do are `BuildSample`, `Receive` of the frame and `RecvReply`.
`AcceptIsTick` is the refinement's step: accepting a reply is one pass of the
loop of `run_headless.py`, by `TwinStep` and the equality of the operators in
the instances (`SameStep`, `SameRefStep`). All other steps leave the reference
run where it is.

Two more invariants rest on it. Both count the datagrams under way: `Copies`
makes a bag a set of numbered copies, `Load` is its cardinality, and `PutFacts`
and `TakeFacts` say that a send adds one and a receipt takes one, so no induction
over a sum is needed. `UpGap` and `DownGap` are the copies sent that were neither
received nor are under way.

* `FaultInv`: the gaps never become negative (`Loads`), every fault has left its
  trace (`Shown`, `Trace`), and the runner's code says what it knows of the two
  ends (`Watched`). `Lasting` is what every step respects, so a trace never goes
  away: a corrupted datagram, say, stays under way, is counted as malformed, or
  is lost and opens a gap. `Eligible` at the end leaves none of them room, which
  is `LockstepFaultsReported`.
* `CalmInv`: each tick has one sample (`Sampling`) and each cycle one reply and one
  record (`Replying`); while only sends of samples fail and replies are dropped
  (`Calm`), the upward gap is exactly the failed sends that were no fault of their
  own, plus the refusal still to be met, and the downward one is 0 (`Even`), and
  nobody stops the vehicle (`Unstopped`). At the end every conjunct of `Eligible`
  but the comparison of transmissions and receipts follows, and that one holds
  just when the gap is 0 and no copy is left unread: `LockstepRetriesHarmless`. Like `LockstepAgreement`, it
  assumes more than one tick, because the reasons of a one-tick run need not pair.

### Admission

`IInv` of `AdmissionCyclesProofs` has the parked frames within the skew
(`Window`), what is held, latched or a candidate of its kind and due (`Ordered`),
one frame remembered per tick and none newer than `newest` (`Coherent`), the
fixed buffers (`Filled`), and the three parts the properties come from:
`Accounts` (received is disposed of, parked or the candidate, in the episode and,
with the occupancy at its start, in the recorded window), `Enclosed` (an envelope
is parked, a candidate or latched unless integrity failed) and `Gathered` (the
usable samples received are parked, or no newer than the candidate).

### The free run

`StepKinds` sorts the steps of `Next` into a few kinds: what the simulator sends,
the vehicle acquiring a base tick (`Acquires`), waking and admitting a batch
(`Wakes`), serving the cycle (`Serves`), repeating its terminal reply (`Resends`),
failing (`Fails`), a datagram damaged or lost (`Damages`), and steps that leave a
part alone (`Quiet`, `Still`, `Unmoved`). Each part of the invariant has one lemma
per kind, and may use the parts before it.

* `Core` composes the two ends with the channel. `Admitting` is the invariant of
  the admission between two cycles; `CycleFacts` says what one whole cycle of
  `begin_cycle`, `receive` and `finish_cycle` does to it for any batch. `PoolOk` says of
  the frames under way, parked, held, carried over from the acquisition or cached
  as the envelope (`Around`) that there is one to a tick and that the simulator
  has sent them; `InOrder` that samples come in the order of their ticks and
  before any envelope. This is what rules out conflicts: `Accused` says that the
  integrity can fail only for corruption or skew (`NoFalseConflict`), `Presented`
  what the policy is given (`PolicyContract`). `SimOk` and `VehOk` say where the
  two processes are.
* `EndsOk` is how each side ends: a terminal reply under way tells of the vehicle's
  own ending (`Echoed`), the simulator has learned only that one (`Learned`), and the
  vehicle's reason is its own unless it has latched the simulator's (`Decision`,
  `Motive`, in the priority of `episode.cpp`). `EndsAgree` follows.
* `UpOk` follows the samples. There is a set of samples received that the counters
  count (`Tallies`), and without a fault every sample sent is in it, under way, the
  one carried over, or came after the vehicle had left (`Traced`). `RunnerOk` is
  what the runner knows when it judges. A run judged 0 received as many samples as
  were sent in the window, and the ones received are among them, so that none of
  them is missing: `LossIsReported`.
* `DownOk` does the same for the replies (`Delivery`), and `SimCloses` says that the
  simulator's books close in every state. With `UpOk` they give
  `DelaysAreNotLosses`.
* `Measured` relates the recording to the counters of the episode and of the
  recorded window. A cycle that is admitted and not yet recorded is a `Charge` on
  the counters. Counts and sums over the records are cardinalities (`Passed`,
  `Totals`) that grow with each append, so that `validate`'s sums over a recording
  of any length need no induction of their own. `Continuous` relates a record to
  the one before; that `HistoryMatches`, the recursive reading of the whole recording
  in `latency.py`, follows from it is proved with `BoundedInduction`
  (`HistoryFollows`). `AccountsClose` derives each equation of `validate`, and with
  it `MeasurementValid`, for a run that ended in any way.

### Campaigns and sweeps

`CampaignInv` orders the contents that a run has read (`Older`, `Later`): a digest
taken later is of a content at least as new (`Sourced`, `Pinned`), a case ran
between them (`Underway`, `Done`), so that equal digests at the two ends mean no
change in between. `Named` says the same of the scenario a golden entry names,
`Filed` what all this says of a written manifest: the scenario a campaign names is
at least as new as its sources, and nothing more until somebody compares them.
`CheckOk` is what a validator knows after each of its steps: the scenario a campaign
names is not older than the one of the sources named and not newer than the present
one, and these are the same when the sources named are current; an inspected golden case
was made on the trace of the scenario its entry names (`SameTrace`): the entry's
content lies between what was filed and what is there now, and the second reading
found the same one at both ends. `Filling` keeps two runs out of one torn file.

`SweepInv` follows the processes that the sweep can still stop (`Tended`), what a
row's entry may claim of how its processes ended (`Honest`), rows to come without
a claim (`Ahead`), the current row's idle states (`Current`), and the directory
that a sweep has not touched (`Untouched`). That the plan has rows, for every
invocation, is a fact about `FlattenSeq`, which is recursive: it is proved from
the least number for which it fails (`LeastNumber`, by the library's
well-foundedness of `<`).

### The ground link

The library's induction theorems take a predicate as a parameter, which the
provers cannot instantiate. `Least` states the least-number principle for a set
instead, from the library's well-foundedness of `<` and `WFMin`; `SetInduction`
and `BoundedInduction` follow, and the predicate of each induction is a set.

With them `MergeRecursion` shows that the merge's function exists for recordings
of any length, `MergeKnows` what it has found after each vehicle frame, and
`MatchMeans` what `match_streams` returns: it accepts exactly the ground
recordings made of frames of the vehicle's recording, and its counts follow from
the first and the last match. `PlacesCounted` says that leading, interior and
trailing losses with the matches are all of the vehicle's frames.

`GroundInv` ties the accounts of the three parties to each other:

* `VehicleCounts`, `VehicleRecording`: a vehicle without drops and failed writes
  recorded the frame of cycle `i - 1` at place `i`;
* `LinkFrames`, `InOrder`: a datagram of the vehicle holds a frame of the vehicle;
  the receiver's file is in order, from one sender, and ends with the frame that
  the next one is compared with;
* `ReceiverCounts`: every datagram is counted once as received and once by its
  disposition, and `recorded` is the number of frames in the file;
* `CopiesSent`: the different vehicle frames under way or written down are no more
  than the vehicle counts as sent. Neither property mentions it, and without it
  `ground_records <= sent` could fail on a repeated datagram;
* `Phases`, `Reported`: the report is the receiver's state at its end, and the exit
  code follows from it;
* `Hashed`, `Judged`: digests are those of files that may have been cut since, and
  the verdict is `check` of what was read then.

The types are the remaining three conjuncts. `EmitStep` and `ReceiveStep` carry
the argument; most others leave the parts alone (`Untouched`, `Unjudged`,
`Unreported`). `LossNeverInvalid` then needs all of `Populations` to hold, for any
pattern of loss, repetition and overtaking.

### Only model-checked

* Liveness (`StopReturns`, `RunEnds`, `ReceiverEnds`, `SweepEnds`, the fairness
  half of `ImplementsLog`): outside the proof system's reach, as is `ENABLED`.

## Not modelled

* Floating-point control, plant, fixed-point maths and random streams: the
  repository compares both implementations bit for bit on corpora; TLC has
  nothing to add. Their outcomes are choices of the environment here.
* The wire codec: byte layouts, CRC arithmetic, and the resynchronisation of
  `decode_stream`, a pure function of one buffer that would have to be modelled
  byte by byte. Whether a frame decodes is one bit in every module.
* The timing harness's real-time set-up and statistics, latency budgets,
  baselines: what they promise is about wall-clock numbers. The harness's exit
  and summary are events of `Sweep`.
* The allocation guard: a thread-local flag that aborts or counts.
* Scenario validation and trace evaluation: pure functions of one document and
  of floating-point values.
* Plots, the demonstration, corpus generators and the repository's own text
  checks: functions of finished files, without state.

## Status

Every safety invariant and every action property that a run checks is proved, for
all values of the constants that the assumptions above allow. What the proof system cannot state, liveness under
fairness, is checked by TLC on the instances above. The parts under "Not modelled"
are open.
