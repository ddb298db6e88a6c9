------------------------------- MODULE Sweep -------------------------------
(***************************************************************************)
(* scripts/sweep.py runs the planned rows one after another, each with a   *)
(* vehicle process and, at L8, a simulator peer on a CPU whose idle states *)
(* must be disabled; it files a result per row and a roster of all rows.   *)
(* scripts/bench_gate.py and latency.py read those files, possibly while   *)
(* the sweep runs or after it was interrupted, killed or started again,    *)
(* and accept the measurements or refuse them.  The files they accept no   *)
(* longer change, so that a reader is a predicate on one state.            *)
(***************************************************************************)
EXTENDS SweepPlan

CONSTANTS Invocations,  \* the options a sweep may be started with
          MaxChanges,   \* bound: changes of the peer CPU's idle states ...
          ChangeRows,   \* bound: ... and the longest plan in which they happen
          MaxStarts     \* bound: starts of the sweep in one directory

ASSUME InvocationsAssumption == 
    \A args \in Invocations : args.repeat \in Int /\ args.phases \in Nat \ {0}
ASSUME BoundsAssumption == {MaxChanges, ChangeRows} \subseteq Nat /\ MaxStarts \in Nat

VARIABLES
    rows,       \* the planned rows
    starts, pc, row,    \* this start, where it is, and in which row
    plan,       \* what run_row has filled into each row
    proc,       \* the current row's processes
    owned,      \* those whose handles run_row holds
    disk,       \* the files of the output directory
    idle,       \* TRUE: the peer CPU's idle states are all disabled
    changes,    \* changes of idle so far
    truth,      \* history: how each row's processes really ended, and whether
                \* the idle states were disabled from the peer's launch to exit,
                \* and how often they changed since they were recorded
    lost        \* history: processes that were left to themselves

vars == <<rows, starts, pc, row, plan, proc, owned, disk, idle, changes, truth, lost>>

Absent == [none |-> TRUE]
Unrun == [complete |-> FALSE, vehicle_exit |-> "none", sim_exit |-> "none", peer |-> "none"]
NoProcs == [vehicle |-> "none", peer |-> "none"]
Index == 1 .. Len(rows)

Init ==
    /\ \E args \in Invocations : ~PlanProblem(args) /\ rows = plan_runs(args)
    /\ starts = 1 /\ pc = "begin" /\ row = 1
    /\ plan = [i \in Index |-> Unrun]
    /\ proc = NoProcs /\ owned = {} /\ lost = {}
    /\ disk = [roster |-> Absent, labels |-> {}, summary |-> [i \in Index |-> Absent],
               replay |-> [i \in Index |-> Absent], result |-> [i \in Index |-> Absent]]
    /\ idle \in BOOLEAN /\ changes = 0
    /\ truth = [i \in Index |-> [vehicle |-> "none", peer |-> "none", disciplined |-> FALSE, flips |-> 0]]

-----------------------------------------------------------------------------
(* The processes and the machine. *)

L8 == rows[row].level = 8
machine == <<idle, changes>>
Running == {p \in DOMAIN proc : proc[p] = "running"}

\* The vehicle exits.  After exit 0 there is a summary, good or one that
\* row_problem refuses; after a failure there may be none.
VehicleEnds ==
    /\ proc.vehicle = "running"
    /\ \E exit \in {"0", "nonzero"}, good \in BOOLEAN, written \in BOOLEAN :
          /\ exit = "0" => written
          /\ proc' = [proc EXCEPT !.vehicle = exit]
          /\ truth' = [truth EXCEPT ![row].vehicle = exit]
          /\ disk' = IF ~written THEN disk
                     ELSE [disk EXCEPT !.summary[row] = [label |-> rows[row].label, good |-> good,
                                                         disabled |-> IF idle THEN 3 ELSE 2]]
    /\ UNCHANGED <<rows, starts, pc, row, plan, owned, machine, lost>>

PeerEnds ==
    /\ proc.peer = "running"
    /\ \E exit \in {"0", "nonzero"} :
          /\ proc' = [proc EXCEPT !.peer = exit]
          /\ truth' = [truth EXCEPT ![row].peer = exit]
    /\ UNCHANGED <<rows, starts, pc, row, plan, owned, disk, machine, lost>>

\* Somebody enables or disables the idle states of the peer CPU.
ChangeIdle ==
    /\ changes < MaxChanges /\ Len(rows) <= ChangeRows
    /\ changes' = changes + 1 /\ idle' = ~idle
    /\ truth' = IF pc \in {"launch", "poll", "idle"}
                THEN [truth EXCEPT ![row].flips = @ + 1,
                         ![row].disciplined = @ /\ (proc.peer = "none" \/ Running = {})]
                ELSE truth
    /\ UNCHANGED <<rows, starts, pc, row, plan, proc, owned, disk, lost>>

-----------------------------------------------------------------------------
(* main and run_row. *)

world == <<rows, starts, machine>>
Goto(where) == pc' = where

\* write_text empties the file before it writes: killed in between, it stays torn.
Torn == [torn |-> TRUE]

Save(complete, next) ==
    /\ disk' = [disk EXCEPT !.roster = [complete |-> complete, runs |-> plan]]
    /\ Goto(next)
    /\ UNCHANGED <<world, row, plan, proc, owned, truth, lost>>

\* The roster and every label must be new.
Fresh == disk.roster = Absent /\ disk.labels = {}

Begin ==
    /\ pc = "begin"
    /\ \/ Fresh /\ Save(FALSE, "spawn")
       \/ ~Fresh /\ Goto("failed") /\ UNCHANGED <<world, row, plan, proc, owned, disk, truth, lost>>

\* run_row: unless files of this label exist, the logs are created and the
\* vehicle is started.  Either may fail, and an interrupt between the fork and
\* the assignment loses the handle.
Spawn ==
    /\ pc = "spawn"
    /\ \E how \in IF rows[row].label \in disk.labels THEN {"exists"} ELSE {"started", "lost", "failed"} :
          /\ disk' = [disk EXCEPT !.labels = @ \cup {rows[row].label}]
          /\ proc' = [proc EXCEPT !.vehicle = IF how \in {"started", "lost"} THEN "running" ELSE @]
          /\ owned' = {p \in {"vehicle"} : how = "started"}
          /\ lost' = lost \cup {p \in {"vehicle"} : how = "lost"}
          /\ Goto(CASE how = "exists" -> "save" [] how = "started" -> IF L8 THEN "ready" ELSE "poll"
                    [] OTHER -> "stopPeer")
    /\ UNCHANGED <<world, row, plan, truth>>

\* ready_line: the vehicle announced its port, and may be gone by now.
Ready ==
    /\ pc = "ready"
    /\ Goto("peer")
    /\ UNCHANGED <<world, row, plan, proc, owned, disk, truth, lost>>

\* peer_cpu_problem: the idle states of a declared peer CPU are read ...
CheckPeer ==
    /\ pc = "peer"
    /\ rows[row].peer_cpu => idle
    /\ Goto("record")
    /\ UNCHANGED <<world, row, plan, proc, owned, disk, truth, lost>>

\* ... and read again for the record.
RecordPeer ==
    /\ pc = "record"
    /\ plan' = [plan EXCEPT ![row].peer =
                   IF rows[row].peer_cpu THEN IF idle THEN "disabled" ELSE "enabled" ELSE "none"]
    /\ Goto("launch")
    /\ UNCHANGED <<world, row, proc, owned, disk, truth, lost>>

\* The record is only kept with the row once the peer was launched.
Unlaunched == IF pc = "launch" THEN [plan EXCEPT ![row].peer = "none"] ELSE plan

\* launch_peer, or Popen without a declared CPU.
LaunchPeer ==
    /\ pc = "launch"
    /\ proc' = [proc EXCEPT !.peer = "running"]
    /\ truth' = [truth EXCEPT ![row].disciplined = idle]
    /\ \/ owned' = owned \cup {"peer"} /\ Goto("poll") /\ UNCHANGED <<plan, lost>>
       \/ lost' = lost \cup {"peer"} /\ plan' = Unlaunched /\ Goto("stopPeer") /\ UNCHANGED owned
    /\ UNCHANGED <<world, row, disk>>

\* Both processes have exited, and with 0.
BothZero == proc.vehicle = "0" /\ proc.peer \in {"none", "0"}

Poll ==
    /\ pc = "poll" /\ BothZero
    /\ Goto("idle")
    /\ UNCHANGED <<world, row, plan, proc, owned, disk, truth, lost>>

\* Mutant: the idle states are not read again.
IdleHeldUnread == TRUE

\* The recorded condition is compared with the one at the end.
IdleHeld == plan[row].peer # "none" => plan[row].peer = (IF idle THEN "disabled" ELSE "enabled")

CheckIdle ==
    /\ pc = "idle" /\ IdleHeld
    /\ Goto(IF L8 THEN "replay" ELSE "audit")
    /\ UNCHANGED <<world, row, plan, proc, owned, disk, truth, lost>>

FileReplay ==
    /\ pc = "replay"
    /\ disk' = [disk EXCEPT !.replay[row] = [peer |-> plan[row].peer]]
    /\ Goto("audit")
    /\ UNCHANGED <<world, row, plan, proc, owned, truth, lost>>

\* The run reconciles and its summary is in order.  An interrupt that lands
\* after the assignment, still in the try block, is this step too: it is
\* swallowed, the row keeps complete, and the sweep goes on.
Audit ==
    /\ pc = "audit"
    /\ disk.summary[row].good
    /\ plan' = [plan EXCEPT ![row].complete = TRUE]
    /\ Goto("stopPeer")
    /\ UNCHANGED <<world, row, proc, owned, disk, truth, lost>>

\* Mutant: the wait for the processes has no end.
ExpiredNever == FALSE

\* Only the L8 row has a deadline; harness levels keep their untimed run.
Expired == L8

\* An exception in the try block: the ten seconds of ready_line, an enabled
\* idle state, a failed launch, a failed process, the deadline, a changed idle
\* state, evidence that does not reconcile.
Raise ==
    /\ \/ pc \in {"ready", "launch", "replay", "audit"}
       \/ pc = "peer" /\ rows[row].peer_cpu /\ ~idle
       \/ pc = "poll" /\ ("nonzero" \in {proc.vehicle, proc.peer} \/ Expired)
       \/ pc = "idle" /\ ~IdleHeld
    /\ Goto("stopPeer")
    /\ plan' = Unlaunched
    /\ UNCHANGED <<world, row, proc, owned, disk, truth, lost>>

\* Mutant: a process is left running when the row did not complete.
StoppedIfComplete(p) ==
    IF p \in owned /\ proc[p] = "running" /\ plan[row].complete THEN "nonzero" ELSE proc[p]

\* stop_process: SIGTERM, and SIGKILL five seconds later.
Stopped(p) == IF p \in owned /\ proc[p] = "running" THEN "nonzero" ELSE proc[p]

\* A process that outlives SIGKILL by five seconds makes the row incomplete.
StopProcess(p, next) ==
    /\ \/ /\ proc' = [proc EXCEPT ![p] = Stopped(p)]
          /\ truth' = [truth EXCEPT ![row][p] = Stopped(p)]
          /\ UNCHANGED <<plan, lost>>
       \/ /\ p \in owned /\ proc[p] = "running"
          /\ plan' = [plan EXCEPT ![row].complete = FALSE]
          /\ lost' = lost \cup {p} /\ UNCHANGED <<proc, truth>>
    /\ Goto(next)
    /\ UNCHANGED <<world, row, owned, disk>>

StopPeer == pc = "stopPeer" /\ StopProcess("peer", "stopVehicle")
StopVehicle == pc = "stopVehicle" /\ StopProcess("vehicle", "exits")

\* A process without a handle, or still running, has no return code.
Code(p) == IF p \in owned /\ proc[p] # "running" THEN proc[p] ELSE "none"

RecordExits ==
    /\ pc = "exits"
    /\ plan' = [plan EXCEPT ![row].vehicle_exit = Code("vehicle"), ![row].sim_exit = Code("peer")]
    /\ Goto("result")
    /\ UNCHANGED <<world, row, proc, owned, disk, truth, lost>>

WriteResult ==
    /\ pc = "result"
    /\ \/ disk' = [disk EXCEPT !.result[row] = plan[row]] /\ UNCHANGED plan
       \/ plan' = [plan EXCEPT ![row].complete = FALSE] /\ UNCHANGED disk
    /\ Goto("save")
    /\ UNCHANGED <<world, row, proc, owned, truth, lost>>

\* The roster is saved after each row; one that is not complete ends the sweep.
SaveRow == pc = "save" /\ Save(FALSE, IF plan[row].complete THEN "next" ELSE "failed")

NextRow ==
    /\ pc = "next"
    /\ row' = IF row < Len(rows) THEN row + 1 ELSE row
    /\ Goto(IF row < Len(rows) THEN "spawn" ELSE "finish")
    /\ proc' = NoProcs /\ owned' = {}
    /\ UNCHANGED <<world, plan, disk, truth, lost>>

Finish == pc = "finish" /\ Save(TRUE, "done")

Over == pc \in {"failed", "done", "killed"}

\* A write that is cut short.
Cut ==
    \/ UNCHANGED disk
    \/ (pc \in {"save", "finish"} \/ (pc = "begin" /\ Fresh)) /\ disk' = [disk EXCEPT !.roster = Torn]
    \/ pc = "replay" /\ disk' = [disk EXCEPT !.replay[row] = Torn]
    \/ pc = "result" /\ disk' = [disk EXCEPT !.result[row] = Torn]

\* SIGINT or SIGTERM raises KeyboardInterrupt: in the try block the row fails
\* and is cleaned up, elsewhere the sweep ends where it stands, also in the
\* middle of a cleanup or of a write.
Interrupt ==
    /\ ~Over
    /\ Goto(IF pc \in {"ready", "peer", "record", "launch", "poll", "idle", "replay", "audit"}
            THEN "stopPeer" ELSE "failed")
    /\ Cut
    /\ plan' = Unlaunched
    /\ lost' = lost \cup (IF pc \in {"stopPeer", "stopVehicle"} THEN Running ELSE {})
    /\ UNCHANGED <<world, row, proc, owned, truth>>

\* SIGKILL.
Kill ==
    /\ ~Over
    /\ Goto("killed")
    /\ Cut
    /\ lost' = lost \cup Running
    /\ UNCHANGED <<world, row, plan, proc, owned, truth>>

\* The sweep is started again in the same directory.
Restart ==
    /\ Over /\ starts < MaxStarts
    /\ starts' = starts + 1 /\ owned' = {}
    /\ plan' = [i \in Index |-> Unrun]
    /\ Goto("begin")
    /\ UNCHANGED <<rows, machine, row, proc, disk, truth, lost>>

-----------------------------------------------------------------------------
(* The readers. *)

Rostered == disk.roster \notin {Absent, Torn}

\* session_peer: the peer CPU a roster declares, each L8 row of which has its
\* own files to corroborate it.
Declared == Rostered /\ \E i \in Index : rows[i].peer_cpu

SessionSound ==
    /\ disk.roster # Torn
    /\ Declared => \A i \in Index : rows[i].level = 8 =>
          /\ disk.roster.runs[i].peer = "disabled"
          /\ disk.result[i] = disk.roster.runs[i]
          /\ disk.replay[i] = [peer |-> disk.roster.runs[i].peer]

\* harness_configuration, l8_configuration: the row's command line and summary
\* are the level's, and a qualified L8 row's peer CPU is declared and verified.
Configured(i) ==
    /\ disk.summary[i].label = rows[i].label
    /\ rows[i].flags = 0 .. rows[i].level
    /\ rows[i].level = 8 =>
          /\ disk.replay[i] = [peer |-> disk.roster.runs[i].peer]
          /\ disk.roster.runs[i].peer = (IF rows[i].peer_cpu THEN "disabled" ELSE "none")
          /\ rows[i].qualified => rows[i].peer_cpu

\* roster_row: the roster and all its rows are complete and match the files.
roster_row ==
    /\ Rostered /\ disk.roster.complete
    /\ \A i \in Index :
          /\ disk.roster.runs[i].complete
          /\ \A j \in Index : rows[j].label = rows[i].label => j = i
          /\ disk.summary[i] # Absent
          /\ disk.result[i] = disk.roster.runs[i]
          /\ disk.roster.runs[i].vehicle_exit = "0"
          /\ rows[i].level = 8 => disk.roster.runs[i].sim_exit = "0"
          /\ Configured(i)

discipline_problem(i) ==
    ~disk.summary[i].good \/ disk.summary[i].disabled # (IF Declared THEN 3 ELSE 2)

\* candidate_rows: every summary in the directory must be in order, an L8 one
\* of the qualified window and rostered.
candidate_rows ==
    /\ SessionSound
    /\ \A i \in Index : disk.summary[i] # Absent =>
          ~discipline_problem(i) /\ (rows[i].level = 8 => rows[i].qualified /\ roster_row)

\* The gate has rows of this level to compare with their baseline.
gate(level) ==
    /\ candidate_rows
    /\ \E i \in Index : rows[i].level = level /\ disk.summary[i] # Absent

\* The latency analysis takes a whole experiment.
ordered_results == candidate_rows /\ roster_row

Step ==
    \/ Begin \/ Spawn \/ Ready \/ CheckPeer \/ RecordPeer \/ LaunchPeer \/ Poll \/ CheckIdle
    \/ FileReplay \/ Audit
    \/ StopPeer \/ StopVehicle \/ RecordExits \/ WriteResult \/ SaveRow \/ NextRow \/ Finish \/ Raise
Next == Step \/ Interrupt \/ Kill \/ Restart \/ VehicleEnds \/ PeerEnds \/ ChangeIdle

\* The sweep goes on, and a harness vehicle, which nobody else talks to, ends.
\* An L8 pair may hang.
Spec == Init /\ [][Next]_vars /\ WF_vars(Step) /\ WF_vars(~L8 /\ VehicleEnds)

-----------------------------------------------------------------------------
(* Properties. *)

\* What the gate accepts at L8, or the latency analysis takes, at any moment
\* and whatever ended or restarted the sweep, is a whole session: every planned
\* row ran, every process of it ended with 0 by itself, and the idle states of
\* the declared peer CPU were disabled from each peer's launch to its end, or
\* else were changed and changed back within the row, which nothing notices.
GateMeansWhole ==
    gate(8) \/ ordered_results =>
        \A i \in Index :
            /\ truth[i].vehicle = "0" /\ disk.summary[i].good
            /\ rows[i].level = 8 => truth[i].peer = "0"
            /\ rows[i].peer_cpu => truth[i].disciplined \/ truth[i].flips > 1

\* A sweep that has ended leaves no process running, but one that it lost
\* between fork and assignment, that outlived SIGKILL, or that it could not
\* stop because it was interrupted in the cleanup or killed.
ChildrenStopped == Over => Running \subseteq lost

\* However its processes behave, the sweep comes to an end.
SweepEnds == []<>Over
=============================================================================
