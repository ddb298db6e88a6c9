---------------------------- MODULE SweepProofs ----------------------------
(***************************************************************************)
(* Proofs about Sweep: a sweep that has ended left no process behind that  *)
(* it could have stopped, and what the gate or the latency analysis takes  *)
(* is a whole session.                                                     *)
(***************************************************************************)
EXTENDS Sweep, FiniteSetTheorems, WellFoundedInduction, TLAPS

(* The inductive invariant. *)

Codes == {"none", "0", "nonzero"}
Status == {"none", "running", "0", "nonzero"}
Entries == [complete : BOOLEAN, vehicle_exit : Codes, sim_exit : Codes,
            peer : {"none", "disabled", "enabled"}]
Truths == [vehicle : Status, peer : Status, disciplined : BOOLEAN, flips : Nat]
Rosters == [complete : BOOLEAN, runs : [Index -> Entries]]
NoTruth == [vehicle |-> "none", peer |-> "none", disciplined |-> FALSE, flips |-> 0]

Try == {"ready", "peer", "record", "launch", "poll", "idle", "replay", "audit"}
Ended == {"failed", "done", "killed"}
Live == {"spawn"} \cup Try
        \cup {"stopPeer", "stopVehicle", "exits", "result", "save", "next", "finish"}

\* There is a current row, and only L8 rows declare a peer CPU.
Planned ==
    /\ Len(rows) \in Nat \ {0} /\ row \in Index
    /\ \A i \in Index : rows[i].peer_cpu => rows[i].level = 8

SweepType ==
    /\ pc \in {"begin"} \cup Live \cup Ended
    /\ plan \in [Index -> Entries]
    /\ proc \in [vehicle : Status, peer : Status]
    /\ owned \in SUBSET {"vehicle", "peer"}
    /\ DOMAIN disk = {"roster", "labels", "summary", "replay", "result"}
    /\ Rostered => disk.roster \in Rosters
    /\ idle \in BOOLEAN
    /\ truth \in [Index -> Truths]

\* The processes that the sweep can still stop, or has lost.
Tended ==
    Running \subseteq lost \cup (IF pc \in Try \cup {"stopPeer"} THEN owned
                                 ELSE IF pc = "stopVehicle" THEN owned \cap {"vehicle"} ELSE {})

\* An untouched directory is that of a sweep that never got beyond its start.
Untouched ==
    /\ pc \in Live => disk.roster # Absent
    /\ Fresh => row = 1 /\ proc = NoProcs /\ truth = [i \in Index |-> NoTruth]
    /\ pc = "begin" => plan = [i \in Index |-> Unrun]

\* The idle states were disabled from launch to end, or changed and changed back.
Kept(t) == t.disciplined \/ t.flips > 1

\* What a row's entry claims is so, and stays so: its processes are not running.
\* p is the current row's processes, if the entry is of the current row.
Claims(e, t, current, p) ==
    /\ e.vehicle_exit = "0" => t.vehicle = "0" /\ (current => p.vehicle # "running")
    /\ e.sim_exit = "0" => t.peer = "0" /\ (current => p.peer # "running")
    /\ e.complete /\ e.peer = "disabled" => Kept(t)

Honest(entries) == \A i \in Index : Claims(entries[i], truth[i], i = row, proc)

\* The rows to come have neither a claim nor a past.
Ahead ==
    pc \in Live =>
        /\ \A i \in Index : i > row => plan[i] = Unrun /\ truth[i] = NoTruth
        /\ Rostered => \A i \in Index :
              i > row \/ (i = row /\ pc \notin {"next", "finish"}) => disk.roster.runs[i] = Unrun

\* The condition of the peer CPU while the current row's peer runs: as it was
\* recorded unless it changed.
Watched(where, e, t, now) ==
    /\ where \in {"spawn", "ready", "peer", "record"} => e.peer = "none" /\ t.flips = 0
    /\ where = "launch" /\ e.peer = "disabled" =>
          (t.flips = 0 /\ now) \/ (t.flips = 1 /\ ~now) \/ t.flips > 1
    /\ where \in {"poll", "idle"} /\ e.peer = "disabled" =>
          (t.flips = 0 /\ now /\ t.disciplined) \/ (t.flips = 1 /\ ~now) \/ t.flips > 1
    /\ where \in {"replay", "audit"} /\ e.peer = "disabled" => Kept(t)
    /\ where \in {"spawn"} \cup Try => ~e.complete
    /\ where \in {"spawn", "stopPeer", "stopVehicle", "exits"} \cup Try =>
          e.vehicle_exit = "none" /\ e.sim_exit = "none"

\* How the current row's processes ended is on record.
Seen(t, p) == (p.vehicle = "0" => t.vehicle = "0") /\ (p.peer = "0" => t.peer = "0")

Current == Watched(pc, plan[row], truth[row], idle) /\ Seen(truth[row], proc)

SweepInv ==
    /\ Planned /\ SweepType /\ Tended /\ Untouched
    /\ Honest(plan) /\ (Rostered => Honest(disk.roster.runs))
    /\ Ahead /\ Current

-----------------------------------------------------------------------------
(* Steps that stay within one row. *)

\* The two ways a file is not there are told apart, from each other and from a
\* roster that is.
LEMMA FilesDiffer ==
    /\ Torn # Absent
    /\ \A c, r : [complete |-> c, runs |-> r] \notin {Absent, Torn}
<1>1. "none" \in DOMAIN Absent /\ "none" \notin DOMAIN Torn
  BY DEF Absent, Torn
<1>2. \A c, r : [complete |-> c, runs |-> r] \notin {Absent, Torn}
  <2> TAKE c, r
  <2>1. "complete" \in DOMAIN [complete |-> c, runs |-> r]
    OBVIOUS
  <2>2. "complete" \notin DOMAIN Absent /\ "complete" \notin DOMAIN Torn
    BY DEF Absent, Torn
  <2> QED
    BY <2>1, <2>2
<1> QED
  BY <1>1, <1>2

\* The invariant survives a step that changes the current row alone, if that
\* row's entry and the roster's still claim nothing but the truth.
LEMMA RowMoves ==
    ASSUME SweepInv, UNCHANGED <<rows, row>>,
           plan' \in [Index -> Entries], \A i \in Index : i # row => plan'[i] = plan[i],
           truth' \in [Index -> Truths], \A i \in Index : i # row => truth'[i] = truth[i],
           SweepType', Tended', Untouched', Rostered' => Rostered /\ disk'.roster = disk.roster,
           Claims(plan[row]', truth[row]', TRUE, proc'),
           Rostered => Claims(disk.roster.runs[row], truth[row]', TRUE, proc'),
           Watched(pc', plan[row]', truth[row]', idle'), Seen(truth[row]', proc'),
           pc' \in Live => pc \in Live /\ (pc \in {"next", "finish"} => pc' \in {"next", "finish"})
    PROVE  SweepInv'
<1>1. Planned'
  BY DEF SweepInv, Planned, Index
<1>2. Honest(plan)'
  BY DEF SweepInv, Honest, Index, Claims
<1>3. Rostered' => Honest(disk.roster.runs)'
  BY DEF SweepInv, Honest, Index, Claims
<1>4. Ahead'
  <2>1. \A i \in Index : i > row => i # row
    BY DEF SweepInv, Planned, Index
  <2> QED
    BY <2>1 DEF SweepInv, Ahead, Index
<1>5. Current'
  BY DEF Current
<1> QED
  BY <1>1, <1>2, <1>3, <1>4, <1>5 DEF SweepInv

\* A step of the try block that leaves the row's entry, its processes and the
\* roster alone.
LEMMA TryMoves ==
    ASSUME SweepInv, UNCHANGED <<world, row, plan, proc, owned, truth, lost>>,
           DOMAIN disk' = DOMAIN disk, disk'.roster = disk.roster, disk'.labels = disk.labels,
           pc \in Try, pc' \in Try \cup {"stopPeer"},
           Watched(pc', plan[row], truth[row], idle)
    PROVE  SweepInv'
<1>1. UNCHANGED <<rows, row, Index, idle, plan, truth, proc, Rostered, Fresh, Running>>
  BY DEF world, machine, Index, Rostered, Fresh, Running
<1>2. SweepType'
  BY <1>1 DEF SweepInv, SweepType, Live, Try, Index, Rosters
<1>3. Tended'
  BY <1>1 DEF SweepInv, Tended
<1>4. Untouched'
  BY <1>1 DEF SweepInv, Untouched, Live, Try, Index
<1>5. pc' \in Live /\ pc \in Live /\ pc \notin {"next", "finish"}
  BY DEF Live, Try
<1>6. /\ Claims(plan[row], truth[row], TRUE, proc) /\ Seen(truth[row], proc)
      /\ Rostered => Claims(disk.roster.runs[row], truth[row], TRUE, proc)
  BY DEF SweepInv, Honest, Planned, Current
<1> QED
  BY <1>1, <1>2, <1>3, <1>4, <1>5, <1>6, RowMoves DEF SweepInv, SweepType

\* The vehicle announced its port.
LEMMA ReadyKeeps == SweepInv /\ Ready => SweepInv'
<1> SUFFICES ASSUME SweepInv, Ready PROVE SweepInv'
  OBVIOUS
<1>1. Watched("peer", plan[row], truth[row], idle)
  BY DEF SweepInv, Current, Watched, Ready, Try
<1> QED
  BY <1>1, TryMoves DEF Ready, Goto, Try

\* The idle states of the peer CPU are read.
LEMMA CheckPeerKeeps == SweepInv /\ CheckPeer => SweepInv'
<1> SUFFICES ASSUME SweepInv, CheckPeer PROVE SweepInv'
  OBVIOUS
<1>1. Watched("record", plan[row], truth[row], idle)
  BY DEF SweepInv, Current, Watched, CheckPeer, Try
<1> QED
  BY <1>1, TryMoves DEF CheckPeer, Goto, Try

\* Both processes ended.
LEMMA PollKeeps == SweepInv /\ Poll => SweepInv'
<1> SUFFICES ASSUME SweepInv, Poll PROVE SweepInv'
  OBVIOUS
<1>1. Watched("idle", plan[row], truth[row], idle)
  BY DEF SweepInv, Current, Watched, Poll, Try
<1> QED
  BY <1>1, TryMoves DEF Poll, Goto, Try

\* The condition is what was recorded: it never changed, or more than once.
LEMMA CheckIdleKeeps == SweepInv /\ CheckIdle => SweepInv'
<1> SUFFICES ASSUME SweepInv, CheckIdle PROVE SweepInv'
  OBVIOUS
<1>1. Watched(pc', plan[row], truth[row], idle) /\ pc' \in {"replay", "audit"}
  <2>1. pc' \in {"replay", "audit"} /\ pc = "idle"
    BY DEF CheckIdle, Goto
  <2>2. plan[row].peer = "disabled" => idle
    BY DEF CheckIdle, IdleHeld
  <2>3. plan[row].peer = "disabled" => Kept(truth[row])
    BY <2>1, <2>2 DEF SweepInv, Current, Watched, Kept
  <2> QED
    BY <2>1, <2>3 DEF SweepInv, Current, Watched, Try
<1> QED
  BY <1>1, TryMoves DEF CheckIdle, Goto, Try

\* The replay file is written.
LEMMA FileReplayKeeps == SweepInv /\ FileReplay => SweepInv'
<1> SUFFICES ASSUME SweepInv, FileReplay PROVE SweepInv'
  OBVIOUS
<1>1. Watched("audit", plan[row], truth[row], idle)
  BY DEF SweepInv, Current, Watched, FileReplay, Try
<1>2. DOMAIN disk' = DOMAIN disk /\ disk'.roster = disk.roster /\ disk'.labels = disk.labels
  BY DEF SweepInv, SweepType, FileReplay
<1> QED
  BY <1>1, <1>2, TryMoves DEF FileReplay, Goto, Try

\* The condition of the peer CPU is recorded.
LEMMA RecordPeerKeeps == SweepInv /\ RecordPeer => SweepInv'
<1> SUFFICES ASSUME SweepInv, RecordPeer PROVE SweepInv'
  OBVIOUS
<1>1. UNCHANGED <<rows, row, Index, idle, truth, proc, owned, lost, disk, Rostered, Fresh, Running>>
  BY DEF RecordPeer, world, machine, Index, Rostered, Fresh, Running
<1> DEFINE p == IF rows[row].peer_cpu THEN IF idle THEN "disabled" ELSE "enabled" ELSE "none"
<1>2. /\ plan' = [plan EXCEPT ![row].peer = p] /\ pc = "record" /\ pc' = "launch"
      /\ p \in {"none", "disabled", "enabled"} /\ (p = "disabled" => idle)
  BY DEF RecordPeer, Goto
<1> HIDE DEF p
<1>3. /\ row \in Index /\ plan \in [Index -> Entries] /\ plan[row] \in Entries
      /\ plan' \in [Index -> Entries] /\ \A i \in Index : i # row => plan'[i] = plan[i]
      /\ plan'[row] = [plan[row] EXCEPT !.peer = p]
  <2>1. row \in Index /\ plan \in [Index -> Entries]
    BY DEF SweepInv, SweepType, Planned
  <2>2. plan[row] \in Entries
    BY <2>1
  <2>3. [plan[row] EXCEPT !.peer = p] \in Entries
    BY <1>2, <2>2 DEF Entries
  <2> QED
    BY <1>2, <2>1, <2>2, <2>3
<1>4. /\ plan'[row].peer = p /\ plan'[row].complete = plan[row].complete
      /\ plan'[row].vehicle_exit = plan[row].vehicle_exit /\ plan'[row].sim_exit = plan[row].sim_exit
  BY <1>3 DEF Entries
<1>5. SweepType'
  BY <1>1, <1>2, <1>3 DEF SweepInv, SweepType, Live, Try, Index, Rosters
<1>6. Tended' /\ Untouched'
  BY <1>1, <1>2 DEF SweepInv, Tended, Untouched, Live, Try, Index
<1>7. ~plan[row].complete /\ plan[row].vehicle_exit = "none" /\ plan[row].sim_exit = "none"
      /\ truth[row].flips = 0
  BY <1>2 DEF SweepInv, Current, Watched, Try
<1>8. Watched("launch", plan'[row], truth[row], idle)
  BY <1>2, <1>4, <1>7 DEF Watched
<1>9. /\ Claims(plan'[row], truth[row], TRUE, proc) /\ Seen(truth[row], proc)
      /\ Rostered => Claims(disk.roster.runs[row], truth[row], TRUE, proc)
  BY <1>3, <1>4, <1>7 DEF SweepInv, Honest, Claims, Current
<1>10. pc \in Live /\ pc \notin {"next", "finish"}
  BY <1>2 DEF Live, Try
<1> QED
  BY <1>1, <1>2, <1>3, <1>5, <1>6, <1>8, <1>9, <1>10, RowMoves DEF SweepInv, SweepType

\* The evidence is in order: what the entry says of the peer CPU is so.
LEMMA AuditKeeps == SweepInv /\ Audit => SweepInv'
<1> SUFFICES ASSUME SweepInv, Audit PROVE SweepInv'
  OBVIOUS
<1>1. UNCHANGED <<rows, row, Index, idle, truth, proc, owned, lost, disk, Rostered, Fresh, Running>>
  BY DEF Audit, world, machine, Index, Rostered, Fresh, Running
<1>2. /\ plan' = [plan EXCEPT ![row].complete = TRUE] /\ pc = "audit" /\ pc' = "stopPeer"
  BY DEF Audit, Goto
<1>3. /\ row \in Index /\ plan \in [Index -> Entries] /\ plan[row] \in Entries
      /\ plan' \in [Index -> Entries] /\ \A i \in Index : i # row => plan'[i] = plan[i]
      /\ plan'[row] = [plan[row] EXCEPT !.complete = TRUE]
  <2>1. row \in Index /\ plan \in [Index -> Entries]
    BY DEF SweepInv, SweepType, Planned
  <2>2. plan[row] \in Entries
    BY <2>1
  <2>3. [plan[row] EXCEPT !.complete = TRUE] \in Entries
    BY <2>2 DEF Entries
  <2> QED
    BY <1>2, <2>1, <2>2, <2>3
<1>4. /\ plan'[row].peer = plan[row].peer
      /\ plan'[row].vehicle_exit = plan[row].vehicle_exit /\ plan'[row].sim_exit = plan[row].sim_exit
  BY <1>3 DEF Entries
<1>5. SweepType'
  BY <1>1, <1>2, <1>3 DEF SweepInv, SweepType, Live, Try, Index, Rosters
<1>6. Tended' /\ Untouched'
  BY <1>1, <1>2 DEF SweepInv, Tended, Untouched, Live, Try, Index
<1>7. /\ plan[row].vehicle_exit = "none" /\ plan[row].sim_exit = "none"
      /\ plan[row].peer = "disabled" => Kept(truth[row])
  BY <1>2 DEF SweepInv, Current, Watched, Try
<1>8. Watched("stopPeer", plan'[row], truth[row], idle)
  BY <1>4, <1>7 DEF Watched, Try
<1>9. /\ Claims(plan'[row], truth[row], TRUE, proc) /\ Seen(truth[row], proc)
      /\ Rostered => Claims(disk.roster.runs[row], truth[row], TRUE, proc)
  BY <1>3, <1>4, <1>7 DEF SweepInv, Honest, Claims, Current
<1>10. pc \in Live /\ pc \notin {"next", "finish"} /\ "stopPeer" \in Live
  BY <1>2 DEF Live, Try
<1> QED
  BY <1>1, <1>2, <1>3, <1>5, <1>6, <1>8, <1>9, <1>10, RowMoves DEF SweepInv, SweepType

\* Until its result is saved, the roster claims nothing of the current row.
LEMMA NothingFiled ==
    ASSUME SweepInv, pc \in Live \ {"next", "finish"}, NEW t, NEW p
    PROVE  Rostered => Claims(disk.roster.runs[row], t, TRUE, p)
<1>1. row \in Index
  BY DEF SweepInv, Planned
<1>2. Rostered => disk.roster.runs[row] = Unrun
  BY <1>1 DEF SweepInv, Ahead
<1>3. Claims(Unrun, t, TRUE, p)
  BY DEF Claims, Unrun
<1> QED
  BY <1>2, <1>3

\* Before its peer was launched and its processes ended a row's entry claims
\* nothing, with the record of the peer CPU or without it.
LEMMA UnlaunchedFacts ==
    ASSUME SweepInv
    PROVE  /\ Unlaunched \in [Index -> Entries] /\ \A i \in Index : i # row => Unlaunched[i] = plan[i]
           /\ Unlaunched[row].complete = plan[row].complete
           /\ Unlaunched[row].vehicle_exit = plan[row].vehicle_exit
           /\ Unlaunched[row].sim_exit = plan[row].sim_exit
           /\ pc # "launch" => Unlaunched = plan
<1>1. row \in Index /\ plan \in [Index -> Entries] /\ plan[row] \in Entries
  BY DEF SweepInv, SweepType, Planned
<1>2. CASE pc # "launch"
  BY <1>1, <1>2 DEF Unlaunched
<1>3. CASE pc = "launch"
  <2>1. Unlaunched = [plan EXCEPT ![row] = [plan[row] EXCEPT !.peer = "none"]]
    BY <1>1, <1>3 DEF Unlaunched
  <2>2. Unlaunched[row] = [plan[row] EXCEPT !.peer = "none"]
    BY <1>1, <2>1
  <2> QED
    BY <1>1, <1>3, <2>1, <2>2 DEF Entries
<1> QED
  BY <1>2, <1>3

\* The row fails, and its processes are to be stopped.
LEMMA TryFails ==
    ASSUME SweepInv, UNCHANGED <<rows, row, idle>>, pc \in {"spawn"} \cup Try, pc' = "stopPeer",
           plan' = Unlaunched, SweepType', Tended',
           \A i \in Index : i # row => truth'[i] = truth[i], Seen(truth[row]', proc'),
           disk'.roster = disk.roster
    PROVE  SweepInv'
<1>1. /\ plan' \in [Index -> Entries] /\ \A i \in Index : i # row => plan'[i] = plan[i]
      /\ ~plan'[row].complete /\ plan'[row].vehicle_exit = "none" /\ plan'[row].sim_exit = "none"
  BY UnlaunchedFacts DEF SweepInv, Current, Watched
<1>2. Index' = Index /\ Rostered' = Rostered
  BY DEF Index, Rostered
<1>3. truth' \in [Index -> Truths]
  BY <1>2 DEF SweepType
<1>4. pc \in Live \ {"next", "finish"} /\ pc' \in Live
  BY DEF Live, Try
<1>5. Untouched'
  BY <1>4 DEF SweepInv, Untouched, Fresh
<1>6. Claims(plan'[row], truth'[row], TRUE, proc') /\ Watched("stopPeer", plan'[row], truth'[row], idle')
  BY <1>1 DEF Claims, Watched, Try
<1>7. Rostered => Claims(disk.roster.runs[row], truth'[row], TRUE, proc')
  BY <1>4, NothingFiled
<1> QED
  BY <1>1, <1>2, <1>3, <1>4, <1>5, <1>6, <1>7, RowMoves

\* An exception in the try block.
LEMMA RaiseKeeps == SweepInv /\ Raise => SweepInv'
<1> SUFFICES ASSUME SweepInv, Raise PROVE SweepInv'
  OBVIOUS
<1>1. UNCHANGED <<rows, row, Index, idle, truth, proc, owned, lost, disk, Rostered, Running>>
  BY DEF Raise, world, machine, Index, Rostered, Running
<1>2. pc \in Try /\ pc' = "stopPeer" /\ plan' = Unlaunched
  BY DEF Raise, Try, Goto
<1>3. SweepType'
  BY <1>1, <1>2, UnlaunchedFacts DEF SweepInv, SweepType, Live, Index, Rosters
<1>4. Tended' /\ Seen(truth[row]', proc')
  BY <1>1, <1>2 DEF SweepInv, Tended, Current
<1> QED
  BY <1>1, <1>2, <1>3, <1>4, TryFails

\* The peer is launched, and the handle kept or lost.
LEMMA LaunchPeerKeeps == SweepInv /\ LaunchPeer => SweepInv'
<1> SUFFICES ASSUME SweepInv, LaunchPeer PROVE SweepInv'
  OBVIOUS
<1>1. /\ UNCHANGED <<rows, row, Index, idle, disk, Rostered, Fresh>> /\ pc = "launch"
      /\ proc' = [proc EXCEPT !.peer = "running"]
      /\ truth' = [truth EXCEPT ![row].disciplined = idle]
  BY DEF LaunchPeer, world, machine, Index, Rostered, Fresh
<1>2. /\ row \in Index /\ plan \in [Index -> Entries] /\ truth \in [Index -> Truths]
      /\ plan[row] \in Entries /\ truth[row] \in Truths /\ idle \in BOOLEAN
      /\ proc \in [vehicle : Status, peer : Status]
  BY DEF SweepInv, SweepType, Planned
<1>3. /\ truth' = [truth EXCEPT ![row] = [truth[row] EXCEPT !.disciplined = idle]]
      /\ truth' \in [Index -> Truths] /\ \A i \in Index : i # row => truth'[i] = truth[i]
  BY <1>1, <1>2 DEF Truths
<1>4. truth'[row].disciplined = idle /\ truth'[row].flips = truth[row].flips
  BY <1>2, <1>3 DEF Truths
<1>5. /\ proc' \in [vehicle : Status, peer : Status]
      /\ Running' \subseteq Running \cup {"peer"}
      /\ proc'.vehicle = proc.vehicle /\ proc'.peer = "running"
  BY <1>1, <1>2 DEF Running, Status
<1>6. Seen(truth'[row], proc')
  <2>1. truth'[row].vehicle = truth[row].vehicle
    BY <1>2, <1>3 DEF Truths
  <2> QED
    BY <1>5, <2>1 DEF SweepInv, Current, Seen
<1>7. CASE /\ owned' = owned \cup {"peer"} /\ pc' = "poll" /\ UNCHANGED <<plan, lost>>
  <2>1. SweepType'
    BY <1>1, <1>2, <1>3, <1>5, <1>7 DEF SweepInv, SweepType, Live, Try, Index, Rosters
  <2>2. Tended' /\ Untouched'
    <3>1. Tended'
      BY <1>1, <1>5, <1>7 DEF SweepInv, Tended, Try
    <3>2. ~Fresh /\ disk.roster # Absent /\ pc' # "begin"
      BY <1>1, <1>7 DEF SweepInv, Untouched, Fresh, Live, Try
    <3> QED
      BY <1>1, <3>1, <3>2 DEF Untouched
  <2>3. /\ ~plan[row].complete /\ plan[row].vehicle_exit = "none" /\ plan[row].sim_exit = "none"
        /\ plan[row].peer = "disabled" =>
              (truth[row].flips = 0 /\ idle) \/ (truth[row].flips = 1 /\ ~idle) \/ truth[row].flips > 1
    BY <1>1 DEF SweepInv, Current, Watched, Try
  <2>4. /\ Watched("poll", plan[row], truth'[row], idle)
        /\ Claims(plan[row], truth'[row], TRUE, proc')
    BY <1>4, <2>3 DEF Watched, Claims
  <2>5. pc \in Live \ {"next", "finish"} /\ pc' \in Live
    BY <1>1, <1>7 DEF Live, Try
  <2>6. Rostered => Claims(disk.roster.runs[row], truth'[row], TRUE, proc')
    BY <2>5, NothingFiled
  <2> QED
    BY <1>1, <1>2, <1>3, <1>7, <1>6, <2>1, <2>2, <2>4, <2>5, <2>6, RowMoves
<1>8. CASE lost' = lost \cup {"peer"} /\ plan' = Unlaunched /\ pc' = "stopPeer" /\ UNCHANGED owned
  <2>1. SweepType'
    BY <1>1, <1>2, <1>3, <1>5, <1>8, UnlaunchedFacts DEF SweepInv, SweepType, Live, Index, Rosters
  <2>2. Tended'
    BY <1>1, <1>5, <1>8 DEF SweepInv, Tended, Try
  <2>3. pc \in Try
    BY <1>1 DEF Try
  <2> QED
    BY <1>1, <1>3, <1>8, <1>6, <2>1, <2>2, <2>3, TryFails
<1> QED
  BY <1>7, <1>8 DEF LaunchPeer, Goto

\* The vehicle is started, or not, and its handle kept or lost.
LEMMA SpawnKeeps == SweepInv /\ Spawn => SweepInv'
<1> SUFFICES ASSUME SweepInv, Spawn PROVE SweepInv'
  OBVIOUS
<1>1. /\ UNCHANGED <<rows, row, Index, idle, plan, truth>> /\ pc = "spawn"
  BY DEF Spawn, world, machine, Index
<1>2. PICK how \in {"exists", "started", "lost", "failed"} :
          /\ disk' = [disk EXCEPT !.labels = @ \cup {rows[row].label}]
          /\ proc' = [proc EXCEPT !.vehicle = IF how \in {"started", "lost"} THEN "running" ELSE @]
          /\ owned' = {p \in {"vehicle"} : how = "started"}
          /\ lost' = lost \cup {p \in {"vehicle"} : how = "lost"}
          /\ pc' = (CASE how = "exists" -> "save" [] how = "started" -> IF L8 THEN "ready" ELSE "poll"
                    [] OTHER -> "stopPeer")
  BY DEF Spawn, Goto
<1>3. /\ row \in Index /\ plan \in [Index -> Entries] /\ truth \in [Index -> Truths]
      /\ proc \in [vehicle : Status, peer : Status]
  BY DEF SweepInv, SweepType, Planned
<1>4. /\ DOMAIN disk' = DOMAIN disk /\ disk'.roster = disk.roster
      /\ Rostered' = Rostered
  BY <1>2 DEF SweepInv, SweepType, Rostered
<1>5. /\ proc' \in [vehicle : Status, peer : Status]
      /\ how = "started" => Running' \subseteq Running \cup {"vehicle"}
      /\ how = "lost" => Running' \subseteq Running \cup {"vehicle"}
      /\ how \in {"exists", "failed"} => Running' \subseteq Running
      /\ proc'.peer = proc.peer /\ proc'.vehicle \in {"running", proc.vehicle}
  BY <1>2, <1>3 DEF Running, Status
<1>6. /\ pc' \in {"save", "ready", "poll", "stopPeer"}
      /\ how = "started" => pc' \in {"ready", "poll"}
      /\ how = "exists" => pc' = "save"
      /\ how \in {"lost", "failed"} => pc' = "stopPeer"
  BY <1>2
<1>7. SweepType'
  BY <1>1, <1>2, <1>3, <1>4, <1>5, <1>6 DEF SweepInv, SweepType, Live, Try, Index, Rosters
<1>8. Running \subseteq lost
  BY <1>1 DEF SweepInv, Tended, Try
<1>9. Tended'
  <2>1. CASE how = "started"
    BY <1>2, <1>5, <1>6, <1>8, <2>1 DEF Tended, Try
  <2>2. CASE how = "lost"
    BY <1>2, <1>5, <1>6, <1>8, <2>2 DEF Tended
  <2>3. CASE how \in {"exists", "failed"}
    BY <1>2, <1>5, <1>6, <1>8, <2>3 DEF Tended
  <2> QED
    BY <2>1, <2>2, <2>3
<1>10. pc \in Live \ {"next", "finish"} /\ pc' \in Live
  BY <1>1, <1>6 DEF Live, Try
<1>11. Untouched'
  <2>1. disk'.roster # Absent
    BY <1>4, <1>10 DEF SweepInv, Untouched
  <2> QED
    BY <1>6, <2>1 DEF Untouched, Fresh
<1>12. /\ ~plan[row].complete /\ plan[row].vehicle_exit = "none" /\ plan[row].sim_exit = "none"
       /\ plan[row].peer = "none" /\ truth[row].flips = 0
  BY <1>1 DEF SweepInv, Current, Watched
<1>13. /\ Watched(pc', plan[row], truth[row], idle) /\ Claims(plan[row], truth[row], TRUE, proc')
       /\ Seen(truth[row], proc')
  BY <1>5, <1>6, <1>12 DEF Watched, Claims, Try, SweepInv, Current, Seen
<1>14. Rostered => Claims(disk.roster.runs[row], truth[row], TRUE, proc')
  BY <1>10, NothingFiled
<1> QED
  BY <1>1, <1>3, <1>4, <1>7, <1>9, <1>10, <1>11, <1>13, <1>14, RowMoves

\* A process of the row is stopped, or outlives the attempt.
LEMMA StopProcessKeeps ==
    ASSUME SweepInv, NEW p \in {"peer", "vehicle"}, NEW next, StopProcess(p, next),
           \/ p = "peer" /\ pc = "stopPeer" /\ next = "stopVehicle"
           \/ p = "vehicle" /\ pc = "stopVehicle" /\ next = "exits"
    PROVE  SweepInv'
<1>1. UNCHANGED <<rows, row, Index, idle, owned, disk, Rostered, Fresh>> /\ pc' = next
  BY DEF StopProcess, Goto, world, machine, Index, Rostered, Fresh
<1>2. /\ row \in Index /\ plan \in [Index -> Entries] /\ truth \in [Index -> Truths]
      /\ plan[row] \in Entries /\ truth[row] \in Truths
      /\ proc \in [vehicle : Status, peer : Status] /\ owned \in SUBSET {"vehicle", "peer"}
  BY DEF SweepInv, SweepType, Planned
<1>3. /\ plan[row].vehicle_exit = "none" /\ plan[row].sim_exit = "none"
      /\ plan[row].complete /\ plan[row].peer = "disabled" => Kept(truth[row])
  BY <1>2 DEF SweepInv, Current, Watched, Honest, Claims
<1>4. pc \in Live \ {"next", "finish"} /\ pc' \in Live /\ pc' # "begin"
  BY <1>1 DEF Live
<1>5. Untouched'
  <2>1. disk.roster # Absent
    BY <1>4 DEF SweepInv, Untouched
  <2> QED
    BY <1>1, <1>4, <2>1 DEF Untouched, Fresh
<1>6. Running \subseteq lost \cup owned /\ (p = "vehicle" => Running \subseteq lost \cup {"vehicle"})
  BY DEF SweepInv, Tended, Try
<1>7. SUFFICES /\ plan' \in [Index -> Entries] /\ \A i \in Index : i # row => plan'[i] = plan[i]
               /\ truth' \in [Index -> Truths] /\ \A i \in Index : i # row => truth'[i] = truth[i]
               /\ proc' \in [vehicle : Status, peer : Status] /\ Tended'
               /\ plan'[row].vehicle_exit = "none" /\ plan'[row].sim_exit = "none"
               /\ Seen(truth'[row], proc')
               /\ plan'[row].complete /\ plan'[row].peer = "disabled" => Kept(truth'[row])
  <2>1. SweepType'
    BY <1>1, <1>4, <1>7 DEF SweepInv, SweepType, Index, Rosters
  <2>2. Claims(plan'[row], truth'[row], TRUE, proc') /\ Watched(pc', plan'[row], truth'[row], idle)
    BY <1>1, <1>7 DEF Claims, Watched, Try
  <2>3. Rostered => Claims(disk.roster.runs[row], truth'[row], TRUE, proc')
    BY <1>4, NothingFiled
  <2> QED
    BY <1>1, <1>4, <1>5, <1>7, <2>1, <2>2, <2>3, RowMoves
<1>8. CASE /\ proc' = [proc EXCEPT ![p] = Stopped(p)]
           /\ truth' = [truth EXCEPT ![row][p] = Stopped(p)]
           /\ UNCHANGED <<plan, lost>>
  <2> DEFINE q == Stopped(p)
  <2>1. q \in Status /\ (q = "running" => proc[p] = "running" /\ p \notin owned)
    BY <1>2 DEF Stopped, Status
  <2>2. proc' = [proc EXCEPT ![p] = q] /\ truth' = [truth EXCEPT ![row] = [truth[row] EXCEPT ![p] = q]]
    BY <1>2, <1>8 DEF Truths
  <2> HIDE DEF q
  <2>3. /\ truth' \in [Index -> Truths] /\ \A i \in Index : i # row => truth'[i] = truth[i]
        /\ truth'[row] = [truth[row] EXCEPT ![p] = q]
    BY <1>2, <2>1, <2>2 DEF Truths
  <2>4. truth'[row].disciplined = truth[row].disciplined /\ truth'[row].flips = truth[row].flips
    BY <1>2, <2>3 DEF Truths
  <2>5. proc' \in [vehicle : Status, peer : Status] /\ proc'[p] = q
        /\ \A x \in {"vehicle", "peer"} : x # p => proc'[x] = proc[x]
    BY <1>2, <2>1, <2>2
  <2>6. Running' \subseteq Running /\ (p \in Running' => p \notin owned)
    BY <1>2, <2>1, <2>5 DEF Running
  <2>7. Tended'
    <3>1. Running' \subseteq lost \cup owned /\ Running' \subseteq {"vehicle", "peer"}
      BY <1>2, <1>6, <2>6 DEF Running
    <3>2. CASE p = "peer"
      BY <1>1, <1>8, <2>6, <3>1, <3>2 DEF Tended, Try
    <3>3. CASE p = "vehicle"
      BY <1>1, <1>6, <1>8, <2>6, <3>1, <3>3 DEF Tended, Try
    <3> QED
      BY <3>2, <3>3
  <2>8. Seen(truth'[row], proc')
    <3>1. truth'[row][p] = q /\ \A x \in {"vehicle", "peer"} : x # p => truth'[row][x] = truth[row][x]
      BY <1>2, <2>3 DEF Truths
    <3> QED
      BY <2>5, <3>1 DEF SweepInv, Current, Seen
  <2> QED
    BY <1>2, <1>3, <1>8, <2>3, <2>4, <2>5, <2>7, <2>8 DEF Kept
<1>9. CASE /\ p \in owned /\ proc[p] = "running"
           /\ plan' = [plan EXCEPT ![row].complete = FALSE]
           /\ lost' = lost \cup {p} /\ UNCHANGED <<proc, truth>>
  <2>1. /\ plan' = [plan EXCEPT ![row] = [plan[row] EXCEPT !.complete = FALSE]]
        /\ plan' \in [Index -> Entries] /\ \A i \in Index : i # row => plan'[i] = plan[i]
        /\ plan'[row] = [plan[row] EXCEPT !.complete = FALSE]
    BY <1>2, <1>9 DEF Entries
  <2>2. /\ plan'[row].vehicle_exit = plan[row].vehicle_exit
        /\ plan'[row].sim_exit = plan[row].sim_exit /\ ~plan'[row].complete
    BY <1>2, <2>1 DEF Entries
  <2>3. Running' = Running
    BY <1>9 DEF Running
  <2>4. Tended' /\ Seen(truth'[row], proc')
    BY <1>1, <1>2, <1>6, <1>9, <2>3 DEF Tended, Try, SweepInv, Current
  <2> QED
    BY <1>2, <1>3, <1>9, <2>1, <2>2, <2>4
<1> QED
  BY <1>8, <1>9 DEF StopProcess

\* The return codes are those of the processes that have ended.
LEMMA RecordExitsKeeps == SweepInv /\ RecordExits => SweepInv'
<1> SUFFICES ASSUME SweepInv, RecordExits PROVE SweepInv'
  OBVIOUS
<1> DEFINE v == Code("vehicle")
           s == Code("peer")
<1>1. UNCHANGED <<rows, row, Index, idle, truth, proc, owned, lost, disk, Rostered, Fresh, Running>>
  BY DEF RecordExits, world, machine, Index, Rostered, Fresh, Running
<1>2. /\ plan' = [plan EXCEPT ![row].vehicle_exit = v, ![row].sim_exit = s]
      /\ pc = "exits" /\ pc' = "result"
  BY DEF RecordExits, Goto
<1>3. /\ row \in Index /\ plan \in [Index -> Entries] /\ plan[row] \in Entries
      /\ proc \in [vehicle : Status, peer : Status]
  BY DEF SweepInv, SweepType, Planned
<1>4. /\ v \in Codes /\ (v = "0" => proc.vehicle = "0")
      /\ s \in Codes /\ (s = "0" => proc.peer = "0")
  BY <1>3 DEF Code, Status, Codes
<1> HIDE DEF v, s
<1> DEFINE e == [plan[row] EXCEPT !.vehicle_exit = v]
           f == [e EXCEPT !.sim_exit = s]
<1>5. plan' = [plan EXCEPT ![row] = f]
  BY <1>2, <1>3 DEF Entries
<1>6. e \in Entries /\ e.vehicle_exit = v /\ e.complete = plan[row].complete /\ e.peer = plan[row].peer
  BY <1>3, <1>4 DEF Entries
<1> HIDE DEF e
<1>7. /\ f \in Entries /\ f.vehicle_exit = v /\ f.sim_exit = s
      /\ f.complete = plan[row].complete /\ f.peer = plan[row].peer
  BY <1>4, <1>6 DEF Entries
<1> HIDE DEF f
<1>8. /\ plan' \in [Index -> Entries] /\ \A i \in Index : i # row => plan'[i] = plan[i]
      /\ plan'[row] = f
  BY <1>3, <1>5, <1>7
<1>9. SweepType'
  BY <1>1, <1>2, <1>8 DEF SweepInv, SweepType, Live, Index, Rosters
<1>10. Tended' /\ Untouched'
  BY <1>1, <1>2 DEF SweepInv, Tended, Untouched, Live, Try, Index
<1>11. pc \in Live \ {"next", "finish"}
  BY <1>2 DEF Live
<1>12. Claims(f, truth[row], TRUE, proc) /\ Seen(truth[row], proc)
  BY <1>2, <1>3, <1>4, <1>7 DEF SweepInv, Honest, Claims, Current, Seen
<1>13. Watched("result", f, truth[row], idle)
  BY DEF Watched, Try
<1>14. Rostered => Claims(disk.roster.runs[row], truth[row], TRUE, proc)
  BY <1>11, NothingFiled
<1> QED
  BY <1>1, <1>2, <1>8, <1>9, <1>10, <1>11, <1>12, <1>13, <1>14, RowMoves DEF SweepInv, SweepType

\* The row's result is written, or the row is incomplete.
LEMMA WriteResultKeeps == SweepInv /\ WriteResult => SweepInv'
<1> SUFFICES ASSUME SweepInv, WriteResult PROVE SweepInv'
  OBVIOUS
<1>1. /\ UNCHANGED <<rows, row, Index, idle, truth, proc, owned, lost, Running>>
      /\ pc = "result" /\ pc' = "save"
  BY DEF WriteResult, Goto, world, machine, Index, Running
<1>2. /\ row \in Index /\ plan \in [Index -> Entries] /\ plan[row] \in Entries
      /\ Claims(plan[row], truth[row], TRUE, proc) /\ Seen(truth[row], proc)
  BY DEF SweepInv, SweepType, Planned, Honest, Current
<1>3. DOMAIN disk' = DOMAIN disk /\ disk'.roster = disk.roster
  BY DEF WriteResult, SweepInv, SweepType
<1>4. Rostered' = Rostered
  BY <1>3 DEF Rostered
<1>5. /\ plan' \in [Index -> Entries] /\ \A i \in Index : i # row => plan'[i] = plan[i]
      /\ Claims(plan'[row], truth[row], TRUE, proc)
  <2>1. CASE plan' = plan
    BY <1>2, <2>1
  <2>2. CASE plan' = [plan EXCEPT ![row].complete = FALSE]
    <3>1. /\ plan' = [plan EXCEPT ![row] = [plan[row] EXCEPT !.complete = FALSE]]
          /\ plan' \in [Index -> Entries] /\ \A i \in Index : i # row => plan'[i] = plan[i]
          /\ plan'[row] = [plan[row] EXCEPT !.complete = FALSE]
      BY <1>2, <2>2 DEF Entries
    <3>2. /\ plan'[row].vehicle_exit = plan[row].vehicle_exit
          /\ plan'[row].sim_exit = plan[row].sim_exit /\ ~plan'[row].complete
      BY <1>2, <3>1 DEF Entries
    <3> QED
      BY <1>2, <3>1, <3>2 DEF Claims
  <2> QED
    BY <2>1, <2>2 DEF WriteResult
<1>6. SweepType'
  BY <1>1, <1>3, <1>4, <1>5 DEF SweepInv, SweepType, Live, Index, Rosters
<1>7. pc \in Live \ {"next", "finish"} /\ disk.roster # Absent
  BY <1>1 DEF SweepInv, Untouched, Live
<1>8. Tended' /\ Untouched'
  BY <1>1, <1>3, <1>7 DEF SweepInv, Tended, Untouched, Fresh, Try
<1>9. Watched("save", plan'[row], truth[row], idle)
  BY DEF Watched, Try
<1>10. Rostered => Claims(disk.roster.runs[row], truth[row], TRUE, proc)
  BY <1>7, NothingFiled
<1> QED
  BY <1>1, <1>2, <1>3, <1>4, <1>5, <1>6, <1>7, <1>8, <1>9, <1>10, RowMoves DEF SweepInv, SweepType

\* The roster is saved: it then claims what the plan claims.
LEMMA SaveKeeps ==
    ASSUME SweepInv, NEW complete \in BOOLEAN, NEW next, Save(complete, next),
           \/ pc = "begin" /\ Fresh /\ next = "spawn"
           \/ pc = "save" /\ next \in {"next", "failed"}
           \/ pc = "finish" /\ next = "done"
    PROVE  SweepInv'
<1>1. /\ UNCHANGED <<rows, row, Index, idle, plan, truth, proc, owned, lost, Running>>
      /\ pc' = next
  BY DEF Save, Goto, world, machine, Index, Running
<1>2. row \in Index /\ plan \in [Index -> Entries]
  BY DEF SweepInv, SweepType, Planned
<1>3. DOMAIN disk' = DOMAIN disk /\ disk'.roster = [complete |-> complete, runs |-> plan]
  BY DEF Save, SweepInv, SweepType
<1>4. /\ disk'.roster \notin {Absent, Torn} /\ disk'.roster.runs = plan
      /\ disk'.roster \in [complete : BOOLEAN, runs : [Index -> Entries]]
  BY <1>2, <1>3, FilesDiffer
<1>5. SweepType'
  BY <1>1, <1>3, <1>4 DEF SweepInv, SweepType, Live, Ended, Index, Rosters
<1>6. Tended' /\ Untouched'
  BY <1>1, <1>4 DEF SweepInv, Tended, Untouched, Fresh, Try
<1>7. Planned' /\ Honest(plan)' /\ Honest(disk.roster.runs)'
  BY <1>1, <1>4 DEF SweepInv, Planned, Honest, Index
<1>8. CASE pc = "begin"
  <2>1. plan = [i \in Index |-> Unrun] /\ truth = [i \in Index |-> NoTruth]
    BY <1>8 DEF SweepInv, Untouched
  <2>2. Ahead'
    BY <1>1, <1>4, <2>1 DEF Ahead
  <2>3. Current'
    <3>1. plan[row] = Unrun /\ truth[row] = NoTruth
      BY <1>2, <2>1
    <3>2. Watched("spawn", Unrun, NoTruth, idle)
      BY DEF Watched, Unrun, NoTruth, Try
    <3> QED
      BY <1>1, <1>8, <3>1, <3>2 DEF SweepInv, Current
  <2> QED
    BY <1>5, <1>6, <1>7, <2>2, <2>3 DEF SweepInv
<1>9. CASE pc # "begin"
  <2>1. Ahead'
    <3>1. pc \in Live /\ (pc' \in Live => pc' = "next")
      BY <1>1, <1>9 DEF Live, Try
    <3> QED
      BY <1>1, <1>4, <1>2, <3>1 DEF SweepInv, Ahead, Planned, Index
  <2>2. Current'
    BY <1>1, <1>9 DEF SweepInv, Current, Watched, Try
  <2> QED
    BY <1>5, <1>6, <1>7, <2>1, <2>2 DEF SweepInv
<1> QED
  BY <1>8, <1>9

\* The sweep begins in a new directory, or refuses.
LEMMA BeginKeeps == SweepInv /\ Begin => SweepInv'
<1> SUFFICES ASSUME SweepInv, Begin PROVE SweepInv'
  OBVIOUS
<1>1. CASE Fresh /\ Save(FALSE, "spawn")
  BY <1>1, SaveKeeps DEF Begin
<1>2. CASE ~Fresh /\ Goto("failed") /\ UNCHANGED <<world, row, plan, proc, owned, disk, truth, lost>>
  <2>1. /\ UNCHANGED <<rows, row, Index, idle, plan, truth, proc, owned, disk, lost, Running, Fresh, Rostered>>
        /\ pc' = "failed" /\ pc = "begin"
    BY <1>2 DEF Begin, Goto, world, machine, Index, Running, Fresh, Rostered
  <2>2. pc' \notin Live /\ pc' \in Ended
    BY <2>1 DEF Live, Ended, Try
  <2>3. SweepType' /\ Planned'
    BY <2>1, <2>2 DEF SweepInv, SweepType, Planned, Index, Rosters
  <2>4. Tended' /\ Untouched' /\ Ahead'
    BY <1>2, <2>1, <2>2 DEF SweepInv, Tended, Untouched, Ahead, Try
  <2>5. Honest(plan)' /\ (Rostered' => Honest(disk.roster.runs)')
    BY <2>1 DEF SweepInv, Honest
  <2>6. Current'
    BY <2>1 DEF SweepInv, Current, Watched, Try
  <2> QED
    BY <2>3, <2>4, <2>5, <2>6 DEF SweepInv
<1> QED
  BY <1>1, <1>2 DEF Begin

\* The next row, if there is one, has neither claim nor past.
LEMMA NextRowKeeps == SweepInv /\ NextRow => SweepInv'
<1> SUFFICES ASSUME SweepInv, NextRow PROVE SweepInv'
  OBVIOUS
<1>1. /\ UNCHANGED <<rows, Index, idle, plan, truth, disk, lost, Rostered>> /\ pc = "next"
      /\ row' = (IF row < Len(rows) THEN row + 1 ELSE row)
      /\ pc' = (IF row < Len(rows) THEN "spawn" ELSE "finish")
      /\ proc' = NoProcs /\ owned' = {}
  BY DEF NextRow, Goto, world, machine, Index, Rostered
<1>2. row' \in Index /\ row' >= row /\ Planned'
  BY <1>1 DEF SweepInv, Planned, Index
<1>3. SweepType'
  BY <1>1 DEF SweepInv, SweepType, Live, Index, Rosters, NoProcs, Status
<1>4. Tended'
  <2>1. Running' = {}
    BY <1>1 DEF Running, NoProcs
  <2> QED
    BY <2>1 DEF Tended
<1>5. pc \in Live /\ pc' \in Live
  BY <1>1 DEF Live
<1>6. Untouched'
  BY <1>1, <1>5 DEF SweepInv, Untouched, Fresh
<1>7. NoProcs.vehicle # "running" /\ NoProcs.peer # "running" /\ NoProcs.vehicle # "0" /\ NoProcs.peer # "0"
  BY DEF NoProcs
<1>8. Honest(plan)' /\ (Rostered' => Honest(disk.roster.runs)')
  BY <1>1, <1>7 DEF SweepInv, Honest, Claims
<1>9. Ahead'
  BY <1>1, <1>2, <1>5 DEF SweepInv, Ahead, Planned, Index
<1>10. Current'
  <2>1. Seen(truth'[row'], proc')
    BY <1>1, <1>7 DEF Seen
  <2>2. CASE row < Len(rows)
    <3>1. plan[row'] = Unrun /\ truth[row'] = NoTruth
      BY <1>1, <1>2, <1>5, <2>2 DEF SweepInv, Ahead, Planned, Index
    <3>2. Watched("spawn", Unrun, NoTruth, idle)
      BY DEF Watched, Unrun, NoTruth, Try
    <3> QED
      BY <1>1, <2>1, <2>2, <3>1, <3>2 DEF Current
  <2>3. CASE ~(row < Len(rows))
    BY <1>1, <2>1, <2>3 DEF Current, Watched, Try
  <2> QED
    BY <2>2, <2>3
<1> QED
  BY <1>2, <1>3, <1>4, <1>6, <1>8, <1>9, <1>10 DEF SweepInv

-----------------------------------------------------------------------------
(* Interrupts, restarts, and what happens beside the sweep. *)

\* A write that is cut short tears one file; outside the try block it may be
\* the roster.
LEMMA CutFacts ==
    ASSUME SweepInv, Cut
    PROVE  /\ DOMAIN disk' = DOMAIN disk /\ disk'.labels = disk.labels
           /\ disk'.roster = disk.roster \/ (disk'.roster = Torn /\ pc \notin Try)
<1>1. {"roster", "labels", "replay", "result"} \subseteq DOMAIN disk
  BY DEF SweepInv, SweepType
<1>2. pc \in {"save", "finish", "begin"} => pc \notin Try
  BY DEF Try
<1> QED
  BY <1>1, <1>2 DEF Cut

\* The sweep ends where it stands.
LEMMA StopsHere ==
    ASSUME SweepInv, UNCHANGED <<world, row, plan, proc, owned, truth>>, Cut,
           pc' \in Ended, Running \subseteq lost'
    PROVE  SweepInv'
<1>1. UNCHANGED <<rows, row, Index, idle, plan, truth, proc, owned, Running>>
  BY DEF world, machine, Index, Running
<1>2. pc' \notin Live /\ pc' # "begin" /\ pc' \notin Try \cup {"stopPeer", "stopVehicle", "exits", "spawn"}
  BY DEF Live, Ended, Try
<1>3. /\ DOMAIN disk' = DOMAIN disk /\ (Rostered' => Rostered /\ disk'.roster = disk.roster)
      /\ Fresh' => Fresh
  BY CutFacts, FilesDiffer DEF Rostered, Fresh
<1>4. SweepType'
  BY <1>1, <1>3 DEF SweepInv, SweepType, Index, Rosters
<1>5. Tended'
  BY <1>1 DEF Tended
<1>6. Untouched'
  BY <1>1, <1>2, <1>3 DEF SweepInv, Untouched
<1>7. /\ row \in Index /\ Claims(plan[row], truth[row], TRUE, proc)
      /\ Rostered => Claims(disk.roster.runs[row], truth[row], TRUE, proc)
  BY DEF SweepInv, Planned, Honest
<1>8. Watched(pc', plan[row], truth[row], idle) /\ Seen(truth[row], proc)
  BY <1>2 DEF Watched, SweepInv, Current, Try
<1> QED
  BY <1>1, <1>2, <1>3, <1>4, <1>5, <1>6, <1>7, <1>8, RowMoves DEF SweepInv, SweepType

\* SIGKILL: whatever runs is left to itself.
LEMMA KillKeeps == SweepInv /\ Kill => SweepInv'
<1> SUFFICES ASSUME SweepInv, Kill PROVE SweepInv'
  OBVIOUS
<1>1. pc' \in Ended /\ Running \subseteq lost'
  BY DEF Kill, Goto, Ended
<1> QED
  BY <1>1, StopsHere DEF Kill

\* An interrupt: the row is cleaned up, or the sweep ends where it stands.
LEMMA InterruptKeeps == SweepInv /\ Interrupt => SweepInv'
<1> SUFFICES ASSUME SweepInv, Interrupt PROVE SweepInv'
  OBVIOUS
<1>1. CASE pc \in Try
  <2>1. UNCHANGED <<rows, row, Index, idle, truth, proc, owned, Running>>
    BY DEF Interrupt, world, machine, Index, Running
  <2>2. pc' = "stopPeer" /\ plan' = Unlaunched /\ lost' = lost
    BY <1>1 DEF Interrupt, Goto, Try
  <2>3. DOMAIN disk' = DOMAIN disk /\ disk'.roster = disk.roster
    BY <1>1, CutFacts DEF Interrupt
  <2>4. SweepType'
    BY <2>1, <2>2, <2>3, UnlaunchedFacts DEF SweepInv, SweepType, Live, Index, Rosters, Rostered
  <2>5. Tended' /\ Seen(truth[row]', proc')
    BY <1>1, <2>1, <2>2 DEF SweepInv, Tended, Current
  <2> QED
    BY <1>1, <2>1, <2>2, <2>3, <2>4, <2>5, TryFails
<1>2. CASE pc \notin Try
  <2>1. pc' \in Ended
    BY <1>2 DEF Interrupt, Goto, Try, Ended
  <2>2. plan' = plan
    BY <1>2, UnlaunchedFacts DEF Interrupt, Try
  <2>3. Running \subseteq lost'
    <3>1. CASE pc \in {"stopPeer", "stopVehicle"}
      BY <3>1 DEF Interrupt
    <3>2. CASE pc \notin {"stopPeer", "stopVehicle"}
      BY <1>2, <3>2 DEF Interrupt, SweepInv, Tended
    <3> QED
      BY <3>1, <3>2
  <2> QED
    BY <2>1, <2>2, <2>3, StopsHere DEF Interrupt
<1> QED
  BY <1>1, <1>2

\* A new start forgets the plan, and finds on disk what is there.
LEMMA RestartKeeps == SweepInv /\ Restart => SweepInv'
<1> SUFFICES ASSUME SweepInv, Restart PROVE SweepInv'
  OBVIOUS
<1>1. /\ UNCHANGED <<rows, row, Index, idle, truth, proc, lost, disk, Running, Fresh, Rostered>>
      /\ pc \in Ended /\ pc' = "begin" /\ owned' = {} /\ plan' = [i \in Index |-> Unrun]
  BY DEF Restart, Over, Ended, Goto, machine, Index, Running, Fresh, Rostered
<1>2. Unrun \in Entries /\ \A t, c, p : Claims(Unrun, t, c, p)
  BY DEF Unrun, Entries, Codes, Claims
<1>3. SweepType' /\ Planned'
  BY <1>1, <1>2 DEF SweepInv, SweepType, Planned, Index, Rosters
<1>4. pc \notin Live /\ pc' \notin Live /\ pc \notin Try \cup {"stopPeer", "stopVehicle"}
  BY <1>1 DEF Live, Try, Ended
<1>5. Tended' /\ Untouched' /\ Ahead'
  BY <1>1, <1>4 DEF SweepInv, Tended, Untouched, Ahead
<1>6. Honest(plan)'
  BY <1>1, <1>2 DEF Honest
<1>7. Rostered' => Honest(disk.roster.runs)'
  BY <1>1 DEF SweepInv, Honest
<1>8. Current'
  BY <1>1 DEF SweepInv, Current, Watched, Try
<1> QED
  BY <1>3, <1>5, <1>6, <1>7, <1>8 DEF SweepInv

\* A process of the current row ends by itself.
LEMMA EndKeeps ==
    ASSUME SweepInv, NEW p \in {"vehicle", "peer"}, NEW exit \in {"0", "nonzero"},
           proc[p] = "running", proc' = [proc EXCEPT ![p] = exit],
           truth' = [truth EXCEPT ![row][p] = exit],
           DOMAIN disk' = DOMAIN disk, disk'.roster = disk.roster, disk'.labels = disk.labels,
           UNCHANGED <<rows, pc, row, plan, owned, idle, lost>>
    PROVE  SweepInv'
<1>1. Index' = Index /\ Rostered' = Rostered /\ Fresh' = Fresh
  BY DEF Index, Rostered, Fresh
<1>2. /\ row \in Index /\ plan \in [Index -> Entries] /\ truth \in [Index -> Truths]
      /\ truth[row] \in Truths /\ proc \in [vehicle : Status, peer : Status]
  BY DEF SweepInv, SweepType, Planned
<1>3. /\ truth' = [truth EXCEPT ![row] = [truth[row] EXCEPT ![p] = exit]]
      /\ truth' \in [Index -> Truths] /\ \A i \in Index : i # row => truth'[i] = truth[i]
      /\ truth'[row] = [truth[row] EXCEPT ![p] = exit]
  BY <1>2 DEF Truths, Status
<1>4. /\ truth'[row].disciplined = truth[row].disciplined /\ truth'[row].flips = truth[row].flips
      /\ truth'[row][p] = exit
      /\ \A x \in {"vehicle", "peer"} : x # p => truth'[row][x] = truth[row][x]
  BY <1>2, <1>3 DEF Truths
<1>5. /\ proc' \in [vehicle : Status, peer : Status] /\ proc'[p] = exit
      /\ \A x \in {"vehicle", "peer"} : x # p => proc'[x] = proc[x]
  BY <1>2 DEF Status
<1>6. Running' \subseteq Running
  BY <1>2, <1>5 DEF Running
<1>7. SweepType'
  BY <1>1, <1>3, <1>5 DEF SweepInv, SweepType, Index, Rosters
<1>8. Tended'
  BY <1>6 DEF SweepInv, Tended
<1>9. ~Fresh
  <2>1. proc # NoProcs
    BY DEF NoProcs
  <2> QED
    BY <2>1 DEF SweepInv, Untouched
<1>10. Untouched'
  BY <1>1, <1>9 DEF SweepInv, Untouched
<1>11. /\ Claims(plan[row], truth[row], TRUE, proc)
       /\ Rostered => Claims(disk.roster.runs[row], truth[row], TRUE, proc)
  BY <1>2 DEF SweepInv, Honest
<1>12. ASSUME NEW e, Claims(e, truth[row], TRUE, proc) PROVE Claims(e, truth'[row], TRUE, proc')
  BY <1>4, <1>5, <1>12 DEF Claims, Kept
<1>13. Watched(pc, plan[row], truth'[row], idle) /\ Seen(truth'[row], proc')
  BY <1>4, <1>5 DEF SweepInv, Current, Watched, Seen, Kept
<1> QED
  BY <1>1, <1>2, <1>3, <1>7, <1>8, <1>10, <1>11, <1>12, <1>13, RowMoves

\* The vehicle exits, with a summary or without.
LEMMA VehicleEndsKeeps == SweepInv /\ VehicleEnds => SweepInv'
<1> SUFFICES ASSUME SweepInv, VehicleEnds PROVE SweepInv'
  OBVIOUS
<1>1. PICK exit \in {"0", "nonzero"}, good \in BOOLEAN, written \in BOOLEAN :
          /\ proc' = [proc EXCEPT !.vehicle = exit]
          /\ truth' = [truth EXCEPT ![row].vehicle = exit]
          /\ disk' = IF ~written THEN disk
                     ELSE [disk EXCEPT !.summary[row] = [label |-> rows[row].label, good |-> good,
                                                         disabled |-> IF idle THEN 3 ELSE 2]]
  BY DEF VehicleEnds
<1>2. DOMAIN disk' = DOMAIN disk /\ disk'.roster = disk.roster /\ disk'.labels = disk.labels
  BY <1>1 DEF SweepInv, SweepType
<1>3. proc["vehicle"] = "running" /\ UNCHANGED <<rows, pc, row, plan, owned, idle, lost>>
  BY DEF VehicleEnds, machine
<1> QED
  BY <1>1, <1>2, <1>3, EndKeeps

\* The peer exits.
LEMMA PeerEndsKeeps == SweepInv /\ PeerEnds => SweepInv'
<1> SUFFICES ASSUME SweepInv, PeerEnds PROVE SweepInv'
  OBVIOUS
<1>1. PICK exit \in {"0", "nonzero"} :
          /\ proc' = [proc EXCEPT !.peer = exit]
          /\ truth' = [truth EXCEPT ![row].peer = exit]
  BY DEF PeerEnds
<1>2. proc["peer"] = "running" /\ UNCHANGED <<rows, pc, row, plan, owned, idle, lost, disk>>
  BY DEF PeerEnds, machine
<1> QED
  BY <1>1, <1>2, EndKeeps

\* A change of the idle states is counted while the peer is watched, and
\* changes no claim, for the row has none yet.
LEMMA ChangeIdleKeeps == SweepInv /\ ChangeIdle => SweepInv'
<1> SUFFICES ASSUME SweepInv, ChangeIdle PROVE SweepInv'
  OBVIOUS
<1>1. /\ UNCHANGED <<rows, pc, row, plan, proc, owned, disk, lost, Index, Rostered, Fresh, Running>>
      /\ idle' = ~idle
  BY DEF ChangeIdle, Index, Rostered, Fresh, Running
<1>2. /\ row \in Index /\ plan \in [Index -> Entries] /\ truth \in [Index -> Truths]
      /\ truth[row] \in Truths /\ idle \in BOOLEAN
  BY DEF SweepInv, SweepType, Planned
<1>3. Tended'
  BY <1>1 DEF SweepInv, Tended
<1>4. /\ Claims(plan[row], truth[row], TRUE, proc) /\ Seen(truth[row], proc)
      /\ Rostered => Claims(disk.roster.runs[row], truth[row], TRUE, proc)
  BY <1>2 DEF SweepInv, Honest, Current
<1>5. CASE pc \notin {"launch", "poll", "idle"}
  <2>1. truth' = truth
    BY <1>5 DEF ChangeIdle
  <2>2. SweepType' /\ Untouched'
    BY <1>1, <1>2, <2>1 DEF SweepInv, SweepType, Untouched, Index, Rosters
  <2>3. Watched(pc, plan[row], truth[row], ~idle)
    BY <1>5 DEF SweepInv, Current, Watched
  <2> QED
    BY <1>1, <1>2, <1>3, <1>4, <2>1, <2>2, <2>3, RowMoves
<1>6. CASE pc \in {"launch", "poll", "idle"}
  <2> DEFINE d == truth[row].disciplined /\ (proc.peer = "none" \/ Running = {})
             t == [truth[row] EXCEPT !.flips = truth[row].flips + 1]
             u == [t EXCEPT !.disciplined = d]
  <2>1. truth' = [truth EXCEPT ![row] = u] /\ d \in BOOLEAN
    BY <1>2, <1>6 DEF ChangeIdle, Truths
  <2> HIDE DEF d
  <2>2. /\ t \in Truths /\ t.flips = truth[row].flips + 1
        /\ t.vehicle = truth[row].vehicle /\ t.peer = truth[row].peer
    BY <1>2 DEF Truths
  <2> HIDE DEF t
  <2>3. u \in Truths /\ u.flips = t.flips /\ u.vehicle = t.vehicle /\ u.peer = t.peer
    BY <2>1, <2>2 DEF Truths
  <2> HIDE DEF u
  <2>4. /\ truth' \in [Index -> Truths] /\ \A i \in Index : i # row => truth'[i] = truth[i]
        /\ truth'[row] = u
    BY <1>2, <2>1, <2>3
  <2>5. SweepType'
    BY <1>1, <1>2, <2>4 DEF SweepInv, SweepType, Index, Rosters
  <2>6. pc \in Live \ {"next", "finish"}
    BY <1>6 DEF Live, Try
  <2>7. Untouched'
    <3>1. disk.roster # Absent /\ pc # "begin"
      BY <1>6, <2>6 DEF SweepInv, Untouched
    <3> QED
      BY <1>1, <3>1 DEF Untouched, Fresh
  <2>8. Rostered => Claims(disk.roster.runs[row], u, TRUE, proc)
    BY <2>6, NothingFiled
  <2>9. /\ ~plan[row].complete /\ plan[row].vehicle_exit = "none" /\ plan[row].sim_exit = "none"
        /\ plan[row].peer = "disabled" =>
              (truth[row].flips = 0 /\ idle) \/ (truth[row].flips = 1 /\ ~idle) \/ truth[row].flips > 1
    BY <1>6 DEF SweepInv, Current, Watched, Try
  <2>10. truth[row].flips \in Nat
    BY <1>2 DEF Truths
  <2>11. Watched(pc, plan[row], u, ~idle) /\ Claims(plan[row], u, TRUE, proc) /\ Seen(u, proc)
    BY <1>4, <1>6, <2>2, <2>3, <2>9, <2>10 DEF Watched, Claims, Seen
  <2> QED
    BY <1>1, <1>2, <1>3, <2>4, <2>5, <2>6, <2>7, <2>8, <2>11, RowMoves
<1> QED
  BY <1>5, <1>6

-----------------------------------------------------------------------------
(* The plan. *)

\* A set of natural numbers has a least one: the induction of this module.
LEMMA LeastNumber ==
    ASSUME NEW T \in SUBSET Nat, T # {}
    PROVE  \E x \in T : \A y \in T : x <= y
<1>1. PICK x \in T : \A y \in T : ~(<<y, x>> \in OpToRel(<, Nat))
  BY NatLessThanWellFounded, WFMin
<1>2. \A y \in T : ~(y < x)
  <2> TAKE y \in T
  <2>1. y < x => <<y, x>> \in OpToRel(<, Nat)
    BY Zenon DEF OpToRel
  <2> QED
    BY <1>1, <2>1
<1> QED
  BY <1>2

\* Lists of rows that are not empty make a list of rows that is not empty.
LEMMA Flattened ==
    ASSUME NEW S, NEW n \in Nat \ {0}, NEW s \in [1 .. n -> Seq(S) \ {<<>>}]
    PROVE  FlattenSeq(s) \in Seq(S) \ {<<>>}
<1> DEFINE Entry(f, i) == IF i = 1 THEN s[i] ELSE f[i - 1] \o s[i]
           Folds(m, f) == f = [i \in 1 .. m |-> Entry(f, i)]
<1>1. \E f : Folds(n, f)
  <2> DEFINE Bad == {m \in 1 .. n : ~\E f : Folds(m, f)}
  <2>1. Bad \in SUBSET Nat /\ Bad \subseteq 1 .. n
    <3> HIDE DEF Folds
    <3> QED
      OBVIOUS
  <2>2. SUFFICES ASSUME ~\E f : Folds(n, f) PROVE FALSE
    OBVIOUS
  <2>3. n \in Bad
    <3> HIDE DEF Folds
    <3> QED
      BY <2>2
  <2>4. PICK m \in Bad : \A k \in Bad : m <= k
    <3> HIDE DEF Bad
    <3> QED
      BY <2>1, <2>3, LeastNumber
  <2>5. m \in 1 .. n /\ m - 1 \notin Bad
    <3> HIDE DEF Bad
    <3> QED
      BY <2>1, <2>4
  <2>6. ~\E f : Folds(m, f)
    BY <2>4
  <2>7. CASE m = 1
    <3>1. Folds(m, [i \in 1 .. 1 |-> s[i]])
      BY <2>7
    <3> HIDE DEF Folds
    <3> QED
      BY <2>6, <3>1
  <2>8. CASE m # 1
    <3>1. m - 1 \in 1 .. n
      BY <2>5, <2>8
    <3>2. PICK f : Folds(m - 1, f)
      <4> HIDE DEF Folds
      <4> QED
        BY <2>5, <3>1
    <3>3. ASSUME NEW i \in 1 .. m - 1 PROVE f[i] = Entry(f, i)
      <4> HIDE DEF Entry
      <4> QED
        BY <3>2, <3>3
    <3> DEFINE g == [i \in 1 .. m |-> IF i < m THEN f[i] ELSE f[m - 1] \o s[m]]
    <3>4. ASSUME NEW i \in 1 .. m
          PROVE  g[i] = Entry(g, i)
      <4>1. CASE i = m
        <5>1. g[m] = f[m - 1] \o s[m] /\ g[m - 1] = f[m - 1]
          <6> HIDE DEF Bad
          <6> QED
            BY <2>5, <2>8
        <5> HIDE DEF g, Bad
        <5> QED
          BY <2>5, <2>8, <4>1, <5>1
      <4>2. CASE i < m
        <5>1. i \in 1 .. m - 1 /\ g[i] = f[i] /\ f[i] = Entry(f, i)
          BY <2>5, <3>3, <3>4, <4>2
        <5>2. i # 1 => g[i - 1] = f[i - 1]
          BY <2>5, <3>4, <4>2
        <5>3. Entry(g, i) = Entry(f, i)
          <6> HIDE DEF g
          <6> QED
            BY <5>2
        <5> HIDE DEF g, Entry
        <5> QED
          BY <5>1, <5>3
      <4> QED
        BY <2>5, <3>4, <4>1, <4>2
    <3>5. Folds(m, g)
      <4> HIDE DEF Entry
      <4> QED
        BY <3>4
    <3> HIDE DEF Folds, g
    <3> QED
      BY <2>6, <3>5
  <2> QED
    BY <2>7, <2>8
<1> DEFINE g == CHOOSE g : g = [i \in 1 .. Len(s) |-> IF i = 1 THEN s[i] ELSE g[i - 1] \o s[i]]
<1>2. Len(s) = n
  OBVIOUS
<1>3. g = [i \in 1 .. Len(s) |-> IF i = 1 THEN s[i] ELSE g[i - 1] \o s[i]]
  <2>1. \E f : f = [i \in 1 .. Len(s) |-> IF i = 1 THEN s[i] ELSE f[i - 1] \o s[i]]
    BY <1>1, <1>2
  <2> QED
    BY <2>1, Zenon
<1>4. Len(s) # 0 => FlattenSeq(s) = g[Len(s)]
  BY Zenon DEF FlattenSeq
<1> HIDE DEF g
<1>5. g[n] \in Seq(S) \ {<<>>}
  <2> DEFINE Bad == {i \in 1 .. n : g[i] \notin Seq(S) \ {<<>>}}
  <2>1. Bad \in SUBSET Nat /\ Bad \subseteq 1 .. n
    OBVIOUS
  <2>2. SUFFICES ASSUME g[n] \notin Seq(S) \ {<<>>} PROVE FALSE
    OBVIOUS
  <2>3. n \in Bad
    BY <2>2
  <2>4. PICK i \in Bad : \A k \in Bad : i <= k
    <3> HIDE DEF Bad
    <3> QED
      BY <2>1, <2>3, LeastNumber
  <2>5. i \in 1 .. n /\ i - 1 \notin Bad
    <3> HIDE DEF Bad
    <3> QED
      BY <2>1, <2>4
  <2>6. g[i] = IF i = 1 THEN s[i] ELSE g[i - 1] \o s[i]
    BY <1>2, <1>3, <2>5
  <2>7. CASE i = 1
    BY <2>4, <2>5, <2>6, <2>7
  <2>8. CASE i # 1
    <3>1. g[i - 1] \in Seq(S) \ {<<>>} /\ s[i] \in Seq(S) \ {<<>>}
      BY <2>5, <2>8
    <3>2. g[i - 1] \o s[i] \in Seq(S) \ {<<>>}
      BY <3>1
    <3> QED
      BY <2>4, <2>6, <2>8, <3>2
  <2> QED
    BY <2>7, <2>8
<1> QED
  BY <1>2, <1>4, <1>5

\* Only an L8 row declares a peer CPU.
LEMMA RowDeclares ==
    ASSUME NEW level, NEW phase, NEW repeat, NEW args
    PROVE  /\ Row(level, phase, repeat, args).level = level
           /\ Row(level, phase, repeat, args).peer_cpu => level = 8
  BY DEF Row

\* A plan has rows, and none but its L8 rows declares a peer CPU.
LEMMA PlanHasRows ==
    ASSUME NEW args, args.repeat \in Int, args.phases \in Nat \ {0}, ~PlanProblem(args)
    PROVE  /\ Len(plan_runs(args)) \in Nat \ {0}
           /\ \A i \in 1 .. Len(plan_runs(args)) :
                 plan_runs(args)[i].peer_cpu => plan_runs(args)[i].level = 8
<1> DEFINE levels == args.only \cap plan_levels(args.cpu)
           selected == InOrder(levels)
           N == Cardinality(levels)
           phases(level) == IF level = 8 THEN args.phases ELSE 1
           S == {Row(selected[i], p, r, args) : i \in 1 .. N, p \in Nat, r \in Nat}
           rowsOf(level, r) == [p \in 1 .. phases(level) |-> Row(level, p, r, args)]
           overLevels(r) == FlattenSeq([i \in 1 .. N |-> rowsOf(selected[i], r)])
           repeats(level, p) == [r \in 1 .. args.repeat |-> Row(level, p, r, args)]
           overRepeats(level) == FlattenSeq([p \in 1 .. phases(level) |-> repeats(level, p)])
<1>1. args.repeat \in Nat \ {0} /\ levels # {}
  BY DEF PlanProblem
<1>2. N \in Nat \ {0}
  <2>1. IsFiniteSet(0 .. 8)
    BY FS_Interval, 0 \in Int, 8 \in Int, Zenon
  <2>2. levels \in SUBSET (0 .. 8)
    <3>1. plan_levels(args.cpu) \subseteq Levels
      BY Zenon DEF plan_levels
    <3> QED
      BY <3>1 DEF Levels
  <2>3. IsFiniteSet(levels)
    BY <2>1, <2>2, FS_Subset
  <2> HIDE DEF levels
  <2> QED
    BY <1>1, <2>3, FS_CardinalityType, FS_EmptySet
<1>3. Len(selected) = N
  <2> HIDE DEF levels
  <2> QED
    BY <1>2 DEF InOrder
<1>4. plan_runs(args) = IF args.interleave
                        THEN FlattenSeq([r \in 1 .. args.repeat |-> overLevels(r)])
                        ELSE FlattenSeq([i \in 1 .. N |-> overRepeats(selected[i])])
  <2>1. plan_runs(args) =
            IF args.interleave
            THEN FlattenSeq([r \in 1 .. args.repeat |->
                    FlattenSeq([i \in 1 .. Len(selected) |-> rowsOf(selected[i], r)])])
            ELSE FlattenSeq([i \in 1 .. Len(selected) |-> overRepeats(selected[i])])
    BY Zenon DEF plan_runs
  <2> HIDE DEF selected, N, rowsOf, overRepeats
  <2> QED
    BY <1>3, <2>1
<1> HIDE DEF levels, selected, N
<1>5. \A level : phases(level) \in Nat \ {0}
  OBVIOUS
<1> HIDE DEF phases
<1>6. ASSUME NEW r \in 1 .. args.repeat PROVE overLevels(r) \in Seq(S) \ {<<>>}
  <2>1. ASSUME NEW i \in 1 .. N PROVE rowsOf(selected[i], r) \in Seq(S) \ {<<>>}
    <3> DEFINE m == phases(selected[i])
               w == rowsOf(selected[i], r)
    <3>1. m \in Nat \ {0} /\ w = [p \in 1 .. m |-> Row(selected[i], p, r, args)]
      BY <1>5
    <3>2. r \in Nat
      BY <1>1, <1>6
    <3>3. \A p \in 1 .. m : Row(selected[i], p, r, args) \in S
      BY <2>1, <3>1, <3>2
    <3> HIDE DEF m, w, S
    <3>4. w \in [1 .. m -> S]
      BY <3>1, <3>3
    <3>5. w \in Seq(S) /\ w # <<>>
      BY <3>1, <3>4
    <3> QED
      BY <3>5 DEF w
  <2> DEFINE s == [i \in 1 .. N |-> rowsOf(selected[i], r)]
  <2>2. s \in [1 .. N -> Seq(S) \ {<<>>}]
    <3> HIDE DEF S, rowsOf
    <3> QED
      BY <2>1
  <2> HIDE DEF S
  <2> QED
    BY <1>2, <2>2, Flattened
<1>7. ASSUME NEW i \in 1 .. N PROVE overRepeats(selected[i]) \in Seq(S) \ {<<>>}
  <2> DEFINE m == phases(selected[i])
             s == [p \in 1 .. m |-> repeats(selected[i], p)]
  <2>1. ASSUME NEW p \in 1 .. m PROVE repeats(selected[i], p) \in Seq(S) \ {<<>>}
    <3> DEFINE w == repeats(selected[i], p)
    <3>1. p \in Nat
      BY <1>5, <2>1
    <3>2. \A r \in 1 .. args.repeat : Row(selected[i], p, r, args) \in S
      BY <1>1, <1>7, <3>1
    <3>3. w = [r \in 1 .. args.repeat |-> Row(selected[i], p, r, args)]
      OBVIOUS
    <3> HIDE DEF w, S
    <3>4. w \in [1 .. args.repeat -> S]
      BY <3>2, <3>3
    <3>5. w \in Seq(S) /\ w # <<>>
      BY <1>1, <3>4
    <3> QED
      BY <3>5 DEF w
  <2>2. m \in Nat \ {0}
    BY <1>5
  <2>3. s \in [1 .. m -> Seq(S) \ {<<>>}]
    <3> HIDE DEF S, repeats, m
    <3> QED
      BY <2>1
  <2> HIDE DEF S
  <2> QED
    BY <2>2, <2>3, Flattened
<1>8. plan_runs(args) \in Seq(S) \ {<<>>}
  <2> HIDE DEF S, overLevels, overRepeats
  <2>1. [r \in 1 .. args.repeat |-> overLevels(r)] \in [1 .. args.repeat -> Seq(S) \ {<<>>}]
    BY <1>6
  <2>2. [i \in 1 .. N |-> overRepeats(selected[i])] \in [1 .. N -> Seq(S) \ {<<>>}]
    BY <1>7
  <2>3. FlattenSeq([r \in 1 .. args.repeat |-> overLevels(r)]) \in Seq(S) \ {<<>>}
    BY <1>1, <2>1, Flattened
  <2>4. FlattenSeq([i \in 1 .. N |-> overRepeats(selected[i])]) \in Seq(S) \ {<<>>}
    BY <1>2, <2>2, Flattened
  <2> QED
    BY <1>4, <2>3, <2>4
<1>9. ASSUME NEW x \in S PROVE x.peer_cpu => x.level = 8
  <2>1. PICK i \in 1 .. N, p \in Nat, r \in Nat : x = Row(selected[i], p, r, args)
    BY <1>9
  <2> QED
    BY <2>1, RowDeclares
<1> HIDE DEF S
<1> QED
  BY <1>8, <1>9

-----------------------------------------------------------------------------
(* The theorems. *)

\* A sweep starts with a plan that claims nothing.
LEMMA SweepStarts == Init => SweepInv
<1> SUFFICES ASSUME Init PROVE SweepInv
  OBVIOUS
<1>1. PICK args \in Invocations : ~PlanProblem(args) /\ rows = plan_runs(args)
  BY DEF Init
<1>2. Planned
  <2>1. /\ Len(rows) \in Nat \ {0}
        /\ \A i \in 1 .. Len(rows) : rows[i].peer_cpu => rows[i].level = 8
    BY <1>1, PlanHasRows, InvocationsAssumption
  <2> QED
    BY SMTT(30), <2>1 DEF Init, Planned, Index
<1>3. /\ pc = "begin" /\ plan = [i \in Index |-> Unrun] /\ proc = NoProcs /\ owned = {}
      /\ truth = [i \in Index |-> NoTruth] /\ row = 1 /\ idle \in BOOLEAN
      /\ DOMAIN disk = {"roster", "labels", "summary", "replay", "result"} /\ disk.roster = Absent
  BY DEF Init, NoTruth
<1>4. Unrun \in Entries /\ NoTruth \in Truths /\ NoProcs \in [vehicle : Status, peer : Status]
  BY DEF Unrun, Entries, Codes, NoTruth, Truths, Status, NoProcs
<1>5. ~Rostered /\ pc \notin Live
  BY <1>3 DEF Rostered, Live, Try
<1>6. SweepType
  BY <1>3, <1>4, <1>5 DEF SweepType
<1>7. Tended
  <2>1. Running = {}
    BY <1>3 DEF Running, NoProcs
  <2> QED
    BY <2>1 DEF Tended
<1>8. Untouched /\ Ahead
  BY <1>3, <1>5 DEF Untouched, Ahead
<1>9. Honest(plan)
  BY <1>3 DEF Honest, Claims, Unrun
<1>10. Current
  BY <1>3 DEF Current, Watched, Seen, NoProcs, Try
<1> QED
  BY <1>2, <1>5, <1>6, <1>7, <1>8, <1>9, <1>10 DEF SweepInv

\* Every step keeps the invariant.
LEMMA SweepSteps == SweepInv /\ [Next]_vars => SweepInv'
<1> SUFFICES ASSUME SweepInv, [Next]_vars PROVE SweepInv'
  OBVIOUS
<1>1. CASE Step
  <2>1. CASE StopPeer
    BY <2>1, StopProcessKeeps DEF StopPeer
  <2>2. CASE StopVehicle
    BY <2>2, StopProcessKeeps DEF StopVehicle
  <2>3. CASE SaveRow
    <3>1. PICK next \in {"next", "failed"} : Save(FALSE, next)
      BY <2>3 DEF SaveRow
    <3> QED
      BY <2>3, <3>1, SaveKeeps DEF SaveRow
  <2>4. CASE Finish
    BY <2>4, SaveKeeps DEF Finish
  <2>5. CASE Begin \/ Spawn \/ Ready \/ CheckPeer \/ RecordPeer \/ LaunchPeer \/ Poll \/ CheckIdle
    BY <2>5, BeginKeeps, SpawnKeeps, ReadyKeeps, CheckPeerKeeps, RecordPeerKeeps, LaunchPeerKeeps,
       PollKeeps, CheckIdleKeeps
  <2>6. CASE FileReplay \/ Audit \/ RecordExits \/ WriteResult \/ NextRow \/ Raise
    BY <2>6, FileReplayKeeps, AuditKeeps, RecordExitsKeeps, WriteResultKeeps, NextRowKeeps, RaiseKeeps
  <2> QED
    BY <1>1, <2>1, <2>2, <2>3, <2>4, <2>5, <2>6 DEF Step
<1>2. CASE Interrupt \/ Kill \/ Restart \/ VehicleEnds \/ PeerEnds \/ ChangeIdle
  BY <1>2, InterruptKeeps, KillKeeps, RestartKeeps, VehicleEndsKeeps, PeerEndsKeeps, ChangeIdleKeeps
<1>3. CASE UNCHANGED vars
  <2>1. UNCHANGED <<rows, pc, row, plan, proc, owned, disk, idle, truth, lost, Index, Rostered, Fresh, Running>>
    BY <1>3 DEF vars, Index, Rostered, Fresh, Running
  <2>2. Planned' /\ SweepType' /\ Tended' /\ Untouched'
    BY <2>1 DEF SweepInv, Planned, SweepType, Tended, Untouched, Index, Rosters
  <2>3. Honest(plan)' /\ (Rostered' => Honest(disk.roster.runs)') /\ Ahead' /\ Current'
    BY <2>1 DEF SweepInv, Honest, Ahead, Current
  <2> QED
    BY <2>2, <2>3 DEF SweepInv
<1> QED
  BY <1>1, <1>2, <1>3 DEF Next

\* The invariant holds in every state of every sweep, for whatever options it
\* was started with and however often it was interrupted and started again.
THEOREM SweepInvariant == Spec => []SweepInv
<1>1. Init => SweepInv
  BY SweepStarts
<1>2. SweepInv /\ [Next]_vars => SweepInv'
  BY SweepSteps
<1> QED
  BY <1>1, <1>2, PTL DEF Spec

\* A sweep that has ended leaves no process running that it could have stopped.
THEOREM ChildrenAlwaysStopped == Spec => []ChildrenStopped
<1>1. SweepInv => ChildrenStopped
  <2> SUFFICES ASSUME SweepInv, Over PROVE Running \subseteq lost
    BY DEF ChildrenStopped
  <2>1. pc \notin Try \cup {"stopPeer", "stopVehicle"}
    BY DEF Over, Try
  <2> QED
    BY <2>1 DEF SweepInv, Tended
<1> QED
  BY <1>1, SweepInvariant, PTL

\* What the gate accepts at L8, or the latency analysis takes, is a whole
\* session: every process of every row ended with 0, and the idle states of the
\* declared peer CPU were disabled throughout, or changed and changed back.
THEOREM GateAlwaysMeansWhole == Spec => []GateMeansWhole
<1>1. SweepInv => GateMeansWhole
  <2> SUFFICES ASSUME SweepInv, gate(8) \/ ordered_results, NEW i \in Index
               PROVE  /\ truth[i].vehicle = "0" /\ disk.summary[i].good
                      /\ rows[i].level = 8 => truth[i].peer = "0"
                      /\ rows[i].peer_cpu => truth[i].disciplined \/ truth[i].flips > 1
    BY DEF GateMeansWhole
  <2>1. candidate_rows /\ roster_row
    BY DEF gate, ordered_results, candidate_rows
  <2> DEFINE e == disk.roster.runs[i]
  <2>2. /\ Rostered /\ e.complete /\ e.vehicle_exit = "0" /\ disk.summary[i] # Absent
        /\ rows[i].level = 8 => e.sim_exit = "0"
        /\ Configured(i)
    BY <2>1 DEF roster_row
  <2>3. Claims(e, truth[i], i = row, proc)
    BY <2>2 DEF SweepInv, Honest
  <2>4. disk.summary[i].good
    BY <2>1, <2>2 DEF candidate_rows, discipline_problem
  <2>5. rows[i].peer_cpu => rows[i].level = 8 /\ e.peer = "disabled"
    BY <2>2 DEF SweepInv, Planned, Configured
  <2> HIDE DEF e
  <2> QED
    BY <2>2, <2>3, <2>4, <2>5 DEF Claims, Kept
<1> QED
  BY <1>1, SweepInvariant, PTL
=============================================================================
