---------------------------- MODULE GroundCheck ----------------------------
(***************************************************************************)
(* What ground/link.py decides from the files of a finished run: match     *)
(* (match_streams) merges the ground recording with the vehicle's, and     *)
(* check accepts the pair or refuses it.  A frame is [seq, tick, own],     *)
(* own being FALSE when another sender than the vehicle wrote it: frames   *)
(* are compared byte for byte, so frames of two senders always differ.     *)
(* The digest of a file is ideal: it is the file's content.                *)
(***************************************************************************)
EXTENDS Integers, Sequences

Dispositions == {"foreign", "malformed", "duplicate", "out_of_order", "conflict",
                 "recorded", "write_failed_datagrams"}
Counters == Dispositions \cup {"received", "socket_errors"}

\* Mutant: the frames lost before the first match count as interior losses.
MatchedNoFirst(m, seen) ==
    [m EXCEPT !.interior = @ + seen - m.last - 1, !.last = seen, !.ground = @ + 1]

\* The next ground frame is the seen-th vehicle frame.
Matched(m, seen) ==
    [m EXCEPT !.leading = IF m.last = 0 THEN seen - 1 ELSE @,
              !.interior = IF m.last = 0 THEN 0 ELSE @ + seen - m.last - 1,
              !.last = seen, !.ground = @ + 1]

\* One vehicle frame of the merge; m.ground frames are matched so far, and
\* m.last is the position of the last match, 0 before the first.
MatchStep(ground, m, frame) ==
    LET seen == m.vehicle + 1
        pending == m.ground < Len(ground)
        next == ground[m.ground + 1]
        sound == /\ m.ok
                 /\ frame.seq = m.vehicle /\ frame.tick > m.tick
                 /\ pending => next.tick > frame.tick \/ next = frame
        merged == IF pending /\ next = frame THEN Matched(m, seen) ELSE m
    IN  IF sound THEN [merged EXCEPT !.vehicle = seen, !.tick = frame.tick]
        ELSE [m EXCEPT !.ok = FALSE]

MergeStart == [ok |-> TRUE, vehicle |-> 0, ground |-> 0, tick |-> -1, last |-> 0,
               leading |-> 0, interior |-> 0]

\* The loop's state after each number of vehicle frames.
Merge(vehicle, ground) ==
    LET m[i \in 0 .. Len(vehicle)] ==
            IF i = 0 THEN MergeStart ELSE MatchStep(ground, m[i - 1], vehicle[i])
    IN  m

match_streams(vehicle, ground) ==
    LET m == Merge(vehicle, ground)[Len(vehicle)]
        trailing == m.vehicle - m.last
    IN  [ok |-> m.ok /\ m.ground = Len(ground),
         vehicle_records |-> m.vehicle, ground_records |-> m.ground,
         leading_lost |-> m.leading, interior_lost |-> m.interior, trailing_lost |-> trailing,
         ground_lost |-> m.leading + m.interior + trailing]

\* The receiver's own account of itself.
ReceiverSound(report, exit) ==
    LET c == report.counters
    IN  /\ exit = 0 /\ ~report.interrupted /\ ~report.shutdown_truncated
        /\ c["received"] = c["foreign"] + c["malformed"] + c["duplicate"] + c["out_of_order"]
                           + c["conflict"] + c["recorded"] + c["write_failed_datagrams"]
        /\ c["malformed"] = 0 /\ c["conflict"] = 0 /\ c["write_failed_datagrams"] = 0
        /\ \/ c["socket_errors"] = 0 /\ report.last_errno = "none"
           \/ c["socket_errors"] > 0 /\ report.last_errno = "EINTR"

\* The vehicle's account: copies were asked for, set up, and sent to this receiver.
VehicleSound(summary, exit) ==
    /\ exit = 0 /\ summary.dropped = 0
    /\ summary.setup = "ok"
    /\ summary.short_sends <= summary.send_errors

\* The counts of vehicle, receiver and merge agree.
Populations(summary, report, pop) ==
    /\ pop.vehicle_records = summary.records /\ pop.vehicle_records = summary.total_cycles
    /\ pop.ground_records = report.counters["recorded"]
    /\ (report.source = "none") = (pop.ground_records = 0)
    /\ summary.attempted = summary.sent + summary.send_errors
    /\ summary.attempted = pop.vehicle_records
    /\ pop.ground_records <= summary.sent /\ summary.send_errors <= pop.ground_lost
    /\ pop.vehicle_records = pop.ground_records + pop.ground_lost
    /\ pop.ground_lost = summary.send_errors + summary.sent - pop.ground_records

\* Neither recording changed since its digest was taken, and the ground
\* recording is the one the report speaks of.
Unaltered(digests, files, report) ==
    /\ files = digests
    /\ report.recording_sha256 = digests.ground

\* check: digests are those taken first, files what was read afterwards.
check(digests, files, summary, report, vehicle_exit, receiver_exit) ==
    LET pop == match_streams(files.vehicle, files.ground)
        valid == /\ VehicleSound(summary, vehicle_exit)
                 /\ ReceiverSound(report, receiver_exit)
                 /\ Unaltered(digests, files, report)
                 /\ pop.ok /\ Populations(summary, report, pop)
    IN  [valid |-> valid, pop |-> pop,
         delivery_complete |-> valid /\ pop.vehicle_records > 0
                                     /\ pop.ground_records = pop.vehicle_records]
=============================================================================
