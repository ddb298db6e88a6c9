------------------------------- MODULE Ground -------------------------------
(***************************************************************************)
(* The ground link: the vehicle's drain sends a copy of every frame it     *)
(* records (src/telemetry.cpp), a network loses, delays and repeats the    *)
(* copies, the receiver of ground/link.py keeps what arrives in order from *)
(* one sender, and its check compares the two recordings afterwards.       *)
(*                                                                         *)
(* net is the set of datagrams under way.  One that is never received is   *)
(* lost, one that stays after being received is repeated, and any of them  *)
(* may be next.                                                            *)
(***************************************************************************)
EXTENDS GroundCheck, FiniteSets

CONSTANTS MaxCycles,    \* bound: control cycles of the vehicle
          MaxForeign,   \* bound: datagrams of other senders on the port
          MaxReceived,  \* bound: datagrams the receiver accepts
          MaxFaults     \* bound: ring drops, failed writes, short sends, failed receives

ASSUME BoundsAssumption == {MaxCycles, MaxForeign, MaxReceived, MaxFaults} \subseteq Nat

VARIABLES
    veh,        \* the vehicle: its summary's fields, its recording, its exit code
    net,        \* datagrams under way
    foreign,    \* how many datagrams other senders have sent
    rpc,        \* where receive is
    rcv,        \* the Receiver object
    written,    \* the frames the receiver wrote
    eof, stopped,   \* standard input closed; SIGINT or SIGTERM arrived
    truncated, code,  \* locals of receive
    files,      \* the two recordings on disk
    report,     \* the receiver's report, or NoReport
    digests,    \* what check hashed first
    verdict     \* check's result, or NoVerdict

receiver == <<rpc, rcv, written, truncated, code, report>>
vars == <<veh, net, foreign, receiver, eof, stopped, files, digests, verdict>>

NoReport == [counters |-> <<>>]
NoVerdict == [valid |-> FALSE]
NoDigests == [vehicle |-> <<>>]
NoFiles == [vehicle |-> <<>>, ground |-> <<>>]
NoFrame == [seq |-> -1, tick |-> -1, own |-> FALSE]
Running == 99           \* the vehicle's exit code before it exits

Frame(seq, tick, own) == [seq |-> seq, tick |-> tick, own |-> own]
Datagram(from, frame) == [from |-> from, frame |-> frame]
\* control_frame refuses it: cut short, damaged, or another protocol's.
Malformed(from) == Datagram(from, NoFrame)

Init ==
    /\ \E setup \in {"ok", "failed", "elsewhere", "off"} :
           veh = [setup |-> setup, total_cycles |-> 0, dropped |-> 0, records |-> 0,
                  attempted |-> 0, sent |-> 0, send_errors |-> 0, short_sends |-> 0,
                  write_failed |-> FALSE, exit |-> Running]
    /\ net = {} /\ foreign = 0
    /\ rpc = "start" /\ written = <<>>
    /\ rcv = [source |-> "none", last |-> NoFrame, last_errno |-> "none",
              counters |-> [k \in Counters |-> 0]]
    /\ eof = FALSE /\ stopped = FALSE /\ truncated = FALSE /\ code = 0
    /\ files = NoFiles /\ report = NoReport /\ digests = NoDigests /\ verdict = NoVerdict

-----------------------------------------------------------------------------
(* The vehicle. *)

Sending == veh.setup \in {"ok", "elsewhere"}
Faults == veh.dropped + veh.short_sends + (IF veh.write_failed THEN 1 ELSE 0)
          + rcv.counters["socket_errors"]
\* The vehicle is started once the receiver has said that it is ready.
Cycling == veh.exit = Running /\ rpc # "start" /\ veh.total_cycles < MaxCycles
\* The receiver's socket is open; what is sent at other times reaches nobody.
Open == rpc \in {"collect", "drain"}

\* The ring was full: the cycle leaves no frame, only the count.
Drop ==
    /\ Cycling /\ Faults < MaxFaults
    /\ veh' = [veh EXCEPT !.total_cycles = @ + 1, !.dropped = @ + 1]
    /\ UNCHANGED <<net, foreign, receiver, eof, stopped, files, digests, verdict>>

\* The frame is recorded, or the write fails; a copy is attempted in both cases.
Emit ==
    /\ Cycling
    /\ \E recorded \in BOOLEAN, result \in IF Sending THEN {"sent", "short", "error"} ELSE {"none"} :
           /\ ~recorded \/ result = "short" => Faults < MaxFaults
           /\ LET frame == Frame(veh.total_cycles - veh.dropped, veh.total_cycles, TRUE)
              IN  /\ veh' = [veh EXCEPT
                     !.total_cycles = @ + 1,
                     !.records = IF recorded THEN @ + 1 ELSE @,
                     !.write_failed = @ \/ ~recorded,
                     !.attempted = IF Sending THEN @ + 1 ELSE @,
                     !.sent = IF result = "sent" THEN @ + 1 ELSE @,
                     !.send_errors = IF result \in {"short", "error"} THEN @ + 1 ELSE @,
                     !.short_sends = IF result = "short" THEN @ + 1 ELSE @]
                  /\ files' = IF recorded THEN [files EXCEPT !.vehicle = Append(@, frame)] ELSE files
                  /\ net' = net \cup
                      IF veh.setup # "ok" \/ ~Open \/ result = "error" THEN {}
                      ELSE {IF result = "short" THEN Malformed("vehicle")
                            ELSE Datagram("vehicle", frame)}
    /\ UNCHANGED <<foreign, receiver, eof, stopped, digests, verdict>>

\* 4 for lost or unwritten records; 5 stands for every other failure.
VehicleExit ==
    /\ veh.exit = Running /\ rpc # "start"
    /\ \E exit \in IF veh.write_failed \/ veh.dropped > 0 THEN {4} ELSE {0, 5} :
           veh' = [veh EXCEPT !.exit = exit]
    /\ UNCHANGED <<net, foreign, receiver, eof, stopped, files, digests, verdict>>

\* Another process sends to the receiver's port: a frame of its own or nonsense.
ForeignSend ==
    /\ Open /\ foreign < MaxForeign
    /\ foreign' = foreign + 1
    /\ \/ net' = net \cup {Malformed("other")}
       \/ \E seq \in {0, 1} : net' = net \cup {Datagram("other", Frame(seq, 0, FALSE))}
    /\ UNCHANGED <<veh, receiver, eof, stopped, files, digests, verdict>>

\* The launcher closes the receiver's standard input when the vehicle is gone,
\* or signals it.
CloseInput ==
    /\ ~eof /\ veh.exit # Running /\ rpc # "done" /\ eof' = TRUE
    /\ UNCHANGED <<veh, net, foreign, receiver, stopped, files, digests, verdict>>

Signal ==
    /\ ~stopped /\ rpc # "done" /\ stopped' = TRUE
    /\ UNCHANGED <<veh, net, foreign, receiver, eof, files, digests, verdict>>

-----------------------------------------------------------------------------
(* The receiver. *)

rest == <<veh, foreign, eof, stopped, digests, verdict>>

\* Socket, report file and recording are opened, or one of them is not.
Setup ==
    /\ rpc = "start"
    /\ \/ rpc' = "collect" /\ UNCHANGED code
       \/ rpc' = "done" /\ code' = 2       \* no socket: no files
       \/ rpc' = "report" /\ code' = 4     \* an output could not be opened or begun
    /\ UNCHANGED <<rest, net, rcv, written, truncated, report, files>>

\* What accept does with a datagram: its disposition, by the first test that applies.
Disposition(d) ==
    IF rcv.source # "none" /\ d.from # rcv.source THEN "foreign"
    ELSE IF d.frame = NoFrame THEN "malformed"
    ELSE IF rcv.last = NoFrame \/ d.frame.tick > rcv.last.tick THEN "recorded"
    ELSE IF d.frame.tick < rcv.last.tick THEN "out_of_order"
    ELSE IF d.frame = rcv.last THEN "duplicate" ELSE "conflict"

SourceAfter(d) ==
    IF rcv.source = "none" /\ d.frame # NoFrame THEN d.from ELSE rcv.source

\* Mutant: a late frame is written as well.
TakenLate(disposition) == disposition \in {"recorded", "out_of_order"}

Taken(disposition) == disposition = "recorded"

Counted(disposition) ==
    [rcv.counters EXCEPT !["received"] = @ + 1, ![disposition] = @ + 1]

\* recvfrom and accept; the datagram may be delivered again.
Receive ==
    /\ Open /\ rcv.counters["received"] < MaxReceived
    /\ \E d \in net :
       /\ net' \in {net, net \ {d}}
       /\ \/ /\ rcv' = [rcv EXCEPT !.source = SourceAfter(d), !.counters = Counted(Disposition(d)),
                                   !.last = IF Taken(Disposition(d)) THEN d.frame ELSE @]
             /\ written' = IF Taken(Disposition(d)) THEN Append(written, d.frame) ELSE written
             /\ UNCHANGED <<rpc, code>>
          \/ /\ Disposition(d) = "recorded"        \* the write fails and ends the loop
             /\ rcv' = [rcv EXCEPT !.source = SourceAfter(d),
                                   !.counters = Counted("write_failed_datagrams")]
             /\ code' = 4 /\ rpc' = "close"
             /\ UNCHANGED written
    /\ UNCHANGED <<rest, truncated, report, files>>

\* recvfrom fails: interrupted and tried again, or for good.
ReceiveError ==
    /\ Open /\ Faults < MaxFaults
    /\ \E e \in {"EINTR", "other"} :
       /\ rcv' = [rcv EXCEPT !.counters["socket_errors"] = @ + 1, !.last_errno = e]
       /\ \/ e = "EINTR" /\ UNCHANGED <<rpc, code>>
          \/ e = "other" /\ rpc' = "close" /\ code' = 6
    /\ UNCHANGED <<rest, net, written, truncated, report, files>>

\* select reports end of file on standard input: drain what is left, for at
\* most 100 ms.
NoticeEof ==
    /\ rpc = "collect" /\ eof
    /\ rpc' = "drain"
    /\ UNCHANGED <<rest, net, rcv, written, truncated, code, report, files>>

NoticeStop ==
    /\ Open /\ stopped
    /\ rpc' = "close"
    /\ UNCHANGED <<rest, net, rcv, written, truncated, code, report, files>>

\* Mutant: an empty socket only ends the inner loop, and the deadline is
\* taken anew with every pass.
DrainedNever == rpc = "drain" /\ UNCHANGED <<rpc, truncated>>

\* The socket is empty, or the deadline passes first.
Drained == rpc = "drain" /\ rpc' = "close" /\ truncated' \in BOOLEAN

DrainEnds ==
    /\ Drained
    /\ UNCHANGED <<rest, net, rcv, written, code, report, files>>

\* The socket is closed, the recording flushed and closed; a failure leaves a part of it.
CloseRecording ==
    /\ rpc = "close"
    /\ rpc' = "report" /\ net' = {}
    /\ \/ files' = [files EXCEPT !.ground = written] /\ UNCHANGED code
       \/ files' = [files EXCEPT !.ground = SubSeq(written, 1, Len(written) \div 2)] /\ code' = 4
    /\ UNCHANGED <<rest, rcv, written, truncated, report>>

ExitCode ==
    CASE code = 4 -> 4
      [] code # 4 /\ stopped -> 3
      [] code # 4 /\ ~stopped /\ (truncated \/ rcv.counters["malformed"] > 0
                                            \/ rcv.counters["conflict"] > 0) -> 6
      [] OTHER -> code

WriteReport ==
    /\ rpc = "report"
    /\ rpc' = "done"
    /\ \/ /\ report' = [source |-> rcv.source, counters |-> rcv.counters, last_errno |-> rcv.last_errno,
                        interrupted |-> stopped, shutdown_truncated |-> truncated,
                        recording_sha256 |-> files.ground]
          /\ code' = ExitCode
       \/ report' = NoReport /\ code' = 4      \* not opened, or not written
    /\ UNCHANGED <<rest, net, rcv, written, truncated, files>>

-----------------------------------------------------------------------------
(* Afterwards. *)

Ended == veh.exit # Running /\ rpc = "done"

\* A recording loses its last frames, at a frame boundary, between the run and
\* the end of the check.
Shorten ==
    /\ Ended /\ verdict = NoVerdict
    /\ files.ground = written /\ Len(files.vehicle) = veh.records   \* bound: once
    /\ \E f \in {"vehicle", "ground"} :
          /\ files[f] # <<>>
          /\ files' = [files EXCEPT ![f] = SubSeq(@, 1, Len(@) - 1)]
    /\ UNCHANGED <<veh, net, foreign, receiver, eof, stopped, digests, verdict>>

\* check hashes the files, and reads them later.
CheckDigests ==
    /\ Ended /\ verdict = NoVerdict /\ digests = NoDigests
    /\ report # NoReport
    /\ digests' = files
    /\ UNCHANGED <<veh, net, foreign, receiver, eof, stopped, files, verdict>>

CheckReads ==
    /\ verdict = NoVerdict /\ digests # NoDigests
    /\ verdict' = check(digests, files, veh, report, veh.exit, code)
    /\ UNCHANGED <<veh, net, foreign, receiver, eof, stopped, files, digests>>

Receiver ==
    \/ Setup \/ Receive \/ ReceiveError \/ NoticeEof \/ NoticeStop \/ DrainEnds
    \/ CloseRecording \/ WriteReport
Next ==
    \/ Drop \/ Emit \/ VehicleExit \/ ForeignSend \/ CloseInput \/ Signal
    \/ Receiver
    \/ Shorten \/ CheckDigests \/ CheckReads

\* The receiver's process runs.  Its loop returns to select after at most 512
\* datagrams and tests its stop flag and the deadline before each, so
\* arrivals keep it neither from the end of its input nor from a signal.
Fairness ==
    /\ WF_vars(Setup) /\ WF_vars(NoticeEof) /\ WF_vars(NoticeStop) /\ WF_vars(DrainEnds)
    /\ WF_vars(CloseRecording) /\ WF_vars(WriteReport)

Spec == Init /\ [][Next]_vars /\ Fairness

-----------------------------------------------------------------------------
(* Properties. *)

\* Positions in the vehicle's recording of the frames the receiver wrote.
Kept == {i \in 1 .. veh.records : \E k \in DOMAIN written : written[k] = Frame(i - 1, i - 1, TRUE)}
Lost == 1 .. veh.records \ Kept

\* A pair of recordings that check accepts is what really happened, whatever
\* was lost, repeated, overtaken, sent by others or cut off the files: the
\* receiver kept frames of this vehicle only, each once and in order, every
\* frame that is missing is counted as lost, in the place where it is missing,
\* and a complete delivery is one in which none is.
VerdictIsTrue ==
    verdict.valid =>
        LET pop == verdict.pop
        IN  /\ pop.vehicle_records = veh.total_cycles
            /\ Len(written) = Cardinality(Kept)
            /\ \A j, k \in DOMAIN written : j < k => written[j].tick < written[k].tick
            /\ pop.ground_lost = Cardinality(Lost)
            /\ pop.leading_lost = Cardinality({i \in Lost : \A k \in Kept : i < k} \
                                                {i \in Lost : Kept = {}})
            /\ pop.interior_lost = Cardinality({i \in Lost : /\ \E k \in Kept : k < i
                                                            /\ \E k \in Kept : k > i})
            /\ verdict.delivery_complete = (Lost = {} /\ veh.records > 0)

\* Losses, repeats and overtaking on the link, and strangers on the port, are
\* counted and do not make a sound run unacceptable: when the vehicle and the
\* receiver worked, the receiver was stopped by the end of its input and had
\* time to drain, and the first sender it heard was the vehicle, check accepts.
LossIsNotInvalid ==
    (/\ verdict # NoVerdict
     /\ veh.exit = 0 /\ veh.setup = "ok"
     /\ rcv.source # "other" /\ rcv.counters["malformed"] = 0
     /\ rcv.counters["write_failed_datagrams"] = 0 /\ rcv.last_errno # "other"
     /\ code # 4 /\ ~report.interrupted /\ ~truncated
     /\ Len(files.vehicle) = veh.records /\ files.ground = written)
    => verdict.valid

\* The receiver exits once its input has ended or it is signalled, however
\* many datagrams keep arriving.
ReceiverEnds == eof \/ stopped ~> rpc = "done"
=============================================================================
