--------------------------- MODULE TelemetryDrain ---------------------------
(***************************************************************************)
(* The telemetry path of the vehicle: telem::SpscRing (src/telemetry.hpp)  *)
(* between the control thread, its only producer, and telem::Drain         *)
(* (src/telemetry.cpp), the thread that pops batches, writes them to the   *)
(* recording and copies them to the ground link.                           *)
(*                                                                         *)
(* Both threads are split at every access to shared memory.  A load of an  *)
(* atomic may return any value that is not older than one the loading      *)
(* thread already saw (coherence) or that happens before the load: the     *)
(* producer's floor is cached_tail_, the consumer's is headFloor, which    *)
(* the acquire load of stop_ raises.                                       *)
(***************************************************************************)
EXTENDS Integers, Sequences

CONSTANTS Slots,        \* SpscRing::kSlots
          Batch,        \* the drain's batch size, 512 in the code
          MaxAttempts,  \* bound: calls of try_push in a behaviour
          Rejected,     \* attempts whose record encode_control refuses
          Ground        \* TRUE: the drain was started with a ground endpoint

ASSUME SlotsAssumption == Slots \in Nat \ {0}
ASSUME BatchAssumption == Batch \in Nat \ {0}
ASSUME AttemptsAssumption == MaxAttempts \in Nat
ASSUME RejectedAssumption == Rejected \subseteq Nat
ASSUME GroundAssumption == Ground \in BOOLEAN

VARIABLES
    head, tail, cached_tail, drops, slots,  \* SpscRing's members
    attempts,      \* calls of try_push that have returned
    ppc,           \* where the control thread is: in try_push, or in stop()
    stop_,         \* Drain::stop_
    cpc,           \* where the drain thread is
    headFloor,     \* the oldest head_ the drain thread may still load
    chead, ctail,  \* locals of pop_batch
    batch,         \* records popped and not yet emitted
    popped,        \* n, what the last pop_batch returned
    stop_seen,     \* local of Drain::run
    seq_, records_, write_failed, ground,   \* Drain's counters
    pushed,        \* history: every record accepted by try_push, in order
    recording      \* history: the frames in the file, in order

ring == <<head, tail, cached_tail, drops, slots, attempts>>
pop == <<headFloor, chead, ctail, batch, popped>>
out == <<seq_, records_, write_failed, ground, recording>>
drain_vars == <<ring, ppc, stop_, cpc, pop, stop_seen, out, pushed>>

\* A record is known by the attempt that pushed it, and carries the drops
\* counted before it.
Record == [id : 0 .. MaxAttempts, drops : 0 .. MaxAttempts]
NoRecord == [id |-> 0, drops |-> 0]
NewRecord == [id |-> attempts + 1, drops |-> drops]

DrainInit ==
    /\ head = 0 /\ tail = 0 /\ cached_tail = 0 /\ drops = 0 /\ attempts = 0
    /\ slots = [i \in 0 .. Slots - 1 |-> NoRecord]
    /\ ppc = "idle" /\ stop_ = FALSE
    /\ cpc = "load" /\ headFloor = 0 /\ chead = 0 /\ ctail = 0
    /\ batch = <<>> /\ popped = 0 /\ stop_seen = FALSE
    /\ seq_ = 0 /\ records_ = 0 /\ write_failed = FALSE
    /\ ground = [attempted |-> 0, sent |-> 0, send_errors |-> 0, short_sends |-> 0]
    /\ pushed = <<>> /\ recording = <<>>

-----------------------------------------------------------------------------
(* The control thread. *)

\* Mutant: the full test is off by one, so a full ring still looks to have room.
PushRoomOffByOne ==
    /\ ppc = "idle" /\ attempts < MaxAttempts
    /\ head - cached_tail <= Slots
    /\ ppc' = "write"
    /\ UNCHANGED <<ring, stop_, cpc, pop, stop_seen, out, pushed>>

\* try_push finds room, rereading tail_ only when the cached one says full.
PushRoom ==
    /\ ppc = "idle" /\ attempts < MaxAttempts
    /\ \/ /\ head - cached_tail # Slots
          /\ UNCHANGED cached_tail
       \/ /\ head - cached_tail = Slots
          /\ cached_tail' \in cached_tail .. tail
          /\ head - cached_tail' # Slots
    /\ ppc' = "write"
    /\ UNCHANGED <<head, tail, drops, slots, attempts, stop_, cpc, pop, stop_seen, out, pushed>>

\* Mutant: a dropped record is not counted.
PushDropUncounted ==
    /\ ppc = "idle" /\ attempts < MaxAttempts
    /\ head - cached_tail = Slots
    /\ cached_tail' \in cached_tail .. tail
    /\ head - cached_tail' = Slots
    /\ attempts' = attempts + 1
    /\ UNCHANGED <<head, tail, drops, slots, ppc, stop_, cpc, pop, stop_seen, out, pushed>>

\* try_push finds the ring full after the reload and drops the new record.
PushDrop ==
    /\ ppc = "idle" /\ attempts < MaxAttempts
    /\ head - cached_tail = Slots
    /\ cached_tail' \in cached_tail .. tail
    /\ head - cached_tail' = Slots
    /\ drops' = drops + 1
    /\ attempts' = attempts + 1
    /\ UNCHANGED <<head, tail, slots, ppc, stop_, cpc, pop, stop_seen, out, pushed>>

PushWrite ==
    /\ ppc = "write"
    /\ slots' = [slots EXCEPT ![head % Slots] = NewRecord]
    /\ ppc' = "publish"
    /\ UNCHANGED <<head, tail, cached_tail, drops, attempts, stop_, cpc, pop, stop_seen, out, pushed>>

PushPublish ==
    /\ ppc = "publish"
    /\ head' = head + 1
    /\ attempts' = attempts + 1
    /\ pushed' = Append(pushed, NewRecord)
    /\ ppc' = "idle"
    /\ UNCHANGED <<tail, cached_tail, drops, slots, stop_, cpc, pop, stop_seen, out>>

\* Drain::stop, called once no more records will be pushed.
Stop ==
    /\ ppc = "idle"
    /\ stop_' = TRUE
    /\ ppc' = "join"
    /\ UNCHANGED <<ring, cpc, pop, stop_seen, out, pushed>>

Join ==
    /\ ppc = "join" /\ cpc = "done"
    /\ ppc' = "joined"
    /\ UNCHANGED <<ring, stop_, cpc, pop, stop_seen, out, pushed>>

-----------------------------------------------------------------------------
(* The drain thread. *)

PopLoad ==
    /\ cpc = "load"
    /\ chead' \in headFloor .. head
    /\ headFloor' = chead'
    /\ ctail' = tail
    /\ batch' = <<>>
    /\ cpc' = "copy"
    /\ UNCHANGED <<ring, ppc, stop_, popped, stop_seen, out, pushed>>

\* Mutant: the batch bound is off by one.
PopMoreOffByOne == ctail # chead /\ Len(batch) <= Batch

PopMore == ctail # chead /\ Len(batch) < Batch

PopCopy ==
    /\ cpc = "copy" /\ PopMore
    /\ batch' = Append(batch, slots[ctail % Slots])
    /\ ctail' = ctail + 1
    /\ UNCHANGED <<ring, ppc, stop_, cpc, headFloor, chead, popped, stop_seen, out, pushed>>

PopStore ==
    /\ cpc = "copy" /\ ~PopMore
    /\ tail' = ctail
    /\ popped' = Len(batch)
    /\ cpc' = "emit"
    /\ UNCHANGED <<head, cached_tail, drops, slots, attempts, ppc, stop_, headFloor, chead,
                   ctail, batch, stop_seen, out, pushed>>

One(test) == IF test THEN 1 ELSE 0

\* Mutant: a short send is counted as sent and as an error.
GroundSendShort(result) ==
    ground' = [attempted |-> ground.attempted + One(result # "off"),
               sent |-> ground.sent + One(result \in {"sent", "short"}),
               send_errors |-> ground.send_errors + One(result \in {"short", "error"}),
               short_sends |-> ground.short_sends + One(result = "short")]

\* send_frame's outcome: the whole frame, part of it, or an error.
GroundSend(result) ==
    ground' = [attempted |-> ground.attempted + One(result # "off"),
               sent |-> ground.sent + One(result = "sent"),
               send_errors |-> ground.send_errors + One(result \in {"short", "error"}),
               short_sends |-> ground.short_sends + One(result = "short")]

\* A run without a ground endpoint has no copies to send.
Sends == IF Ground THEN {"sent", "short", "error"} ELSE {"off"}

\* Mutant: a refused record leaves no trace.
EmitRejectSilent ==
    /\ cpc = "emit" /\ batch # <<>>
    /\ Head(batch).id \in Rejected
    /\ batch' = Tail(batch)
    /\ UNCHANGED <<ring, ppc, stop_, cpc, headFloor, chead, ctail, popped, stop_seen, out, pushed>>

\* encode_control refused the record: it takes no sequence number and is
\* neither written nor sent.
EmitReject ==
    /\ cpc = "emit" /\ batch # <<>>
    /\ Head(batch).id \in Rejected
    /\ write_failed' = TRUE
    /\ batch' = Tail(batch)
    /\ UNCHANGED <<ring, ppc, stop_, cpc, headFloor, chead, ctail, popped, stop_seen,
                   seq_, records_, ground, recording, pushed>>

\* fwrite succeeds or not; the ground copy is attempted in both cases.
EmitFrame ==
    /\ cpc = "emit" /\ batch # <<>>
    /\ Head(batch).id \notin Rejected
    /\ seq_' = seq_ + 1
    /\ \/ /\ records_' = records_ + 1
          /\ recording' = Append(recording, [seq |-> seq_, rec |-> Head(batch)])
          /\ UNCHANGED write_failed
       \/ /\ write_failed' = TRUE
          /\ UNCHANGED <<records_, recording>>
    /\ \E result \in Sends : GroundSend(result)
    /\ batch' = Tail(batch)
    /\ UNCHANGED <<ring, ppc, stop_, cpc, headFloor, chead, ctail, popped, stop_seen, pushed>>

\* A non-empty batch is followed by the next pop.
NextBatch ==
    /\ cpc = "emit" /\ batch = <<>> /\ popped # 0
    /\ cpc' = "load"
    /\ UNCHANGED <<ring, ppc, stop_, pop, stop_seen, out, pushed>>

\* An empty pop: sleep and poll again, notice stop_ and pop once more, or leave.
\* Loading stop_ with acquire orders the next load of head_ after every push.
EmptySleep ==
    /\ cpc = "emit" /\ popped = 0 /\ ~stop_seen /\ ~stop_
    /\ cpc' = "load"
    /\ UNCHANGED <<ring, ppc, stop_, pop, stop_seen, out, pushed>>

\* Mutants: leave on the first empty pop that sees stop_; load stop_ relaxed,
\* which leaves an older head_ visible; never record that stop_ was seen.
EmptyStopAtOnce ==
    /\ cpc = "emit" /\ popped = 0 /\ ~stop_seen /\ stop_
    /\ cpc' = "close"
    /\ UNCHANGED <<ring, ppc, stop_, pop, stop_seen, out, pushed>>

EmptyStopRelaxed ==
    /\ cpc = "emit" /\ popped = 0 /\ ~stop_seen /\ stop_
    /\ stop_seen' = TRUE
    /\ cpc' = "load"
    /\ UNCHANGED <<ring, ppc, stop_, pop, out, pushed>>

EmptyStopForgotten ==
    /\ cpc = "emit" /\ popped = 0 /\ ~stop_seen /\ stop_
    /\ headFloor' = head
    /\ cpc' = "load"
    /\ UNCHANGED <<ring, ppc, stop_, chead, ctail, batch, popped, stop_seen, out, pushed>>

EmptyStop ==
    /\ cpc = "emit" /\ popped = 0 /\ ~stop_seen /\ stop_
    /\ stop_seen' = TRUE
    /\ headFloor' = head
    /\ cpc' = "load"
    /\ UNCHANGED <<ring, ppc, stop_, chead, ctail, batch, popped, out, pushed>>

EmptyLeave ==
    /\ cpc = "emit" /\ popped = 0 /\ stop_seen
    /\ cpc' = "close"
    /\ UNCHANGED <<ring, ppc, stop_, pop, stop_seen, out, pushed>>

\* fflush and fclose; either may report buffered data that never reached the
\* file, but a failed fclose counts with a ground endpoint only.
Close ==
    /\ cpc = "close"
    /\ \E flushFails, closeFails \in BOOLEAN :
          write_failed' = IF flushFails \/ (closeFails /\ Ground) THEN TRUE ELSE write_failed
    /\ cpc' = "done"
    /\ UNCHANGED <<ring, ppc, stop_, pop, stop_seen, seq_, records_, ground, recording, pushed>>

-----------------------------------------------------------------------------
Producer == PushRoom \/ PushDrop \/ PushWrite \/ PushPublish \/ Stop \/ Join
Drain == \/ PopLoad \/ PopCopy \/ PopStore
         \/ EmitReject \/ EmitFrame \/ NextBatch
         \/ EmptySleep \/ EmptyStop \/ EmptyLeave \/ Close
\* Nothing runs after the join: the process goes on without this component.
Finished == ppc = "joined" /\ UNCHANGED drain_vars
DrainNext == Producer \/ Drain \/ Finished

\* The operating system schedules the drain thread; nothing forces the
\* control thread to push or to stop, but once it stops it waits in join.
DrainSpec ==
    DrainInit /\ [][DrainNext]_drain_vars /\ WF_drain_vars(Drain) /\ WF_drain_vars(Join)

-----------------------------------------------------------------------------
(* Properties. *)

\* How many accepted records the drain has dealt with: written, refused or
\* failed to write.
Handled == ctail - Len(batch)

\* Every variable has its type, and a batch never exceeds the buffer the drain
\* reserves for it on its stack.
TypeOK ==
    /\ head \in Nat /\ tail \in Nat /\ cached_tail \in Nat /\ drops \in Nat
    /\ attempts \in 0 .. MaxAttempts
    /\ slots \in [0 .. Slots - 1 -> Record]
    /\ ppc \in {"idle", "write", "publish", "join", "joined"}
    /\ stop_ \in BOOLEAN /\ stop_seen \in BOOLEAN /\ write_failed \in BOOLEAN
    /\ cpc \in {"load", "copy", "emit", "close", "done"}
    /\ headFloor \in Nat /\ chead \in Nat /\ ctail \in Nat
    /\ batch \in Seq(Record) /\ Len(batch) <= Batch
    /\ popped \in 0 .. Batch
    /\ seq_ \in Nat /\ records_ \in Nat
    /\ ground \in [attempted : Nat, sent : Nat, send_errors : Nat, short_sends : Nat]
    /\ pushed \in Seq(Record)
    /\ recording \in Seq([seq : Nat, rec : Record])

\* try_push never writes the slot of a record that the drain may still copy
\* (the plain accesses to slots_ of the two threads do not race).
NoSlotRace ==
    ppc = "write" /\ cpc = "copy" =>
        \A k \in ctail .. chead - 1 : k % Slots # head % Slots

\* As long as write_failed() is false the recording holds exactly the records
\* handled so far, in the order they were pushed, under consecutive sequence
\* numbers from 0, and records_ counts them.
RecordingFaithful ==
    ~write_failed =>
        /\ Len(recording) = Handled /\ records_ = Handled
        /\ \A i \in 1 .. Handled :
               recording[i].seq = i - 1 /\ recording[i].rec = pushed[i]

\* The drops a record carries place it among all attempts: the k-th accepted
\* record was attempt k + drops, so every gap in a recording is accounted for.
LossIsVisible ==
    \A k \in 1 .. Len(pushed) : pushed[k].id = k + pushed[k].drops

\* When Drain::run leaves its loop it has dealt with every record accepted
\* before stop() ("One more pop is guaranteed to see the final push").
StopLosesNothing ==
    cpc \in {"close", "done"} => Handled = Len(pushed) /\ ppc \in {"join", "joined"}

\* The ground counters close: every frame given a sequence number was
\* attempted once, and was sent or counted as an error.
GroundCloses ==
    /\ ground.attempted = ground.sent + ground.send_errors
    /\ ground.short_sends <= ground.send_errors
    /\ ground.attempted = IF Ground THEN seq_ ELSE 0

\* The ring and its drain implement the bounded log of RecordLog: records leave
\* in the order they were accepted, each once, at most Slots + Batch are ever
\* under way, and a stopped path closes only when it is empty.
Log == INSTANCE RecordLog WITH
    Capacity <- Slots + Batch, Entries <- Record,
    accepted <- pushed, delivered <- Handled,
    stopped <- stop_, closed <- cpc \in {"close", "done"}
ImplementsLog == Log!Spec

\* stop() returns: the drain leaves its loop and the join ends.
StopReturns == stop_ ~> ppc = "joined"
=============================================================================
