-------------------------- MODULE TelemetryProofs --------------------------
(***************************************************************************)
(* Proofs about the path of the telemetry: from the ring through the drain *)
(* thread into the recording (TelemetryDrain), for every ring size, batch  *)
(* size and number of attempts, and over the ground link (Ground), for     *)
(* recordings of any length.                                               *)
(*                                                                         *)
(* On the ground: what ground/link.py's check accepts is what happened,    *)
(* and losses alone do not make it refuse.  First the merge of two         *)
(* recordings, by induction over the vehicle's frames; induction is used   *)
(* in the form of a set that contains 0 and every successor                *)
(* (SetInduction).  Then the invariant of the link, and the two combined.  *)
(***************************************************************************)
EXTENDS TelemetryDrain, Ground, FiniteSetTheorems, WellFoundedInduction, TLAPS

-----------------------------------------------------------------------------
(* The ring and its drain. *)

\* Positions less than a ring apart use different slots.
LEMMA ModDistinct ==
    ASSUME NEW N \in Nat \ {0}, NEW a \in Nat, NEW b \in Nat, a < b, b - a < N
    PROVE  a % N # b % N
<1>1. a = N * (a \div N) + (a % N) /\ a \div N \in Int /\ a % N \in 0 .. N - 1
  OBVIOUS
<1>2. b = N * (b \div N) + (b % N) /\ b \div N \in Int /\ b % N \in 0 .. N - 1
  OBVIOUS
<1> DEFINE qa == a \div N
           qb == b \div N
           d == qb - qa
<1>3. SUFFICES ASSUME a % N = b % N PROVE FALSE
  OBVIOUS
<1>4. qa \in Int /\ qb \in Int /\ b - a = N * qb - N * qa
  BY <1>1, <1>2, <1>3
<1> HIDE DEF qa, qb
<1>5. d \in Int /\ N * qb - N * qa = N * d
  BY <1>4
<1>6. CASE d <= 0
  BY <1>4, <1>5, <1>6
<1>7. CASE d >= 1
  BY <1>4, <1>5, <1>7
<1> QED
  BY <1>5, <1>6, <1>7

\* A position's slot exists.
LEMMA SlotExists ==
    ASSUME NEW k \in Nat
    PROVE  k % Slots \in 0 .. Slots - 1
BY SlotsAssumption

-----------------------------------------------------------------------------
(* The inductive invariant. *)

\* Where the indices stand: what the producer knows of tail_ is old, and the
\* drain's copy position lies between tail_ and the head_ it loaded.
Indices ==
    /\ cached_tail <= tail /\ tail <= ctail /\ ctail <= chead
    /\ chead <= headFloor /\ headFloor <= head
    /\ head - cached_tail <= Slots
    /\ ppc \in {"write", "publish"} => head - cached_tail < Slots /\ attempts < MaxAttempts
    /\ cpc # "copy" => tail = ctail
    /\ head = Len(pushed) /\ attempts = head + drops

\* The slots between tail_ and head_ hold the accepted records.
Contents ==
    /\ \A k \in tail .. head - 1 : slots[k % Slots] = pushed[k + 1]
    /\ ppc = "publish" => slots[head % Slots] = NewRecord

\* The batch is the accepted records between Handled and ctail.
BatchHolds ==
    /\ Len(batch) <= ctail
    /\ \A i \in 1 .. Len(batch) : batch[i] = pushed[Handled + i]
    /\ cpc \in {"load", "close", "done"} => batch = <<>>
    /\ cpc = "emit" => Len(batch) <= popped
    /\ cpc = "emit" /\ popped = 0 => ctail = chead

\* What the drain knows once it has seen stop_.
StopKnown ==
    /\ stop_ <=> ppc \in {"join", "joined"}
    /\ stop_seen => stop_ /\ headFloor = head
    /\ stop_seen /\ cpc # "load" => chead = head
    /\ cpc \in {"close", "done"} => stop_seen /\ ctail = chead

Recorded ==
    /\ RecordingFaithful
    /\ ~write_failed => seq_ = Handled

IInv == /\ TypeOK /\ Indices /\ Contents /\ BatchHolds /\ StopKnown
        /\ Recorded /\ LossIsVisible /\ GroundCloses

\* A later tail_ only leaves more room.
LEMMA RoomAfterReload ==
    ASSUME NEW h \in Nat, NEW c \in Nat, NEW d \in Nat, c <= d, h - c <= Slots, h - d # Slots
    PROVE  h - d < Slots
BY SlotsAssumption

\* The record being pushed is a record.
LEMMA NewRecordType ==
    ASSUME TypeOK, Indices, attempts < MaxAttempts
    PROVE  NewRecord \in Record
<1>1. attempts + 1 \in 0 .. MaxAttempts /\ drops \in 0 .. MaxAttempts
  BY AttemptsAssumption DEF TypeOK, Indices
<1> QED
  BY <1>1 DEF NewRecord, Record

\* The invariant holds when the drain starts on an empty ring.
LEMMA InitInv == DrainInit => IInv
<1> SUFFICES ASSUME DrainInit PROVE IInv
  OBVIOUS
<1> USE SlotsAssumption, BatchAssumption, AttemptsAssumption DEF DrainInit
<1>1. TypeOK
  <2>1. NoRecord \in Record
    BY DEF NoRecord, Record
  <2>2. slots \in [0 .. Slots - 1 -> Record]
    BY <2>1
  <2>3. batch \in Seq(Record) /\ Len(batch) = 0 /\ pushed \in Seq(Record)
        /\ recording \in Seq([seq : Nat, rec : Record])
    OBVIOUS
  <2>4. ground \in [attempted : Nat, sent : Nat, send_errors : Nat, short_sends : Nat]
    OBVIOUS
  <2>5. /\ ppc \in {"idle", "write", "publish", "join", "joined"}
        /\ cpc \in {"load", "copy", "emit", "close", "done"}
        /\ stop_ \in BOOLEAN /\ stop_seen \in BOOLEAN /\ write_failed \in BOOLEAN
    OBVIOUS
  <2>6. attempts \in 0 .. MaxAttempts /\ popped \in 0 .. Batch /\ Len(batch) <= Batch
    BY <2>3
  <2> QED
    BY <2>2, <2>3, <2>4, <2>5, <2>6 DEF TypeOK
<1>2. Indices /\ Contents /\ BatchHolds /\ StopKnown
  BY DEF Indices, Contents, BatchHolds, StopKnown, Handled
<1>3. Recorded /\ LossIsVisible
  BY DEF Recorded, RecordingFaithful, LossIsVisible, Handled
<1>4. GroundCloses
  BY DEF GroundCloses
<1> QED
  BY <1>1, <1>2, <1>3, <1>4 DEF IInv

-----------------------------------------------------------------------------
(* The control thread's steps. *)

\* Finding room only moves cached_tail_, and never past tail_.
LEMMA PushRoomInv == IInv /\ PushRoom => IInv'
<1> SUFFICES ASSUME IInv, PushRoom PROVE IInv'
  OBVIOUS
<1> USE SlotsAssumption DEF IInv
<1>1. /\ cached_tail' \in Nat /\ cached_tail <= cached_tail' /\ cached_tail' <= tail
      /\ head - cached_tail' < Slots
  <2>1. /\ head \in Nat /\ tail \in Nat /\ cached_tail \in Nat
        /\ cached_tail <= tail /\ head - cached_tail <= Slots
    BY DEF TypeOK, Indices
  <2>2. CASE head - cached_tail # Slots /\ cached_tail' = cached_tail
    BY <2>1, <2>2
  <2>3. CASE cached_tail' \in cached_tail .. tail /\ head - cached_tail' # Slots
    <3>1. cached_tail' \in Nat /\ cached_tail <= cached_tail' /\ cached_tail' <= tail
      BY <2>1, <2>3
    <3> QED
      BY <2>1, <2>3, <3>1, RoomAfterReload
  <2> QED
    BY <2>2, <2>3 DEF PushRoom
<1>2. /\ ppc = "idle" /\ ppc' = "write" /\ attempts < MaxAttempts
      /\ UNCHANGED <<head, tail, drops, slots, attempts, stop_, cpc, headFloor, chead, ctail, batch,
                     popped, stop_seen, seq_, records_, write_failed, ground, recording, pushed>>
  BY DEF PushRoom, pop, out
<1>3. TypeOK'
  BY <1>1, <1>2 DEF TypeOK
<1>4. Indices'
  BY SMTT(30), <1>1, <1>2 DEF TypeOK, Indices
<1>5. Contents' /\ BatchHolds' /\ StopKnown'
  BY <1>2 DEF Contents, BatchHolds, StopKnown, Handled
<1>6. Recorded' /\ LossIsVisible' /\ GroundCloses'
  BY <1>2 DEF Recorded, RecordingFaithful, LossIsVisible, GroundCloses, Handled
<1> QED
  BY <1>3, <1>4, <1>5, <1>6

\* A drop is counted with its attempt.
LEMMA PushDropInv == IInv /\ PushDrop => IInv'
<1> SUFFICES ASSUME IInv, PushDrop PROVE IInv'
  OBVIOUS
<1> USE SlotsAssumption, AttemptsAssumption DEF IInv
<1>1. /\ cached_tail' \in Nat /\ cached_tail <= cached_tail' /\ cached_tail' <= tail
      /\ head - cached_tail' = Slots /\ ppc = "idle"
      /\ drops' = drops + 1 /\ attempts' = attempts + 1 /\ attempts < MaxAttempts
  BY DEF TypeOK, Indices, PushDrop
<1>2. UNCHANGED <<head, tail, slots, ppc, stop_, cpc, headFloor, chead, ctail, batch, popped,
                  stop_seen, seq_, records_, write_failed, ground, recording, pushed>>
  BY DEF PushDrop, pop, out
<1>3. TypeOK'
  BY <1>1, <1>2 DEF TypeOK
<1>4. Indices'
  BY <1>1, <1>2 DEF TypeOK, Indices
<1>5. Contents' /\ BatchHolds' /\ StopKnown'
  BY <1>1, <1>2 DEF Contents, BatchHolds, StopKnown, Handled
<1>6. Recorded' /\ LossIsVisible' /\ GroundCloses'
  BY <1>2 DEF Recorded, RecordingFaithful, LossIsVisible, GroundCloses, Handled
<1> QED
  BY <1>3, <1>4, <1>5, <1>6

\* The written slot is none of those between tail_ and head_: they lie less
\* than a ring below head_.
LEMMA PushWriteInv == IInv /\ PushWrite => IInv'
<1> SUFFICES ASSUME IInv, PushWrite PROVE IInv'
  OBVIOUS
<1> USE SlotsAssumption, AttemptsAssumption DEF IInv
<1>1. /\ ppc = "write" /\ ppc' = "publish"
      /\ slots' = [slots EXCEPT ![head % Slots] = NewRecord]
      /\ UNCHANGED <<head, tail, cached_tail, drops, attempts, stop_, cpc, headFloor, chead, ctail,
                     batch, popped, stop_seen, seq_, records_, write_failed, ground, recording, pushed>>
  BY DEF PushWrite, pop, out
<1>2. NewRecord \in Record
  BY <1>1, NewRecordType DEF Indices
<1>3. TypeOK'
  <2>1. slots' \in [0 .. Slots - 1 -> Record]
    BY <1>1, <1>2 DEF TypeOK
  <2> QED
    BY <1>1, <2>1 DEF TypeOK
<1>4. Indices'
  BY <1>1 DEF TypeOK, Indices
<1>5. Contents'
  <2>1. head % Slots \in 0 .. Slots - 1
    BY SlotExists DEF TypeOK
  <2>2. slots'[head' % Slots] = NewRecord'
    BY <1>1, <2>1 DEF TypeOK, NewRecord
  <2>3. ASSUME NEW k \in tail .. head - 1
        PROVE  slots'[k % Slots] = pushed[k + 1]
    <3>0. /\ head \in Nat /\ tail \in Nat /\ cached_tail \in Nat
          /\ cached_tail <= tail /\ head - cached_tail < Slots
      BY <1>1 DEF TypeOK, Indices
    <3>1. k \in Nat /\ k < head /\ head - k < Slots /\ head \in Nat
      BY <3>0, SlotsAssumption
    <3>2. k % Slots # head % Slots
      BY <3>1, ModDistinct
    <3>3. k % Slots \in 0 .. Slots - 1
      BY <3>1, SlotExists
    <3>4. slots'[k % Slots] = slots[k % Slots]
      BY <1>1, <3>2, <3>3 DEF TypeOK
    <3> QED
      BY <3>4 DEF Contents
  <2> QED
    BY <1>1, <2>2, <2>3 DEF Contents
<1>6. BatchHolds' /\ StopKnown'
  BY <1>1 DEF BatchHolds, StopKnown, Handled
<1>7. Recorded' /\ LossIsVisible' /\ GroundCloses'
  BY <1>1 DEF Recorded, RecordingFaithful, LossIsVisible, GroundCloses, Handled
<1> QED
  BY <1>3, <1>4, <1>5, <1>6, <1>7

\* Publishing extends the accepted records and leaves the earlier ones alone.
LEMMA PushPublishInv == IInv /\ PushPublish => IInv'
<1> SUFFICES ASSUME IInv, PushPublish PROVE IInv'
  OBVIOUS
<1> USE SlotsAssumption, AttemptsAssumption DEF IInv
<1>1. /\ ppc = "publish" /\ ppc' = "idle" /\ head' = head + 1 /\ attempts' = attempts + 1
      /\ attempts < MaxAttempts /\ pushed' = Append(pushed, NewRecord)
      /\ UNCHANGED <<tail, cached_tail, drops, slots, stop_, cpc, headFloor, chead, ctail, batch,
                     popped, stop_seen, seq_, records_, write_failed, ground, recording>>
  BY DEF PushPublish, Indices, pop, out
<1>2. NewRecord \in Record
  BY <1>1, NewRecordType
<1>3. /\ pushed' \in Seq(Record) /\ Len(pushed') = Len(pushed) + 1 /\ Len(pushed) = head
      /\ pushed'[head + 1] = NewRecord
      /\ \A i \in 1 .. head : pushed'[i] = pushed[i]
  BY <1>1, <1>2 DEF TypeOK, Indices
<1>4. TypeOK'
  BY <1>1, <1>3 DEF TypeOK
<1>5. Indices'
  <2>1. /\ head \in Nat /\ cached_tail \in Nat /\ headFloor \in Nat /\ drops \in Nat /\ attempts \in Nat
        /\ head - cached_tail < Slots /\ headFloor <= head /\ attempts = head + drops
    BY <1>1 DEF TypeOK, Indices
  <2>2. head' = Len(pushed') /\ attempts' = head' + drops' /\ headFloor' <= head'
    <3>1. head' = head + 1 /\ attempts' = attempts + 1 /\ drops' = drops /\ headFloor' = headFloor
      BY <1>1
    <3>2. Len(pushed') = head + 1
      BY <1>3
    <3> QED
      BY <2>1, <3>1, <3>2
  <2>3. head' - cached_tail' <= Slots
    BY <1>1, <2>1
  <2> QED
    BY <1>1, <2>2, <2>3 DEF Indices
<1>6. Contents'
  <2>0. (tail .. head - 1)' = tail .. head
    BY <1>1 DEF TypeOK
  <2> SUFFICES ASSUME NEW k \in tail .. head PROVE slots[k % Slots] = pushed'[k + 1]
    BY <1>1, <2>0 DEF Contents
  <2>1. CASE k = head
    BY <1>1, <1>3, <2>1 DEF Contents
  <2>2. CASE k # head
    <3>1. head \in Nat /\ tail \in Nat
      BY DEF TypeOK
    <3>2. k \in tail .. head - 1 /\ k + 1 \in 1 .. head
      BY <2>2, <3>1
    <3>3. slots[k % Slots] = pushed[k + 1]
      BY <3>2 DEF Contents
    <3> QED
      BY <1>3, <3>2, <3>3
  <2> QED
    BY <2>1, <2>2
<1>7. BatchHolds'
  <2>1. Len(batch) \in Nat /\ ctail \in Nat /\ head \in Nat /\ Len(batch) <= ctail /\ ctail <= head
    BY DEF TypeOK, Indices, BatchHolds
  <2>2. Handled' = Handled /\ Handled + Len(batch) <= head /\ Handled \in Nat
    BY <1>1, <2>1 DEF Handled
  <2>3. \A i \in 1 .. Len(batch) : pushed'[Handled + i] = pushed[Handled + i]
    BY <1>3, <2>1, <2>2
  <2> QED
    BY <1>1, <2>2, <2>3 DEF BatchHolds
<1>8. StopKnown'
  BY <1>1 DEF StopKnown
<1>9. Recorded'
  <2>1. Handled' = Handled /\ Handled <= head /\ Handled \in Nat
    BY SMTT(30), <1>1 DEF Handled, TypeOK, Indices, BatchHolds
  <2> QED
    BY <1>1, <1>3, <2>1 DEF Recorded, RecordingFaithful, TypeOK
<1>10. LossIsVisible'
  <2> SUFFICES ASSUME NEW k \in 1 .. head + 1 PROVE pushed'[k].id = k + pushed'[k].drops
    BY <1>3 DEF LossIsVisible, TypeOK
  <2>1. CASE k = head + 1
    BY SMTT(30), <1>1, <1>3, <2>1 DEF Indices, NewRecord, TypeOK
  <2>2. CASE k # head + 1
    <3>1. k \in 1 .. head
      BY <2>2 DEF TypeOK
    <3> QED
      BY <1>3, <3>1 DEF LossIsVisible
  <2> QED
    BY <2>1, <2>2
<1>11. GroundCloses'
  BY <1>1 DEF GroundCloses
<1> QED
  BY <1>4, <1>5, <1>6, <1>7, <1>8, <1>9, <1>10, <1>11

\* Stopping and joining move only the control thread.
LEMMA StopJoinInv == IInv /\ (Stop \/ Join) => IInv'
<1> SUFFICES ASSUME IInv, Stop \/ Join PROVE IInv'
  OBVIOUS
<1> USE DEF IInv
<1>1. /\ ppc \in {"idle", "join"} /\ ppc' \in {"join", "joined"}
      /\ stop_' = TRUE
      /\ UNCHANGED <<head, tail, cached_tail, drops, slots, attempts, cpc, headFloor, chead, ctail,
                     batch, popped, stop_seen, seq_, records_, write_failed, ground, recording, pushed>>
  BY DEF Stop, Join, StopKnown, ring, pop, out
<1>2. TypeOK' /\ Indices'
  BY <1>1 DEF TypeOK, Indices
<1>3. Contents' /\ BatchHolds' /\ StopKnown'
  BY <1>1 DEF Contents, BatchHolds, StopKnown, Handled
<1>4. Recorded' /\ LossIsVisible' /\ GroundCloses'
  BY <1>1 DEF Recorded, RecordingFaithful, LossIsVisible, GroundCloses, Handled
<1> QED
  BY <1>2, <1>3, <1>4

-----------------------------------------------------------------------------
(* The drain thread's steps. *)

\* pop_batch loads a head_ that is not older than one it saw.
LEMMA PopLoadInv == IInv /\ PopLoad => IInv'
<1> SUFFICES ASSUME IInv, PopLoad PROVE IInv'
  OBVIOUS
<1> USE BatchAssumption DEF IInv
<1>1. /\ cpc = "load" /\ cpc' = "copy" /\ ctail' = tail /\ tail = ctail
      /\ batch = <<>> /\ batch' = <<>>
      /\ chead' \in Nat /\ headFloor <= chead' /\ chead' <= head /\ headFloor' = chead'
      /\ UNCHANGED <<head, tail, cached_tail, drops, slots, attempts, ppc, stop_, popped, stop_seen,
                     seq_, records_, write_failed, ground, recording, pushed>>
  BY DEF PopLoad, TypeOK, Indices, BatchHolds, ring, out
<1>2. TypeOK'
  BY <1>1 DEF TypeOK
<1>3. Indices'
  BY <1>1 DEF TypeOK, Indices
<1>4. Contents' /\ BatchHolds'
  BY <1>1 DEF Contents, BatchHolds, Handled, NewRecord, TypeOK
<1>5. StopKnown'
  BY <1>1 DEF StopKnown, TypeOK, Indices
<1>6. Recorded' /\ LossIsVisible' /\ GroundCloses'
  BY <1>1 DEF Recorded, RecordingFaithful, LossIsVisible, GroundCloses, Handled
<1> QED
  BY <1>2, <1>3, <1>4, <1>5, <1>6

\* A copied slot still holds the record pushed at that position.
LEMMA PopCopyInv == IInv /\ PopCopy => IInv'
<1> SUFFICES ASSUME IInv, PopCopy PROVE IInv'
  OBVIOUS
<1> USE BatchAssumption DEF IInv
<1>1. /\ cpc = "copy" /\ ctail # chead /\ Len(batch) < Batch
      /\ batch' = Append(batch, slots[ctail % Slots]) /\ ctail' = ctail + 1
      /\ UNCHANGED <<head, tail, cached_tail, drops, slots, attempts, ppc, stop_, cpc, headFloor,
                     chead, popped, stop_seen, seq_, records_, write_failed, ground, recording, pushed>>
  BY DEF PopCopy, PopMore, ring, out
<1>2. ctail \in tail .. head - 1 /\ ctail \in Nat
  BY <1>1 DEF TypeOK, Indices
<1>3. slots[ctail % Slots] = pushed[ctail + 1] /\ slots[ctail % Slots] \in Record
  BY <1>2, SlotExists DEF Contents, TypeOK
<1>4. /\ batch' \in Seq(Record) /\ Len(batch') = Len(batch) + 1
      /\ batch'[Len(batch) + 1] = pushed[ctail + 1]
      /\ \A i \in 1 .. Len(batch) : batch'[i] = batch[i]
  BY <1>1, <1>3 DEF TypeOK
<1>5. Handled' = Handled /\ Handled \in Nat /\ Handled + Len(batch) = ctail /\ Len(batch) \in Nat
  BY <1>1, <1>2, <1>4 DEF Handled, TypeOK, BatchHolds
<1>6. TypeOK'
  BY <1>1, <1>2, <1>4 DEF TypeOK
<1>7. Indices' /\ Contents'
  BY <1>1, <1>2 DEF TypeOK, Indices, Contents, NewRecord
<1>8. BatchHolds'
  <2>1. ASSUME NEW i \in 1 .. Len(batch) + 1
        PROVE  batch'[i] = pushed[Handled + i]
    <3>1. CASE i = Len(batch) + 1
      BY <1>4, <1>5, <3>1
    <3>2. CASE i \in 1 .. Len(batch)
      BY <1>4, <3>2 DEF BatchHolds
    <3> QED
      BY <1>5, <3>1, <3>2
  <2> QED
    BY <1>1, <1>2, <1>4, <1>5, <2>1 DEF BatchHolds
<1>9. StopKnown'
  BY <1>1 DEF StopKnown
<1>10. Recorded' /\ LossIsVisible' /\ GroundCloses'
  BY <1>1, <1>5 DEF Recorded, RecordingFaithful, LossIsVisible, GroundCloses
<1> QED
  BY <1>6, <1>7, <1>8, <1>9, <1>10

\* Storing tail_ releases exactly the slots that were copied.
LEMMA PopStoreInv == IInv /\ PopStore => IInv'
<1> SUFFICES ASSUME IInv, PopStore PROVE IInv'
  OBVIOUS
<1> USE BatchAssumption DEF IInv
<1>1. /\ cpc = "copy" /\ cpc' = "emit" /\ tail' = ctail /\ popped' = Len(batch)
      /\ ctail = chead \/ ~(Len(batch) < Batch)
      /\ UNCHANGED <<head, cached_tail, drops, slots, attempts, ppc, stop_, headFloor, chead, ctail,
                     batch, stop_seen, seq_, records_, write_failed, ground, recording, pushed>>
  BY DEF PopStore, PopMore, out
<1>2. Len(batch) \in 0 .. Batch /\ (popped' = 0 => ctail = chead)
  BY <1>1 DEF TypeOK
<1>3. TypeOK'
  BY <1>1, <1>2 DEF TypeOK
<1>4. Indices'
  BY <1>1 DEF TypeOK, Indices
<1>5. Contents'
  <2>1. \A k \in ctail .. head - 1 : k \in tail .. head - 1
    BY DEF TypeOK, Indices
  <2> QED
    BY <1>1, <2>1 DEF Contents, NewRecord
<1>6. BatchHolds' /\ StopKnown'
  BY <1>1, <1>2 DEF BatchHolds, StopKnown, Handled, TypeOK
<1>7. Recorded' /\ LossIsVisible' /\ GroundCloses'
  BY <1>1 DEF Recorded, RecordingFaithful, LossIsVisible, GroundCloses, Handled
<1> QED
  BY <1>3, <1>4, <1>5, <1>6, <1>7

\* Taking the first record of the batch: the common part of both emit steps.
LEMMA TakeFirst ==
    ASSUME TypeOK, Indices, BatchHolds, batch # <<>>, batch' = Tail(batch),
           UNCHANGED <<ctail, chead, popped, cpc, pushed>>, cpc = "emit"
    PROVE  /\ batch' \in Seq(Record) /\ Len(batch') = Len(batch) - 1 /\ Len(batch) \in Nat \ {0}
           /\ Handled' = Handled + 1 /\ Handled \in Nat /\ Handled < Len(pushed)
           /\ Head(batch) = pushed[Handled + 1] /\ Head(batch) \in Record
           /\ BatchHolds'
<1>1. /\ batch' \in Seq(Record) /\ Len(batch') = Len(batch) - 1 /\ Len(batch) \in Nat \ {0}
      /\ Head(batch) = batch[1] /\ Head(batch) \in Record
      /\ \A i \in 1 .. Len(batch) - 1 : batch'[i] = batch[i + 1]
  BY DEF TypeOK
<1>2. Handled' = Handled + 1 /\ Handled \in Nat /\ Handled < Len(pushed)
  BY <1>1 DEF TypeOK, Indices, BatchHolds, Handled
<1>3. Head(batch) = pushed[Handled + 1]
  BY <1>1 DEF BatchHolds
<1>4. ASSUME NEW i \in 1 .. Len(batch')
      PROVE  batch'[i] = pushed'[Handled' + i]
  <2>1. i + 1 \in 1 .. Len(batch) /\ i \in 1 .. Len(batch) - 1
    BY <1>1
  <2>2. batch'[i] = pushed[Handled + (i + 1)]
    BY <1>1, <2>1 DEF BatchHolds
  <2> QED
    BY <1>2, <2>1, <2>2
<1>5. BatchHolds'
  BY <1>1, <1>4 DEF BatchHolds, TypeOK
<1> QED
  BY <1>1, <1>2, <1>3, <1>5

\* A refused record ends the claim that nothing failed.
LEMMA EmitRejectInv == IInv /\ EmitReject => IInv'
<1> SUFFICES ASSUME IInv, EmitReject PROVE IInv'
  OBVIOUS
<1> USE DEF IInv
<1>1. /\ cpc = "emit" /\ batch # <<>> /\ batch' = Tail(batch) /\ write_failed' = TRUE
      /\ UNCHANGED <<head, tail, cached_tail, drops, slots, attempts, ppc, stop_, cpc, headFloor, chead,
                     ctail, popped, stop_seen, seq_, records_, ground, recording, pushed>>
  BY DEF EmitReject, ring
<1>2. batch' \in Seq(Record) /\ Len(batch') = Len(batch) - 1 /\ Len(batch) \in Nat /\ BatchHolds'
  BY <1>1, TakeFirst
<1>3. TypeOK'
  BY <1>1, <1>2, BatchAssumption DEF TypeOK
<1>4. Indices' /\ Contents' /\ StopKnown'
  BY <1>1 DEF Indices, Contents, NewRecord, StopKnown
<1>5. Recorded' /\ LossIsVisible' /\ GroundCloses'
  BY <1>1 DEF Recorded, RecordingFaithful, LossIsVisible, GroundCloses
<1> QED
  BY <1>2, <1>3, <1>4, <1>5

\* A frame takes the next sequence number and the next place in the recording.
LEMMA EmitFrameInv == IInv /\ EmitFrame => IInv'
<1> SUFFICES ASSUME IInv, EmitFrame PROVE IInv'
  OBVIOUS
<1> USE DEF IInv
<1>1. /\ cpc = "emit" /\ batch # <<>> /\ batch' = Tail(batch) /\ seq_' = seq_ + 1
      /\ UNCHANGED <<head, tail, cached_tail, drops, slots, attempts, ppc, stop_, cpc, headFloor, chead,
                     ctail, popped, stop_seen, pushed>>
  BY DEF EmitFrame, ring
<1>2. /\ batch' \in Seq(Record) /\ Len(batch') = Len(batch) - 1 /\ Len(batch) \in Nat
      /\ Handled' = Handled + 1 /\ Handled \in Nat /\ Head(batch) \in Record
      /\ Head(batch) = pushed[Handled + 1] /\ BatchHolds'
  BY <1>1, TakeFirst
<1>3. \/ /\ records_' = records_ + 1 /\ write_failed' = write_failed
         /\ recording' = Append(recording, [seq |-> seq_, rec |-> Head(batch)])
      \/ write_failed' = TRUE /\ records_' = records_ /\ recording' = recording
  BY DEF EmitFrame
<1>4. /\ ground' \in [attempted : Nat, sent : Nat, send_errors : Nat, short_sends : Nat]
      /\ GroundCloses'
  <2>1. PICK result \in Sends : GroundSend(result)
    BY DEF EmitFrame
  <2> DEFINE a == One(result # "off")
             s == One(result = "sent")
             e == One(result \in {"short", "error"})
             h == One(result = "short")
  <2>2. ground' = [attempted |-> ground.attempted + a, sent |-> ground.sent + s,
                   send_errors |-> ground.send_errors + e,
                   short_sends |-> ground.short_sends + h]
    BY <2>1 DEF GroundSend
  <2>3. /\ a \in Nat /\ s \in Nat /\ e \in Nat /\ h \in Nat
        /\ a = s + e /\ h <= e /\ a = IF Ground THEN 1 ELSE 0
    <3>1. CASE Ground
      BY <2>1, <3>1 DEF One, Sends
    <3>2. CASE ~Ground
      BY <2>1, <3>2 DEF One, Sends
    <3> QED
      BY <3>1, <3>2
  <2> HIDE DEF a, s, e, h
  <2>4. /\ ground.attempted \in Nat /\ ground.sent \in Nat /\ ground.send_errors \in Nat
        /\ ground.short_sends \in Nat /\ seq_ \in Nat
        /\ ground.attempted = ground.sent + ground.send_errors
        /\ ground.short_sends <= ground.send_errors
        /\ ground.attempted = IF Ground THEN seq_ ELSE 0
    BY DEF TypeOK, GroundCloses
  <2>5. /\ ground'.attempted = ground.attempted + a /\ ground'.sent = ground.sent + s
        /\ ground'.send_errors = ground.send_errors + e
        /\ ground'.short_sends = ground.short_sends + h
    BY <2>2
  <2>6. GroundCloses'
    <3>1. ground'.attempted = ground'.sent + ground'.send_errors
      BY <2>3, <2>4, <2>5
    <3>2. ground'.short_sends <= ground'.send_errors
      BY <2>3, <2>4, <2>5
    <3>3. ground'.attempted = IF Ground THEN seq_' ELSE 0
      BY <1>1, <2>3, <2>4, <2>5
    <3> QED
      BY <3>1, <3>2, <3>3 DEF GroundCloses
  <2>7. ground' \in [attempted : Nat, sent : Nat, send_errors : Nat, short_sends : Nat]
    BY <2>2, <2>3, <2>4
  <2> QED
    BY <2>6, <2>7
<1>5. recording' \in Seq([seq : Nat, rec : Record]) /\ records_' \in Nat /\ write_failed' \in BOOLEAN
  <2>1. [seq |-> seq_, rec |-> Head(batch)] \in [seq : Nat, rec : Record]
    BY <1>2 DEF TypeOK
  <2>2. /\ recording \in Seq([seq : Nat, rec : Record])
        /\ records_ \in Nat /\ write_failed \in BOOLEAN
    BY DEF TypeOK
  <2>3. Append(recording, [seq |-> seq_, rec |-> Head(batch)]) \in Seq([seq : Nat, rec : Record])
    BY <2>1, <2>2
  <2>4. write_failed' \in BOOLEAN
    BY <1>3, <2>2, Zenon
  <2>5. CASE records_' = records_ + 1 /\ recording' = Append(recording, [seq |-> seq_, rec |-> Head(batch)])
    BY <2>2, <2>3, <2>4, <2>5
  <2>6. CASE records_' = records_ /\ recording' = recording
    BY <2>2, <2>4, <2>6
  <2> QED
    BY <1>3, <2>5, <2>6
<1>6. TypeOK'
  BY SMTT(30), <1>1, <1>2, <1>4, <1>5, BatchAssumption DEF TypeOK
<1>7. Indices' /\ Contents' /\ StopKnown' /\ LossIsVisible'
  BY <1>1 DEF Indices, Contents, NewRecord, StopKnown, LossIsVisible
<1>8. Recorded'
  <2> SUFFICES ASSUME ~write_failed' PROVE RecordingFaithful' /\ seq_' = Handled'
    BY DEF Recorded, RecordingFaithful
  <2>1. /\ ~write_failed /\ records_' = records_ + 1
        /\ recording' = Append(recording, [seq |-> seq_, rec |-> Head(batch)])
    BY <1>3
  <2>2. /\ Len(recording) = Handled /\ records_ = Handled /\ seq_ = Handled
        /\ \A i \in 1 .. Handled : recording[i].seq = i - 1 /\ recording[i].rec = pushed[i]
    BY <2>1 DEF Recorded, RecordingFaithful
  <2>3. /\ Len(recording') = Handled + 1
        /\ recording'[Handled + 1] = [seq |-> seq_, rec |-> Head(batch)]
        /\ \A i \in 1 .. Handled : recording'[i] = recording[i]
    BY <2>1, <2>2 DEF TypeOK
  <2>4. ASSUME NEW i \in 1 .. Handled + 1
        PROVE  recording'[i].seq = i - 1 /\ recording'[i].rec = pushed[i]
    <3>1. CASE i = Handled + 1
      BY <1>2, <2>2, <2>3, <3>1
    <3>2. CASE i \in 1 .. Handled
      BY <2>2, <2>3, <3>2
    <3> QED
      BY <1>2, <3>1, <3>2
  <2> QED
    BY <1>1, <1>2, <2>1, <2>2, <2>3, <2>4 DEF RecordingFaithful
<1> QED
  BY <1>2, <1>4, <1>6, <1>7, <1>8

\* The steps around an empty or finished batch.
LEMMA LoopInv == IInv /\ (NextBatch \/ EmptySleep \/ EmptyStop \/ EmptyLeave) => IInv'
<1> SUFFICES ASSUME IInv, NextBatch \/ EmptySleep \/ EmptyStop \/ EmptyLeave PROVE IInv'
  OBVIOUS
<1> USE DEF IInv
<1>1. UNCHANGED <<head, tail, cached_tail, drops, slots, attempts, ppc, stop_, chead, ctail, batch,
                  popped, seq_, records_, write_failed, ground, recording, pushed>>
  BY DEF NextBatch, EmptySleep, EmptyStop, EmptyLeave, ring, pop, out
<1>2. /\ cpc = "emit" /\ batch = <<>>
      /\ \/ cpc' = "load" /\ headFloor' = headFloor /\ stop_seen' = stop_seen
         \/ cpc' = "load" /\ headFloor' = head /\ stop_seen' = TRUE /\ stop_
         \/ cpc' = "close" /\ headFloor' = headFloor /\ stop_seen' = stop_seen
            /\ stop_seen /\ popped = 0
  BY DEF NextBatch, EmptySleep, EmptyStop, EmptyLeave, pop, BatchHolds, TypeOK
<1>3. TypeOK'
  BY <1>1, <1>2 DEF TypeOK
<1>4. Indices'
  BY <1>1, <1>2 DEF TypeOK, Indices
<1>5. Contents' /\ BatchHolds'
  BY <1>1, <1>2 DEF Contents, NewRecord, BatchHolds, Handled
<1>6. StopKnown'
  BY <1>1, <1>2 DEF StopKnown, BatchHolds
<1>7. Recorded' /\ LossIsVisible' /\ GroundCloses'
  BY <1>1 DEF Recorded, RecordingFaithful, LossIsVisible, GroundCloses, Handled
<1> QED
  BY <1>3, <1>4, <1>5, <1>6, <1>7

\* Closing the file changes at most write_failed_.
LEMMA CloseInv == IInv /\ Close => IInv'
<1> SUFFICES ASSUME IInv, Close PROVE IInv'
  OBVIOUS
<1> USE DEF IInv
<1>1. /\ cpc = "close" /\ cpc' = "done" /\ write_failed' \in {write_failed, TRUE}
      /\ UNCHANGED <<head, tail, cached_tail, drops, slots, attempts, ppc, stop_, headFloor, chead, ctail,
                     batch, popped, stop_seen, seq_, records_, ground, recording, pushed>>
  BY DEF Close, ring, pop
<1>2. TypeOK' /\ Indices'
  BY <1>1 DEF TypeOK, Indices
<1>3. Contents' /\ BatchHolds' /\ StopKnown'
  BY <1>1 DEF Contents, NewRecord, BatchHolds, StopKnown, Handled
<1>4. Recorded' /\ LossIsVisible' /\ GroundCloses'
  BY <1>1 DEF Recorded, RecordingFaithful, LossIsVisible, GroundCloses, Handled
<1> QED
  BY <1>2, <1>3, <1>4

\* A step that changes nothing preserves the invariant.
LEMMA StutterInv == IInv /\ UNCHANGED drain_vars => IInv'
<1> SUFFICES ASSUME IInv, UNCHANGED drain_vars PROVE IInv'
  OBVIOUS
<1> USE DEF IInv, drain_vars, ring, pop, out
<1>1. TypeOK' /\ Indices' /\ Contents' /\ BatchHolds' /\ StopKnown'
  BY DEF TypeOK, Indices, Contents, NewRecord, BatchHolds, StopKnown, Handled
<1>2. Recorded' /\ LossIsVisible' /\ GroundCloses'
  BY DEF Recorded, RecordingFaithful, LossIsVisible, GroundCloses, Handled
<1> QED
  BY <1>1, <1>2

\* Every step of either thread preserves the invariant.
LEMMA NextInv == IInv /\ [DrainNext]_drain_vars => IInv'
<1> SUFFICES ASSUME IInv, [DrainNext]_drain_vars PROVE IInv'
  OBVIOUS
<1>1. CASE Producer
  BY <1>1, PushRoomInv, PushDropInv, PushWriteInv, PushPublishInv, StopJoinInv DEF Producer
<1>2. CASE Drain
  BY <1>2, PopLoadInv, PopCopyInv, PopStoreInv, EmitRejectInv, EmitFrameInv, LoopInv, CloseInv
     DEF Drain
<1>3. CASE Finished \/ UNCHANGED drain_vars
  BY <1>3, StutterInv DEF Finished
<1> QED
  BY <1>1, <1>2, <1>3 DEF DrainNext

-----------------------------------------------------------------------------
(* The theorems. *)

\* The inductive invariant holds in every state that try_push, stop and
\* Drain::run reach.
THEOREM Invariance == DrainSpec => []IInv
BY InitInv, NextInv, PTL DEF DrainSpec

\* Every variable keeps its type and no batch outgrows the drain's buffer,
\* whatever the interleaving of try_push and Drain::run.
THEOREM TypeCorrect == DrainSpec => []TypeOK
<1>1. IInv => TypeOK
  BY DEF IInv
<1> QED
  BY <1>1, Invariance, PTL

\* The two threads never touch the same slot at once: try_push writes at least
\* one position, and less than a ring, above every position pop_batch still copies.
THEOREM RaceFree == DrainSpec => []NoSlotRace
<1>1. IInv => NoSlotRace
  <2> SUFFICES ASSUME IInv, ppc = "write", NEW k \in ctail .. chead - 1
               PROVE  k % Slots # head % Slots
    BY DEF NoSlotRace
  <2>1. k \in Nat /\ head \in Nat /\ k < head /\ head - k < Slots
    BY SMTT(30), SlotsAssumption DEF IInv, TypeOK, Indices
  <2> QED
    BY <2>1, SlotsAssumption, ModDistinct
<1> QED
  BY <1>1, Invariance, PTL

\* While write_failed() is false the recording is the accepted records, in
\* order and without a gap, up to what Drain::run has handled.
THEOREM FaithfulRecording == DrainSpec => []RecordingFaithful
<1>1. IInv => RecordingFaithful
  BY DEF IInv, Recorded
<1> QED
  BY <1>1, Invariance, PTL

\* The drops carried by a record account for every attempt before it.
THEOREM VisibleLoss == DrainSpec => []LossIsVisible
<1>1. IInv => LossIsVisible
  BY DEF IInv
<1> QED
  BY <1>1, Invariance, PTL

\* Drain::run leaves its loop only after the last accepted record: the pop
\* after the acquire load of stop_ cannot miss a push.
THEOREM NothingLostAtStop == DrainSpec => []StopLosesNothing
<1>1. IInv => StopLosesNothing
  BY DEF IInv, TypeOK, Indices, BatchHolds, StopKnown, StopLosesNothing, Handled
<1> QED
  BY <1>1, Invariance, PTL

\* The ground counters of Drain::run close at every step.
THEOREM GroundAccounting == DrainSpec => []GroundCloses
<1>1. IInv => GroundCloses
  BY DEF IInv
<1> QED
  BY <1>1, Invariance, PTL

\* Every step of the two threads is a step of the bounded log or leaves it
\* unchanged: the safety half of ImplementsLog.
THEOREM LogRefinement == DrainSpec => Log!Init /\ [][Log!Next]_Log!log
<1>1. DrainInit => Log!Init
  <2> SUFFICES ASSUME DrainInit PROVE Log!Init
    OBVIOUS
  <2>1. Handled = 0
    <3>1. ctail = 0 /\ Len(batch) = 0
      BY DEF DrainInit
    <3> QED
      BY <3>1 DEF Handled
  <2>2. (cpc \in {"close", "done"}) = FALSE
    BY DEF DrainInit
  <2> QED
    BY <2>1, <2>2, Zenon DEF DrainInit, Log!Init
<1>2. IInv /\ [DrainNext]_drain_vars => [Log!Next]_Log!log
  <2> SUFFICES ASSUME IInv, [DrainNext]_drain_vars PROVE Log!Next \/ UNCHANGED Log!log
    OBVIOUS
  <2> USE DEF Log!log
  <2>1. CASE PushPublish
    <3>1. /\ ~stop_ /\ Len(pushed) - Handled < Slots + Batch /\ NewRecord \in Record
      <4>1. /\ head \in Nat /\ cached_tail \in Nat /\ ctail \in Nat /\ Len(batch) \in Nat
            /\ head - cached_tail < Slots /\ cached_tail <= ctail /\ Len(batch) <= Batch
            /\ Len(pushed) = head
        BY SMTT(30), <2>1 DEF IInv, TypeOK, Indices, PushPublish
      <4>2. Len(pushed) - Handled < Slots + Batch
        BY <4>1, SlotsAssumption, BatchAssumption DEF Handled
      <4> QED
        BY <2>1, <4>2, NewRecordType DEF IInv, Indices, StopKnown, PushPublish
    <3> QED
      BY <2>1, <3>1 DEF PushPublish, Log!Next, Log!Accept, pop, Handled
  <2>2. CASE Stop
    BY <2>2 DEF IInv, StopKnown, Stop, Log!Next, Log!Stop, pop, Handled
  <2>3. CASE EmitReject \/ EmitFrame
    <3>1. /\ cpc = "emit" /\ batch # <<>> /\ batch' = Tail(batch)
          /\ UNCHANGED <<ctail, chead, popped, cpc, pushed, stop_>>
      BY <2>3 DEF EmitReject, EmitFrame
    <3>2. Handled' = Handled + 1 /\ Handled \in Nat /\ Handled < Len(pushed)
      BY <3>1, TakeFirst DEF IInv
    <3> QED
      BY <3>1, <3>2 DEF Log!Next, Log!Deliver
  <2>4. CASE EmptyLeave
    <3>1. stop_ /\ chead = head /\ ctail = chead /\ batch = <<>>
      BY <2>4 DEF IInv, TypeOK, BatchHolds, StopKnown, EmptyLeave
    <3>2. Handled = Len(pushed)
      BY <3>1 DEF IInv, TypeOK, Indices, Handled
    <3> QED
      BY <2>4, <3>1, <3>2 DEF EmptyLeave, Log!Next, Log!Close, pop, Handled
  <2>5. CASE PopCopy
    <3>1. Len(batch') = Len(batch) + 1 /\ ctail' = ctail + 1 /\ Len(batch) \in Nat /\ ctail \in Nat
      BY <2>5 DEF PopCopy, IInv, TypeOK
    <3> QED
      BY <2>5, <3>1 DEF PopCopy, Handled
  <2>6. CASE PopLoad
    BY <2>6 DEF PopLoad, IInv, Indices, BatchHolds, Handled
  <2>7. CASE PushRoom \/ PushDrop \/ PushWrite \/ Join
    BY <2>7 DEF PushRoom, PushDrop, PushWrite, Join, pop, Handled
  <2>8. CASE PopStore \/ NextBatch \/ EmptySleep \/ EmptyStop \/ Close
    <3>1. UNCHANGED <<pushed, ctail, batch, stop_>>
      BY <2>8 DEF PopStore, NextBatch, EmptySleep, EmptyStop, Close, pop
    <3>2. \/ cpc \in {"copy", "emit"} /\ cpc' \in {"load", "emit"}
          \/ cpc = "close" /\ cpc' = "done"
      BY <2>8 DEF PopStore, NextBatch, EmptySleep, EmptyStop, Close
    <3>3. (cpc' \in {"close", "done"}) = (cpc \in {"close", "done"})
      BY <3>2
    <3> QED
      BY <3>1, <3>3 DEF Handled
  <2>9. CASE Finished \/ UNCHANGED drain_vars
    BY <2>9 DEF Finished, drain_vars, pop, Handled
  <2> QED
    BY <2>1, <2>2, <2>3, <2>4, <2>5, <2>6, <2>7, <2>8, <2>9 DEF DrainNext, Producer, Drain
<1> QED
  BY <1>1, <1>2, Invariance, PTL DEF DrainSpec

-----------------------------------------------------------------------------
(* The ground link. *)

\* A frame, a datagram, and the frame of cycle t of a vehicle that lost nothing.
Frames == [seq : Int, tick : Int, own : BOOLEAN]
Datagrams == [from : {"vehicle", "other"}, frame : Frames]
Own(t) == Frame(t, t, TRUE)

\* r is a record of these fields.
Shaped(r, fields) == r = [f \in fields |-> r[f]]

-----------------------------------------------------------------------------
(* The merge. *)

\* A nonempty set of natural numbers has a least element: the order of the
\* numbers is well founded.
LEMMA Least ==
    ASSUME NEW T, T \subseteq Nat, T # {}
    PROVE  \E x \in T : \A y \in T : x <= y
<1> DEFINE R == OpToRel(<, Nat)
<1>1. IsWellFoundedOn(R, Nat)
  BY NatLessThanWellFounded, Zenon
<1>2. \A x, y \in Nat : y < x => <<y, x>> \in R
  BY DEF OpToRel
<1> HIDE DEF R
<1>3. PICK x \in T : \A y \in T : ~ (<<y, x>> \in R)
  BY <1>1, WFMin
<1>4. ASSUME NEW y \in T PROVE x <= y
  <2>1. ~ (<<y, x>> \in R) BY <1>3
  <2>2. x \in Nat /\ y \in Nat OBVIOUS
  <2>3. ~ (y < x) BY <1>2, <2>1, <2>2
  <2> QED BY <2>2, <2>3
<1> QED BY <1>4

\* Induction over the natural numbers, for a set in the place of a predicate.
LEMMA SetInduction ==
    ASSUME NEW S, 0 \in S, \A n \in Nat : n \in S => n + 1 \in S
    PROVE  Nat \subseteq S
<1> DEFINE T == Nat \ S
<1> SUFFICES ASSUME T # {} PROVE FALSE
  OBVIOUS
<1>1. PICK x \in T : \A y \in T : x <= y
  BY Least
<1>2. x # 0 /\ x - 1 \in Nat /\ x - 1 \notin T
  BY <1>1
<1> QED BY <1>1, <1>2

\* Induction up to a bound.
LEMMA BoundedInduction ==
    ASSUME NEW n \in Nat, NEW S, 0 \in S,
           \A i \in 0 .. n - 1 : i \in S => i + 1 \in S
    PROVE  0 .. n \subseteq S
<1> DEFINE T == {i \in Nat : i \in S \/ i > n}
<1>1. 0 \in T
  OBVIOUS
<1>2. ASSUME NEW i \in Nat, i \in T PROVE i + 1 \in T
  <2>1. CASE i >= n BY <2>1
  <2>2. CASE i < n
    <3>1. i \in 0 .. n - 1 /\ i \in S BY <2>2, <1>2
    <3> QED BY <3>1
  <2> QED BY <2>1, <2>2
<1> HIDE DEF T
<1>3. Nat \subseteq T
  BY <1>1, <1>2, SetInduction
<1> QED BY <1>3 DEF T

\* The merge's states satisfy the recursion that defines them: such a function
\* exists for every number of vehicle frames.
LEMMA MergeRecursion ==
    ASSUME NEW v, NEW g, Len(v) \in Nat
    PROVE  /\ Merge(v, g)[0] = MergeStart
           /\ \A i \in 1 .. Len(v) : Merge(v, g)[i] = MatchStep(g, Merge(v, g)[i - 1], v[i])
<1> DEFINE Solves(f, n) ==
             f = [i \in 0 .. n |-> IF i = 0 THEN MergeStart ELSE MatchStep(g, f[i - 1], v[i])]
           S == {n \in Nat : \E f : Solves(f, n)}
<1>1. 0 \in S
  <2> DEFINE f == [i \in 0 .. 0 |-> MergeStart]
  <2>1. f = [i \in 0 .. 0 |-> IF i = 0 THEN MergeStart ELSE MatchStep(g, f[i - 1], v[i])]
    OBVIOUS
  <2> QED BY <2>1
<1>2. ASSUME NEW n \in Nat, n \in S PROVE n + 1 \in S
  <2>1. PICK f : Solves(f, n) BY <1>2
  <2> DEFINE h == [i \in 0 .. n + 1 |-> IF i <= n THEN f[i] ELSE MatchStep(g, f[n], v[n + 1])]
             k == [i \in 0 .. n + 1 |-> IF i = 0 THEN MergeStart ELSE MatchStep(g, h[i - 1], v[i])]
  <2>2. ASSUME NEW i \in 0 .. n + 1 PROVE h[i] = k[i]
    <3>1. CASE i = 0
      <4>1. h[0] = f[0] OBVIOUS
      <4>2. f[0] = MergeStart BY <2>1
      <4> QED BY <3>1, <4>1, <4>2
    <3>2. CASE i \in 1 .. n
      <4>1. h[i] = f[i] /\ h[i - 1] = f[i - 1] BY <3>2
      <4>2. f[i] = MatchStep(g, f[i - 1], v[i]) BY <2>1, <3>2
      <4> QED BY <3>2, <4>1, <4>2
    <3>3. CASE i = n + 1
      <4>1. h[i] = MatchStep(g, f[n], v[n + 1]) /\ h[i - 1] = f[n] BY <3>3
      <4> QED BY <3>3, <4>1
    <3> QED BY <3>1, <3>2, <3>3
  <2>3. h = k
    BY <2>2
  <2>4. Solves(h, n + 1) BY <2>3
  <2> HIDE DEF h, Solves
  <2> QED BY <2>4
<1> DEFINE N == Len(v)
           M == Merge(v, g)
<1>3. M = CHOOSE f : Solves(f, N)
  BY DEF Merge
<1>4. N \in S
  <2> HIDE DEF S
  <2> QED BY <1>1, <1>2, SetInduction
<1>5. PICK f : Solves(f, N)
  BY <1>4
<1> HIDE DEF M
<1>6. Solves(M, N)
  <2> HIDE DEF Solves
  <2> QED BY <1>3, <1>5
<1>7. M[0] = MergeStart
  BY <1>6
<1>8. ASSUME NEW i \in 1 .. N PROVE M[i] = MatchStep(g, M[i - 1], v[i])
  BY <1>6
<1> QED BY <1>7, <1>8 DEF M

\* A recording in order: ticks are natural numbers and increase.
Ordered(g) ==
    /\ g \in Seq(Frames)
    /\ \A k \in DOMAIN g : g[k].tick \in Nat
    /\ \A j, k \in DOMAIN g : j < k => g[j].tick < g[k].tick

\* A vehicle's recording without a gap.
Complete(v) ==
    /\ v \in Seq(Frames)
    /\ \A i \in DOMAIN v : v[i] = Own(i - 1)

MergeFields == {"ok", "vehicle", "ground", "tick", "last", "leading", "interior"}

MergeState(m) ==
    /\ Shaped(m, MergeFields)
    /\ m.vehicle \in Int /\ m.ground \in Int /\ m.tick \in Int
    /\ m.last \in Int /\ m.leading \in Int /\ m.interior \in Int

\* What the merge knows after i vehicle frames: the ground frames it has
\* matched are the vehicle's, and are those before tick i; the last of them is
\* at m.last, m.leading frames precede the first, and the rest is interior.
MergedSoFar(g, i, m) ==
    /\ m.vehicle = i /\ m.tick = i - 1
    /\ m.ground \in 0 .. Len(g)
    /\ \A k \in 1 .. m.ground : g[k].tick < i /\ g[k] = Own(g[k].tick)
    /\ \A k \in m.ground + 1 .. Len(g) : g[k].tick >= i
    /\ m.leading + m.interior + m.ground = m.last
    /\ m.ground = 0 => m.last = 0 /\ m.leading = 0
    /\ m.ground > 0 => m.last = g[m.ground].tick + 1 /\ m.leading = g[1].tick

\* The merge's record after a refusal, a frame without a match, and a match.
Stopped(m) == [m EXCEPT !.ok = FALSE]
Missed(m, i) == [m EXCEPT !.vehicle = i + 1, !.tick = i]
Hit(m, i) == Missed(Matched(m, i + 1), i)

\* What a refusal changes in the merge's record.
LEMMA StopRecord ==
    ASSUME NEW m, MergeState(m)
    PROVE  MergeState(Stopped(m)) /\ ~Stopped(m).ok
<1> DEFINE n == Stopped(m)
<1>1. Shaped(n, MergeFields)
  BY DEF Stopped, MergeState, MergeFields, Shaped
<1>2. /\ ~n.ok /\ n.vehicle = m.vehicle /\ n.tick = m.tick
      /\ n.ground = m.ground /\ n.last = m.last
      /\ n.leading = m.leading /\ n.interior = m.interior
  BY DEF Stopped, MergeState, MergeFields, Shaped
<1> HIDE DEF n
<1>3. MergeState(n) /\ ~n.ok
  BY <1>1, <1>2 DEF MergeState
<1> QED BY <1>3 DEF n

\* What a vehicle frame without a match changes in the merge's record.
LEMMA MissRecord ==
    ASSUME NEW m, MergeState(m), NEW i \in Nat
    PROVE  LET n == Missed(m, i)
           IN  /\ MergeState(n) /\ n.ok = m.ok /\ n.vehicle = i + 1 /\ n.tick = i
               /\ n.ground = m.ground /\ n.last = m.last
               /\ n.leading = m.leading /\ n.interior = m.interior
<1> DEFINE n == Missed(m, i)
<1>1. Shaped(n, MergeFields)
  BY DEF Missed, MergeState, MergeFields, Shaped
<1>2. /\ n.ok = m.ok /\ n.vehicle = i + 1 /\ n.tick = i
      /\ n.ground = m.ground /\ n.last = m.last
      /\ n.leading = m.leading /\ n.interior = m.interior
  BY DEF Missed, MergeState, MergeFields, Shaped
<1> HIDE DEF n
<1>3. MergeState(n)
  BY <1>1, <1>2 DEF MergeState
<1> QED BY <1>2, <1>3 DEF n

\* What a match changes in the merge's record.
LEMMA HitRecord ==
    ASSUME NEW m, MergeState(m), NEW i \in Nat
    PROVE  LET n == Hit(m, i)
           IN  /\ MergeState(n) /\ n.ok = m.ok /\ n.vehicle = i + 1 /\ n.tick = i
               /\ n.ground = m.ground + 1 /\ n.last = i + 1
               /\ n.leading = (IF m.last = 0 THEN i ELSE m.leading)
               /\ n.interior = (IF m.last = 0 THEN 0 ELSE m.interior + i - m.last)
<1> DEFINE p == Matched(m, i + 1)
<1>1. Shaped(p, MergeFields)
  BY DEF Matched, MergeState, MergeFields, Shaped
<1>2. /\ p.ok = m.ok /\ p.vehicle = m.vehicle /\ p.tick = m.tick /\ p.ground = m.ground + 1
      /\ p.last = i + 1
  BY DEF Matched, MergeState, MergeFields, Shaped
<1>3. /\ p.leading = (IF m.last = 0 THEN i ELSE m.leading)
      /\ p.interior = (IF m.last = 0 THEN 0 ELSE m.interior + i - m.last)
  <2>1. CASE m.last = 0 BY <2>1 DEF Matched, MergeState, MergeFields, Shaped
  <2>2. CASE m.last # 0 BY <2>2 DEF Matched, MergeState, MergeFields, Shaped
  <2> QED BY <2>1, <2>2
<1> HIDE DEF p
<1>5. MergeState(p)
  BY <1>1, <1>2, <1>3 DEF MergeState
<1>6. Hit(m, i) = Missed(p, i) BY DEF Hit, p
<1> DEFINE n == Missed(p, i)
<1>7. /\ MergeState(n) /\ n.ok = p.ok /\ n.vehicle = i + 1 /\ n.tick = i
      /\ n.ground = p.ground /\ n.last = p.last
      /\ n.leading = p.leading /\ n.interior = p.interior
  BY <1>5, MissRecord
<1> HIDE DEF n
<1>8. /\ n.ok = m.ok /\ n.ground = m.ground + 1 /\ n.last = i + 1
      /\ n.leading = (IF m.last = 0 THEN i ELSE m.leading)
      /\ n.interior = (IF m.last = 0 THEN 0 ELSE m.interior + i - m.last)
  BY <1>2, <1>3, <1>7, Zenon
<1> QED BY <1>6, <1>7, <1>8 DEF n

\* One step of the merge keeps what it knows, and refuses nothing that the
\* vehicle sent.
LEMMA MergeStep ==
    ASSUME NEW g, Ordered(g), NEW i \in Nat, NEW m, MergeState(m),
           m.ok => MergedSoFar(g, i, m)
    PROVE  LET n == MatchStep(g, m, Own(i))
           IN  /\ MergeState(n)
               /\ n.ok => m.ok /\ MergedSoFar(g, i + 1, n)
               /\ m.ok /\ (\A k \in DOMAIN g : g[k] = Own(g[k].tick)) => n.ok
<1> DEFINE n == MatchStep(g, m, Own(i))
           pending == m.ground < Len(g)
           next == g[m.ground + 1]
           hit == pending /\ next = Own(i)
<1>0. /\ Own(i) \in Frames /\ Own(i).seq = i /\ Own(i).tick = i
      /\ Len(g) \in Nat /\ DOMAIN g = 1 .. Len(g)
      /\ \A k \in 1 .. Len(g) : g[k] \in Frames /\ g[k].tick \in Nat
  <2>1. Own(i) \in Frames /\ Own(i).seq = i /\ Own(i).tick = i
    BY DEF Own, Frame, Frames
  <2>2. g \in Seq(Frames) /\ Len(g) \in Nat /\ DOMAIN g = 1 .. Len(g) BY DEF Ordered
  <2>3. \A k \in 1 .. Len(g) : g[k] \in Frames /\ g[k].tick \in Nat BY <2>2 DEF Ordered
  <2> QED BY <2>1, <2>2, <2>3
<1>1. CASE ~m.ok
  <2>1. n = Stopped(m)
    BY <1>1 DEF MatchStep, Stopped
  <2>2. MergeState(n) /\ ~n.ok BY <2>1, StopRecord
  <2> QED BY <1>1, <2>2
<1>2. CASE m.ok /\ ~(pending => next.tick > i \/ next = Own(i))
  <2>1. n = Stopped(m)
    BY <1>0, <1>2 DEF MatchStep, Stopped
  <2>2. ~(\A k \in DOMAIN g : g[k] = Own(g[k].tick))
    <3>1. MergedSoFar(g, i, m) BY <1>2
    <3>2. m.ground + 1 \in DOMAIN g /\ m.ground + 1 \in m.ground + 1 .. Len(g)
      BY <1>0, <1>2, <3>1 DEF MergedSoFar
    <3>3. next.tick >= i BY <3>1, <3>2 DEF MergedSoFar
    <3>4. next.tick \in Nat BY <1>0, <3>2
    <3>5. next.tick = i BY <1>2, <3>3, <3>4
    <3> QED BY <1>2, <3>2, <3>5
  <2>3. MergeState(n) /\ ~n.ok BY <2>1, StopRecord
  <2> QED BY <2>2, <2>3
<1>3. CASE m.ok /\ (pending => next.tick > i \/ next = Own(i))
  <2>0. MergedSoFar(g, i, m) BY <1>3
  <2>1. m.vehicle = i /\ m.tick = i - 1 /\ m.ground \in 0 .. Len(g)
    BY <2>0 DEF MergedSoFar
  <2>2. n = IF hit THEN Hit(m, i) ELSE Missed(m, i)
    <3> DEFINE frame == Own(i)
    <3>1. frame.seq = m.vehicle /\ frame.tick = i /\ frame.tick > m.tick BY <1>0, <2>1
    <3> HIDE DEF frame
    <3>2. m.ok /\ (pending => next.tick > frame.tick \/ next = frame)
      BY <1>3, <3>1 DEF frame
    <3>3. hit <=> (pending /\ next = frame) BY DEF frame
    <3>4. MatchStep(g, m, frame) =
             [(IF pending /\ next = frame THEN Matched(m, i + 1) ELSE m)
                 EXCEPT !.vehicle = i + 1, !.tick = i]
      BY <2>1, <3>1, <3>2 DEF MatchStep
    <3>5. CASE hit BY <3>3, <3>4, <3>5 DEF Hit, Missed, frame
    <3>6. CASE ~hit BY <3>3, <3>4, <3>6 DEF Missed, frame
    <3> QED BY <3>5, <3>6
  <2>3. CASE hit
    <3>1. /\ MergeState(n) /\ n.ok /\ n.vehicle = i + 1 /\ n.tick = i
          /\ n.ground = m.ground + 1 /\ n.last = i + 1
          /\ n.leading = (IF m.last = 0 THEN i ELSE m.leading)
          /\ n.interior = (IF m.last = 0 THEN 0 ELSE m.interior + i - m.last)
      <4>1. n = Hit(m, i)
        BY <2>2, <2>3
      <4> HIDE DEF n
      <4>2. MergeState(m) /\ m.ok BY <1>3
      <4> QED BY <4>1, <4>2, HitRecord
    <3>2. n.ground \in 1 .. Len(g) /\ g[n.ground] = Own(i)
      BY <1>0, <2>1, <2>3, <3>1
    <3> HIDE DEF n
    <3>3. ASSUME NEW k \in 1 .. n.ground PROVE g[k].tick < i + 1 /\ g[k] = Own(g[k].tick)
      <4>1. CASE k = n.ground BY <1>0, <3>2, <4>1
      <4>2. CASE k # n.ground
        <5>1. k \in 1 .. m.ground /\ k \in 1 .. Len(g) BY <2>1, <3>1, <3>2, <4>2
        <5> QED BY <1>0, <2>0, <5>1 DEF MergedSoFar
      <4> QED BY <4>1, <4>2
    <3>4. ASSUME NEW k \in n.ground + 1 .. Len(g) PROVE g[k].tick >= i + 1
      <4>1. k \in 1 .. Len(g) /\ n.ground < k BY <1>0, <3>2
      <4>2. g[n.ground].tick < g[k].tick BY <1>0, <3>2, <4>1 DEF Ordered
      <4> QED BY <1>0, <3>2, <4>1, <4>2
    <3>5. m.ground > 0 => m.last > 0
      <4> SUFFICES ASSUME m.ground > 0 PROVE m.last > 0 OBVIOUS
      <4>1. m.ground \in 1 .. Len(g) BY <2>1
      <4>2. m.last = g[m.ground].tick + 1 BY <2>0 DEF MergedSoFar
      <4> QED BY <1>0, <4>1, <4>2
    <3>6. n.leading + n.interior + n.ground = n.last
      <4>1. m.leading + m.interior + m.ground = m.last BY <2>0 DEF MergedSoFar
      <4>2. m.ground = 0 => m.last = 0 BY <2>0 DEF MergedSoFar
      <4>3. m.leading \in Int /\ m.interior \in Int /\ m.ground \in Int /\ m.last \in Int
        BY DEF MergeState
      <4>4. m.last = 0 => m.ground = 0 BY <2>1, <3>5
      <4>5. CASE m.last = 0 BY <3>1, <4>1, <4>3, <4>4, <4>5
      <4>6. CASE m.last # 0
        <5>1. n.leading = m.leading /\ n.interior = m.interior + i - m.last BY <3>1, <4>6
        <5>2. n.ground = m.ground + 1 /\ n.last = i + 1 BY <3>1
        <5> QED BY <4>1, <4>3, <5>1, <5>2
      <4> QED BY <4>5, <4>6
    <3>7. n.last = g[n.ground].tick + 1
      BY <1>0, <3>1, <3>2
    <3>8. n.leading = g[1].tick
      <4>1. CASE m.ground = 0
        <5>1. m.last = 0 BY <2>0, <4>1 DEF MergedSoFar
        <5>2. n.ground = 1 BY <3>1, <4>1
        <5> QED BY <1>0, <3>1, <3>2, <5>1, <5>2
      <4>2. CASE m.ground > 0
        <5>1. m.last > 0 /\ m.leading = g[1].tick BY <2>0, <3>5, <4>2 DEF MergedSoFar
        <5> QED BY <3>1, <5>1
      <4> QED BY <2>1, <4>1, <4>2
    <3>9. MergedSoFar(g, i + 1, n)
      BY <3>1, <3>2, <3>3, <3>4, <3>6, <3>7, <3>8 DEF MergedSoFar
    <3> QED BY <1>3, <3>1, <3>9 DEF n
  <2>4. CASE ~hit
    <3>1. /\ MergeState(n) /\ n.ok /\ n.vehicle = i + 1 /\ n.tick = i
          /\ n.ground = m.ground /\ n.last = m.last
          /\ n.leading = m.leading /\ n.interior = m.interior
      <4>1. n = Missed(m, i)
        BY <2>2, <2>4
      <4> HIDE DEF n
      <4>2. MergeState(m) /\ m.ok BY <1>3
      <4> QED BY <4>1, <4>2, MissRecord
    <3> HIDE DEF n
    <3>2. ASSUME NEW k \in 1 .. n.ground PROVE g[k].tick < i + 1 /\ g[k] = Own(g[k].tick)
      <4>1. k \in 1 .. m.ground /\ k \in 1 .. Len(g) BY <2>1, <3>1
      <4>2. g[k].tick < i /\ g[k] = Own(g[k].tick) BY <2>0, <4>1 DEF MergedSoFar
      <4> QED BY <1>0, <4>1, <4>2
    <3>3. ASSUME NEW k \in n.ground + 1 .. Len(g) PROVE g[k].tick >= i + 1
      <4>1. pending /\ m.ground + 1 \in 1 .. Len(g) /\ k \in 1 .. Len(g) /\ m.ground + 1 <= k
        BY <1>0, <2>1, <3>1
      <4>2. next.tick > i BY <1>3, <2>4, <4>1
      <4>3. next.tick <= g[k].tick
        <5>1. CASE k = m.ground + 1 BY <1>0, <4>1, <5>1
        <5>2. CASE m.ground + 1 < k BY <1>0, <4>1, <5>2 DEF Ordered
        <5> QED BY <2>1, <4>1, <5>1, <5>2
      <4> QED BY <1>0, <4>1, <4>2, <4>3
    <3>4. MergedSoFar(g, i + 1, n)
      BY <2>0, <3>1, <3>2, <3>3 DEF MergedSoFar
    <3> QED BY <1>3, <3>1, <3>4 DEF n
  <2> QED BY <2>3, <2>4
<1> QED BY <1>1, <1>2, <1>3

\* The merge of a complete vehicle recording with a ground recording in order:
\* what it knows after each frame, and that it never refuses frames of the
\* vehicle.
LEMMA MergeKnows ==
    ASSUME NEW v, Complete(v), NEW g, Ordered(g)
    PROVE  \A i \in 0 .. Len(v) :
               LET m == Merge(v, g)[i]
               IN  /\ MergeState(m)
                   /\ m.ok => MergedSoFar(g, i, m)
                   /\ (\A k \in DOMAIN g : g[k] = Own(g[k].tick)) => m.ok
<1> DEFINE M == Merge(v, g)
           Knows(i) == /\ MergeState(M[i])
                       /\ M[i].ok => MergedSoFar(g, i, M[i])
                       /\ (\A k \in DOMAIN g : g[k] = Own(g[k].tick)) => M[i].ok
           S == {i \in Nat : Knows(i)}
<1>0. Len(v) \in Nat /\ v \in Seq(Frames) /\ DOMAIN v = 1 .. Len(v)
  BY DEF Complete
<1>1. /\ M[0] = MergeStart
      /\ \A i \in 1 .. Len(v) : M[i] = MatchStep(g, M[i - 1], v[i])
  BY <1>0, MergeRecursion
<1> HIDE DEF M
<1>2. 0 \in S
  <2> DEFINE m == MergeStart
  <2>1. MergeState(m) /\ m.ok
    BY DEF MergeStart, MergeState, MergeFields, Shaped
  <2>2. MergedSoFar(g, 0, m)
    <3>1. /\ m.vehicle = 0 /\ m.tick = 0 - 1 /\ m.ground = 0
          /\ m.last = 0 /\ m.leading = 0 /\ m.interior = 0
      BY DEF MergeStart
    <3>2. Len(g) \in Nat /\ \A k \in 1 .. Len(g) : g[k].tick >= 0
      BY DEF Ordered
    <3> HIDE DEF m
    <3> QED BY <3>1, <3>2 DEF MergedSoFar
  <2> QED BY <1>1, <2>1, <2>2
<1>3. ASSUME NEW i \in 0 .. Len(v) - 1, i \in S PROVE i + 1 \in S
  <2>1. i \in Nat /\ i + 1 \in 1 .. Len(v) BY <1>0
  <2>2. v[i + 1] = Own(i) BY <1>0, <2>1 DEF Complete
  <2>3. M[i + 1] = MatchStep(g, M[i], Own(i)) BY <1>1, <2>1, <2>2
  <2> DEFINE m == M[i]
             n == MatchStep(g, m, Own(i))
  <2>4. MergeState(m) /\ (m.ok => MergedSoFar(g, i, m)) BY <1>3
  <2>5. (\A k \in DOMAIN g : g[k] = Own(g[k].tick)) => m.ok BY <1>3
  <2> HIDE DEF m
  <2>6. /\ MergeState(n)
        /\ n.ok => m.ok /\ MergedSoFar(g, i + 1, n)
        /\ m.ok /\ (\A k \in DOMAIN g : g[k] = Own(g[k].tick)) => n.ok
    BY <2>1, <2>4, MergeStep
  <2>7. M[i + 1] = n BY <2>3 DEF m
  <2> HIDE DEF n
  <2>8. Knows(i + 1) BY <2>5, <2>6, <2>7
  <2> QED BY <2>1, <2>8
<1> HIDE DEF S
<1>4. 0 .. Len(v) \subseteq S
  BY <1>0, <1>2, <1>3, BoundedInduction
<1> QED BY <1>0, <1>4 DEF S, M

\* What match_streams returns for them: it accepts exactly the ground
\* recordings that hold frames of the vehicle's recording, and its counts
\* follow from the first and the last of them.
LEMMA MatchMeans ==
    ASSUME NEW v, Complete(v), NEW g, Ordered(g)
    PROVE  LET tally == match_streams(v, g)
               kept == \A k \in DOMAIN g : g[k] = Own(g[k].tick) /\ g[k].tick < Len(v)
           IN  /\ tally.ok <=> kept
               /\ tally.ok =>
                    /\ tally.vehicle_records = Len(v) /\ tally.ground_records = Len(g)
                    /\ tally.ground_lost = Len(v) - Len(g)
                    /\ Len(g) = 0 => tally.leading_lost = 0 /\ tally.interior_lost = 0
                    /\ Len(g) > 0 =>
                         /\ tally.leading_lost = g[1].tick
                         /\ tally.interior_lost = g[Len(g)].tick + 1 - g[1].tick - Len(g)
<1> DEFINE N == Len(v)
           m == Merge(v, g)[N]
           tally == match_streams(v, g)
           kept == \A k \in DOMAIN g : g[k] = Own(g[k].tick) /\ g[k].tick < Len(v)
<1>0. N \in Nat /\ Len(g) \in Nat /\ DOMAIN g = 1 .. Len(g)
  BY DEF Complete, Ordered
<1>1. /\ MergeState(m)
      /\ m.ok => MergedSoFar(g, N, m)
      /\ (\A k \in DOMAIN g : g[k] = Own(g[k].tick)) => m.ok
  <2>1. N \in 0 .. Len(v) BY <1>0
  <2> HIDE DEF N
  <2> QED BY <2>1, MergeKnows
<1>2. /\ tally.ok <=> (m.ok /\ m.ground = Len(g))
      /\ tally.vehicle_records = m.vehicle /\ tally.ground_records = m.ground
      /\ tally.leading_lost = m.leading /\ tally.interior_lost = m.interior
      /\ tally.ground_lost = m.leading + m.interior + (m.vehicle - m.last)
  BY DEF match_streams
<1> HIDE DEF m, tally
<1>3. /\ m.vehicle \in Int /\ m.ground \in Int /\ m.last \in Int
      /\ m.leading \in Int /\ m.interior \in Int
  BY <1>1 DEF MergeState
<1>4. \A k \in 1 .. Len(g) : g[k].tick \in Nat
  BY <1>0 DEF Ordered
<1>5. ASSUME kept PROVE tally.ok
  <2>1. m.ok BY <1>1, <1>5
  <2>2. MergedSoFar(g, N, m) BY <1>1, <2>1
  <2>3. m.ground \in 0 .. Len(g) BY <2>2 DEF MergedSoFar
  <2>4. ASSUME m.ground < Len(g) PROVE FALSE
    <3>1. Len(g) \in m.ground + 1 .. Len(g) /\ Len(g) \in 1 .. Len(g) BY <1>0, <2>3, <2>4
    <3>2. g[Len(g)].tick >= N BY <2>2, <3>1 DEF MergedSoFar
    <3>3. g[Len(g)].tick < N BY <1>0, <1>5, <3>1
    <3> QED BY <1>0, <1>4, <3>1, <3>2, <3>3
  <2> QED BY <1>0, <1>2, <2>1, <2>3, <2>4
<1>6. ASSUME tally.ok
      PROVE  /\ kept
             /\ tally.vehicle_records = Len(v) /\ tally.ground_records = Len(g)
             /\ tally.ground_lost = Len(v) - Len(g)
             /\ Len(g) = 0 => tally.leading_lost = 0 /\ tally.interior_lost = 0
             /\ Len(g) > 0 =>
                  /\ tally.leading_lost = g[1].tick
                  /\ tally.interior_lost = g[Len(g)].tick + 1 - g[1].tick - Len(g)
  <2>1. m.ground = Len(g) /\ MergedSoFar(g, N, m) BY <1>1, <1>2, <1>6
  <2>2. m.vehicle = N /\ m.leading + m.interior + m.ground = m.last
    BY <2>1 DEF MergedSoFar
  <2>3. kept BY <1>0, <2>1 DEF MergedSoFar
  <2>4. tally.ground_lost = N - Len(g)
    <3>1. m.leading + m.interior = m.last - Len(g) BY <1>0, <1>3, <2>1, <2>2
    <3>2. tally.ground_lost = m.leading + m.interior + (N - m.last) BY <1>2, <2>2
    <3> HIDE DEF N
    <3> QED BY <1>0, <1>3, <3>1, <3>2
  <2>5. Len(g) = 0 => tally.leading_lost = 0 /\ tally.interior_lost = 0
    <3>1. Len(g) = 0 => m.last = 0 /\ m.leading = 0 BY <2>1 DEF MergedSoFar
    <3> QED BY <1>2, <1>3, <2>1, <2>2, <3>1
  <2>6. ASSUME Len(g) > 0
        PROVE  /\ tally.leading_lost = g[1].tick
               /\ tally.interior_lost = g[Len(g)].tick + 1 - g[1].tick - Len(g)
    <3>1. m.last = g[Len(g)].tick + 1 /\ m.leading = g[1].tick BY <2>1, <2>6 DEF MergedSoFar
    <3>2. g[Len(g)].tick \in Nat /\ g[1].tick \in Nat BY <1>0, <1>4, <2>6
    <3>3. m.interior = m.last - m.leading - m.ground BY <1>3, <2>2
    <3>4. m.interior = (g[Len(g)].tick + 1) - g[1].tick - Len(g) BY <2>1, <3>1, <3>3
    <3> DEFINE a == g[1].tick
               b == g[Len(g)].tick
    <3>5. a \in Nat /\ b \in Nat /\ m.interior = (b + 1) - a - Len(g) BY <3>2, <3>4
    <3> HIDE DEF a, b
    <3>6. m.interior = b + 1 - a - Len(g) BY <1>0, <3>5
    <3> QED BY <1>2, <3>1, <3>6 DEF a, b
  <2> QED BY <1>2, <2>1, <2>2, <2>3, <2>4, <2>5, <2>6
<1> QED BY <1>5, <1>6 DEF tally

\* The frames of a ground recording in order, as positions in a vehicle
\* recording of n frames, number as many as the recording is long; the places
\* before the first and between the first and the last are intervals.
LEMMA PlacesCounted ==
    ASSUME NEW n \in Nat, NEW g, Ordered(g),
           \A k \in DOMAIN g : g[k] = Own(g[k].tick) /\ g[k].tick < n
    PROVE  LET K == {i \in 1 .. n : \E k \in DOMAIN g : g[k] = Own(i - 1)}
               L == 1 .. n \ K
           IN  /\ Cardinality(K) = Len(g)
               /\ Cardinality(L) = n - Len(g)
               /\ (L = {}) <=> (Len(g) = n)
               /\ Cardinality({i \in L : \A k \in K : i < k} \ {i \in L : K = {}})
                      = IF Len(g) = 0 THEN 0 ELSE g[1].tick
               /\ Cardinality({i \in L : /\ \E k \in K : k < i
                                         /\ \E k \in K : k > i})
                      = IF Len(g) = 0 THEN 0 ELSE g[Len(g)].tick + 1 - g[1].tick - Len(g)
<1> DEFINE D == 1 .. Len(g)
           f == [k \in D |-> g[k].tick + 1]
           K == {i \in 1 .. n : \E k \in DOMAIN g : g[k] = Own(i - 1)}
           L == 1 .. n \ K
           A == {i \in L : \A k \in K : i < k} \ {i \in L : K = {}}
           B == {i \in L : /\ \E k \in K : k < i
                           /\ \E k \in K : k > i}
<1>0. /\ Len(g) \in Nat /\ DOMAIN g = D
      /\ \A k \in D : g[k].tick \in Nat /\ g[k].tick < n /\ g[k] = Own(g[k].tick)
      /\ \A j, k \in D : j < k => g[j].tick < g[k].tick
  BY DEF Ordered
<1>1. \A t, u \in Int : Own(t) = Own(u) => t = u
  BY DEF Own, Frame
<1>2. \A i : i \in K <=> \E k \in D : i = f[k]
  <2>1. ASSUME NEW k \in D PROVE f[k] \in K
    <3>1. f[k] \in 1 .. n /\ g[k] = Own(f[k] - 1) BY <1>0
    <3> QED BY <1>0, <3>1
  <2>2. ASSUME NEW i \in K PROVE \E k \in D : i = f[k]
    <3>1. PICK k \in D : g[k] = Own(i - 1) BY <1>0
    <3>2. i \in Int /\ i - 1 \in Int /\ g[k].tick \in Int /\ g[k] = Own(g[k].tick) BY <1>0
    <3>3. g[k].tick = i - 1 BY <1>1, <3>1, <3>2
    <3>4. i = f[k] BY <3>2, <3>3
    <3> QED BY <3>4
  <2> QED BY <2>1, <2>2
<1>3. \A j, k \in D : /\ f[j] \in 1 .. n
                      /\ j < k => f[j] < f[k]
  BY <1>0
<1>4. f = [k \in D |-> f[k]] /\ K \subseteq 1 .. n
  OBVIOUS
<1>5. D \subseteq Nat /\ \A k \in D : k >= 1 /\ k <= Len(g)
  BY <1>0
<1>6. \A k \in D : f[k] = g[k].tick + 1
  OBVIOUS
<1> HIDE DEF f, K
<1>7. f \in Bijection(D, K)
  <2>1. \A k \in D : f[k] \in K BY <1>2
  <2>2. f \in [D -> K] BY <1>4, <2>1
  <2>3. ASSUME NEW j \in D, NEW k \in D, f[j] = f[k] PROVE j = k
    <3>1. ~(j < k) /\ ~(k < j) BY <1>3, <2>3
    <3> QED BY <1>5, <3>1
  <2>4. f \in Injection(D, K) BY <2>2, <2>3 DEF Injection, IsInjective
  <2>5. f \in Surjection(D, K) BY <1>2, <2>2 DEF Surjection
  <2> QED BY <2>4, <2>5 DEF Bijection
<1>8. IsFiniteSet(D) /\ Cardinality(D) = Len(g)
  <2>1. 1 \in Int /\ Len(g) \in Int BY <1>0
  <2>2. /\ IsFiniteSet(1 .. Len(g))
        /\ Cardinality(1 .. Len(g)) = IF 1 > Len(g) THEN 0 ELSE Len(g) - 1 + 1
    BY <2>1, FS_Interval
  <2> QED BY <1>0, <2>2
<1>9. IsFiniteSet(K) /\ Cardinality(K) = Len(g)
  <2>1. ExistsBijection(D, K) BY <1>7 DEF ExistsBijection
  <2> HIDE DEF D
  <2> QED BY <1>8, <2>1, FS_Bijection
<1>10. ASSUME NEW a \in Int, NEW b \in Int, a <= b + 1
       PROVE  IsFiniteSet(a .. b) /\ Cardinality(a .. b) = b - a + 1
  <2>1. /\ IsFiniteSet(a .. b)
        /\ Cardinality(a .. b) = IF a > b THEN 0 ELSE b - a + 1
    BY FS_Interval
  <2> QED BY <1>10, <2>1
<1>11. ASSUME NEW S, IsFiniteSet(S), K \subseteq S
       PROVE  Cardinality(S \ K) = Cardinality(S) - Len(g)
  <2>1. S \cap K = K BY <1>11
  <2>2. Cardinality(S \ K) = Cardinality(S) - Cardinality(S \cap K)
    BY <1>11, FS_Difference
  <2> QED BY <1>9, <2>1, <2>2
<1>12. IsFiniteSet(L) /\ Cardinality(L) = n - Len(g)
  <2>1. IsFiniteSet(1 .. n) /\ Cardinality(1 .. n) = n BY <1>10
  <2>2. Cardinality(1 .. n \ K) = Cardinality(1 .. n) - Len(g) BY <1>4, <1>11, <2>1
  <2>3. IsFiniteSet(1 .. n \ K) BY <2>1, FS_Difference
  <2> QED BY <2>1, <2>2, <2>3
<1>13. (L = {}) <=> (Len(g) = n)
  <2> HIDE DEF L
  <2>1. (Cardinality(L) = 0) <=> (L = {}) BY <1>12, FS_EmptySet
  <2>2. (n - Len(g) = 0) <=> (Len(g) = n) BY <1>0
  <2> QED BY <1>12, <2>1, <2>2
<1>14. CASE Len(g) = 0
  <2>1. D = {} BY <1>14
  <2>2. K = {} BY <1>2, <2>1
  <2>3. A = {} /\ B = {} BY <2>2
  <2>4. Cardinality(A) = 0 /\ Cardinality(B) = 0 BY <2>3, FS_EmptySet
  <2> HIDE DEF A, B, L
  <2> QED BY <1>9, <1>12, <1>13, <1>14, <2>4 DEF A, B, L, K
<1>15. CASE Len(g) > 0
  <2> DEFINE p == f[1]
             q == f[Len(g)]
  <2>1. 1 \in D /\ Len(g) \in D BY <1>0, <1>15
  <2>2. p \in 1 .. n /\ q \in 1 .. n /\ p \in K /\ q \in K
    BY <1>2, <1>3, <2>1
  <2>3. \A i \in K : p <= i /\ i <= q
    <3> SUFFICES ASSUME NEW k \in D PROVE p <= f[k] /\ f[k] <= q BY <1>2
    <3>1. k = 1 \/ 1 < k BY <1>5
    <3>2. k = Len(g) \/ k < Len(g)
      <4>1. k \in Nat /\ k <= Len(g) /\ Len(g) \in Nat BY <1>0, <1>5
      <4> QED BY <4>1
    <3>3. p <= f[k] BY <1>3, <2>1, <3>1
    <3>4. f[k] <= q BY <1>3, <2>1, <3>2
    <3> QED BY <3>3, <3>4
  <2> HIDE DEF p, q
  <2>4. p <= q BY <2>2, <2>3
  <2>5. A = 1 .. p - 1
    <3>1. ASSUME NEW i \in A PROVE i \in 1 .. p - 1
      <4>1. i \in 1 .. n /\ i < p BY <2>2
      <4> QED BY <2>2, <4>1
    <3>2. ASSUME NEW i \in 1 .. p - 1 PROVE i \in A
      <4>1. i \in 1 .. n /\ i < p BY <2>2
      <4>2. i \notin K /\ \A k \in K : i < k BY <1>4, <2>2, <2>3, <4>1
      <4> QED BY <2>2, <4>1, <4>2
    <3> QED BY <3>1, <3>2
  <2>6. B = p .. q \ K
    <3>1. ASSUME NEW i \in B PROVE i \in p .. q \ K
      <4>1. i \in 1 .. n /\ i \notin K OBVIOUS
      <4>2. PICK j \in K, k \in K : j < i /\ k > i OBVIOUS
      <4>3. j \in 1 .. n /\ k \in 1 .. n /\ p <= j /\ k <= q BY <1>4, <2>3
      <4> QED BY <2>2, <4>1, <4>2, <4>3
    <3>2. ASSUME NEW i \in p .. q \ K PROVE i \in B
      <4>1. i # p /\ i # q BY <2>2
      <4>2. i \in 1 .. n /\ p < i /\ q > i BY <2>2, <4>1
      <4> QED BY <2>2, <4>2
    <3> QED BY <3>1, <3>2
  <2>7. K \subseteq p .. q BY <1>4, <2>2, <2>3
  <2>8. Cardinality(A) = p - 1
    <3>1. Cardinality(1 .. p - 1) = (p - 1) - 1 + 1 BY <1>10, <2>2
    <3> HIDE DEF A
    <3> QED BY <2>2, <2>5, <3>1
  <2>9. Cardinality(B) = q - p + 1 - Len(g)
    <3>1. IsFiniteSet(p .. q) /\ Cardinality(p .. q) = q - p + 1 BY <1>10, <2>2, <2>4
    <3>2. Cardinality(p .. q \ K) = Cardinality(p .. q) - Len(g) BY <1>11, <2>7, <3>1
    <3> HIDE DEF B
    <3>3. Cardinality(B) = Cardinality(p .. q) - Len(g) BY <2>6, <3>2
    <3>4. p \in Int /\ q \in Int /\ Len(g) \in Int BY <1>0, <2>2
    <3> QED BY <3>1, <3>3, <3>4
  <2>10. /\ p = g[1].tick + 1 /\ q = g[Len(g)].tick + 1
         /\ g[1].tick \in Nat /\ g[Len(g)].tick \in Nat
    BY <1>0, <1>6, <2>1 DEF p, q
  <2> DEFINE a == g[1].tick
             b == g[Len(g)].tick
  <2> HIDE DEF a, b
  <2>11. p = a + 1 /\ q = b + 1 /\ a \in Nat /\ b \in Nat BY <2>10 DEF a, b
  <2>12. Cardinality(A) = a BY <2>8, <2>11
  <2>13. Cardinality(B) = b + 1 - a - Len(g) BY <1>0, <2>9, <2>11
  <2> HIDE DEF A, B, L
  <2>14. /\ Cardinality(A) = IF Len(g) = 0 THEN 0 ELSE g[1].tick
         /\ Cardinality(B) = IF Len(g) = 0 THEN 0 ELSE g[Len(g)].tick + 1 - g[1].tick - Len(g)
    BY <1>15, <2>12, <2>13 DEF a, b
  <2> QED BY <1>9, <1>12, <1>13, <2>14 DEF A, B, L, K
<1> HIDE DEF L, A, B, K
<1>16. Len(g) = 0 \/ Len(g) > 0 BY <1>0
<1> QED BY <1>14, <1>15, <1>16, Zenon

-----------------------------------------------------------------------------
(* The invariant. *)

VehicleFields == {"setup", "total_cycles", "dropped", "records", "attempted", "sent",
                  "send_errors", "short_sends", "write_failed", "exit"}
VehicleTyped ==
    /\ Shaped(veh, VehicleFields)
    /\ veh.total_cycles \in Nat /\ veh.dropped \in Nat /\ veh.records \in Nat
    /\ veh.attempted \in Nat /\ veh.sent \in Nat /\ veh.send_errors \in Nat
    /\ veh.short_sends \in Nat /\ veh.write_failed \in BOOLEAN

ReceiverTyped ==
    /\ Shaped(rcv, {"source", "last", "last_errno", "counters"})
    /\ rcv.source \in {"none", "vehicle", "other"}
    /\ rcv.last_errno \in {"none", "EINTR", "other"}
    /\ rcv.counters \in [Counters -> Nat]
    /\ rpc \in {"start", "collect", "drain", "close", "report", "done"}
    /\ stopped \in BOOLEAN /\ truncated \in BOOLEAN

FilesTyped ==
    /\ net \subseteq Datagrams
    /\ written \in Seq(Frames)
    /\ Shaped(files, {"vehicle", "ground"})
    /\ files.vehicle \in Seq(Frames) /\ files.ground \in Seq(Frames)

\* The vehicle's counters agree with each other, and only a vehicle that lost
\* no record exits with 0.
VehicleCounts ==
    /\ veh.dropped <= veh.total_cycles /\ veh.short_sends <= veh.send_errors
    /\ veh.attempted = veh.sent + veh.send_errors
    /\ veh.setup = "ok" => veh.attempted = veh.total_cycles - veh.dropped
    /\ ~veh.write_failed => veh.records = veh.total_cycles - veh.dropped
    /\ veh.exit = 0 => ~veh.write_failed /\ veh.dropped = 0

\* The vehicle's recording holds a frame per record until a file is cut, and
\* without drops and failed writes frame i is that of cycle i - 1.
VehicleRecording ==
    /\ ~Ended => Len(files.vehicle) = veh.records
    /\ veh.dropped = 0 /\ ~veh.write_failed =>
           \A i \in DOMAIN files.vehicle : files.vehicle[i] = Own(i - 1)

\* A datagram holds a frame or was damaged; the vehicle's hold its own frames.
LinkFrames ==
    \A d \in net :
        \/ d.frame = NoFrame
        \/ /\ d.frame.tick \in Nat
           /\ d.from = "vehicle" /\ veh.dropped = 0 =>
                  d.frame.tick < veh.total_cycles /\ d.frame = Own(d.frame.tick)

\* What the receiver wrote is in order, ends with the frame it compares the
\* next one with, and comes from the sender it listens to.
InOrder ==
    /\ \A k \in DOMAIN written : written[k].tick \in Nat
    /\ \A j, k \in DOMAIN written : j < k => written[j].tick < written[k].tick
    /\ rcv.last = IF written = <<>> THEN NoFrame ELSE written[Len(written)]
    /\ rcv.source = "none" => written = <<>>
    /\ rcv.source # "other" /\ veh.dropped = 0 =>
           /\ rcv.counters["conflict"] = 0
           /\ \A k \in DOMAIN written :
                  written[k].tick < veh.total_cycles /\ written[k] = Own(written[k].tick)

ReceiverCounts ==
    LET c == rcv.counters
    IN  /\ c["received"] = c["foreign"] + c["malformed"] + c["duplicate"] + c["out_of_order"]
                           + c["conflict"] + c["recorded"] + c["write_failed_datagrams"]
        /\ c["recorded"] = Len(written)
        /\ rcv.source # "none" => c["recorded"] > 0 \/ c["write_failed_datagrams"] > 0
        /\ (c["socket_errors"] = 0) <=> (rcv.last_errno = "none")

\* The frames of the vehicle that are under way or written down.
Copies ==
    {d.frame : d \in {e \in net : e.from = "vehicle" /\ e.frame # NoFrame}}
        \cup {written[k] : k \in {j \in DOMAIN written : rcv.source = "vehicle"}}

CopiesSent == IsFiniteSet(Copies) /\ Cardinality(Copies) <= veh.sent

\* code and the ground recording in each phase of receive.
Phases ==
    /\ rpc \in {"start", "collect", "drain"} => code = 0 /\ rcv.last_errno # "other"
    /\ rpc \in {"close", "report"} => code \in {0, 4, 6}
    /\ rpc \in {"close", "report"} /\ code = 6 => rcv.last_errno = "other"
    /\ rpc = "report" /\ code # 4 => files.ground = written
    /\ rpc # "done" => report = NoReport
    /\ rpc = "start" => written = <<>>

Troubled ==
    \/ report.interrupted \/ truncated \/ rcv.counters["malformed"] > 0
    \/ rcv.counters["conflict"] > 0 \/ rcv.last_errno = "other"

\* A report is the receiver's state at its end, and its exit code follows from it.
Reported ==
    report # NoReport =>
        /\ report.source = rcv.source /\ report.counters = rcv.counters
        /\ report.last_errno = rcv.last_errno /\ report.shutdown_truncated = truncated
        /\ report.interrupted \in BOOLEAN
        /\ code # 4 => report.recording_sha256 = written
        /\ code \notin {0, 4} => Troubled

Whole == files.ground = written /\ Len(files.vehicle) = veh.records

\* The digests are those of the files, unless a file was cut since.
Hashed ==
    digests # NoDigests =>
        /\ Ended /\ report # NoReport
        /\ Whole => digests = files

Judged ==
    verdict # NoVerdict =>
        /\ digests # NoDigests
        /\ verdict = check(digests, files, veh, report, veh.exit, code)

GroundInv ==
    /\ VehicleTyped /\ ReceiverTyped /\ FilesTyped
    /\ VehicleCounts /\ VehicleRecording /\ LinkFrames /\ InOrder
    /\ ReceiverCounts /\ CopiesSent /\ Phases /\ Reported /\ Hashed /\ Judged

\* Each part of the invariant holds on after a step that leaves what it speaks
\* of alone.
LEMMA Untouched ==
    /\ VehicleTyped /\ veh' = veh => VehicleTyped'
    /\ ReceiverTyped /\ UNCHANGED <<rcv, rpc, stopped, truncated>> => ReceiverTyped'
    /\ FilesTyped /\ UNCHANGED <<net, written, files>> => FilesTyped'
    /\ VehicleCounts /\ veh' = veh => VehicleCounts'
    /\ VehicleRecording /\ UNCHANGED <<veh, files>> /\ (Ended => Ended') => VehicleRecording'
    /\ LinkFrames /\ UNCHANGED <<veh, net>> => LinkFrames'
    /\ InOrder /\ UNCHANGED <<veh, rcv, written>> => InOrder'
    /\ ReceiverCounts /\ UNCHANGED <<rcv, written>> => ReceiverCounts'
    /\ CopiesSent /\ UNCHANGED <<veh, net, rcv, written>> => CopiesSent'
    /\ Phases /\ UNCHANGED <<rpc, code, rcv, files, written, report>> => Phases'
    /\ Reported /\ UNCHANGED <<report, rcv, truncated, code, written>> => Reported'
    /\ Hashed /\ UNCHANGED <<digests, veh, rpc, report, files, written>> => Hashed'
    /\ Judged /\ UNCHANGED <<verdict, digests, files, veh, report, code>> => Judged'
<1>1. VehicleTyped /\ veh' = veh => VehicleTyped'
  BY DEF VehicleTyped
<1>2. ReceiverTyped /\ UNCHANGED <<rcv, rpc, stopped, truncated>> => ReceiverTyped'
  BY DEF ReceiverTyped
<1>3. FilesTyped /\ UNCHANGED <<net, written, files>> => FilesTyped'
  BY DEF FilesTyped
<1>4. VehicleCounts /\ veh' = veh => VehicleCounts'
  BY DEF VehicleCounts
<1>5. VehicleRecording /\ UNCHANGED <<veh, files>> /\ (Ended => Ended') => VehicleRecording'
  BY DEF VehicleRecording
<1>6. LinkFrames /\ UNCHANGED <<veh, net>> => LinkFrames'
  BY DEF LinkFrames
<1>7. InOrder /\ UNCHANGED <<veh, rcv, written>> => InOrder'
  BY DEF InOrder
<1>8. ReceiverCounts /\ UNCHANGED <<rcv, written>> => ReceiverCounts'
  BY DEF ReceiverCounts
<1>9. CopiesSent /\ UNCHANGED <<veh, net, rcv, written>> => CopiesSent'
  BY DEF CopiesSent, Copies
<1>10. Phases /\ UNCHANGED <<rpc, code, rcv, files, written, report>> => Phases'
  BY DEF Phases
<1>11. Reported /\ UNCHANGED <<report, rcv, truncated, code, written>> => Reported'
  BY DEF Reported, Troubled
<1>12. Hashed /\ UNCHANGED <<digests, veh, rpc, report, files, written>> => Hashed'
  BY DEF Hashed, Ended, Whole
<1>13. Judged /\ UNCHANGED <<verdict, digests, files, veh, report, code>> => Judged'
  BY DEF Judged
<1> QED
  BY <1>1, <1>2, <1>3, <1>4, <1>5, <1>6, <1>7, <1>8, <1>9, <1>10, <1>11, <1>12, <1>13

\* Before the end of both processes nothing is hashed or judged.
LEMMA Unjudged ==
    ASSUME GroundInv, ~Ended, UNCHANGED <<digests, verdict>>
    PROVE  Hashed' /\ Judged'
<1>1. digests = NoDigests BY DEF GroundInv, Hashed
<1>2. verdict = NoVerdict BY <1>1 DEF GroundInv, Judged
<1>3. digests' = NoDigests' /\ verdict' = NoVerdict' BY <1>1, <1>2 DEF NoDigests, NoVerdict
<1> QED BY <1>3 DEF Hashed, Judged

\* Before the receiver's end there is no report.
LEMMA Unreported ==
    ASSUME GroundInv, rpc # "done", report' = report
    PROVE  Reported' /\ report' = NoReport
<1>1. report' = NoReport /\ NoReport' = NoReport BY DEF GroundInv, Phases, NoReport
<1> QED BY <1>1 DEF Reported

\* The steps that change no data.
LEMMA EasySteps ==
    ASSUME GroundInv, CloseInput \/ Signal \/ NoticeEof \/ NoticeStop \/ DrainEnds \/ Setup
    PROVE  GroundInv'
<1>1. CASE CloseInput
  BY <1>1, Untouched, Zenon DEF GroundInv, CloseInput, receiver, Ended
<1>2. CASE Signal
  <2>1. stopped' \in BOOLEAN BY <1>2 DEF Signal
  <2>2. ReceiverTyped' BY <1>2, <2>1 DEF GroundInv, ReceiverTyped, Signal, receiver
  <2> QED BY <1>2, <2>2, Untouched, Zenon DEF GroundInv, Signal, receiver, Ended
<1>3. CASE NoticeEof \/ NoticeStop \/ DrainEnds
  <2>1. /\ rpc \in {"collect", "drain"} /\ rpc' \in {"drain", "close"} /\ truncated' \in BOOLEAN
        /\ UNCHANGED <<rest, net, rcv, written, code, report, files>>
    BY <1>3 DEF NoticeEof, NoticeStop, DrainEnds, Drained, Open, GroundInv, ReceiverTyped
  <2>2. UNCHANGED <<veh, net, rcv, written, code, report, files, stopped, digests, verdict>>
    BY <2>1 DEF rest
  <2>3. ReceiverTyped' BY <2>1, <2>2 DEF GroundInv, ReceiverTyped
  <2>4. Phases' BY <2>1, <2>2 DEF GroundInv, Phases, NoReport
  <2>5. Reported' /\ Hashed' /\ Judged'
    BY <2>1, <2>2, Unreported, Unjudged DEF Ended
  <2>6. Ended => Ended' BY <2>1 DEF Ended
  <2> QED BY <2>2, <2>3, <2>4, <2>5, <2>6, Untouched, Zenon DEF GroundInv
<1>4. CASE Setup
  <2>1. /\ rpc = "start"
        /\ \/ rpc' = "collect" /\ code' = code
           \/ rpc' = "done" /\ code' = 2
           \/ rpc' = "report" /\ code' = 4
        /\ UNCHANGED <<veh, net, rcv, written, truncated, report, files, stopped, digests, verdict>>
    BY <1>4 DEF Setup, rest
  <2>2. ReceiverTyped' BY <2>1 DEF GroundInv, ReceiverTyped
  <2>3. Phases' BY <2>1 DEF GroundInv, Phases, NoReport
  <2>4. Reported' /\ Hashed' /\ Judged'
    BY <2>1, Unreported, Unjudged DEF Ended
  <2>5. Ended => Ended' BY <2>1 DEF Ended
  <2> QED BY <2>1, <2>2, <2>3, <2>4, <2>5, Untouched, Zenon DEF GroundInv
<1> QED BY <1>1, <1>2, <1>3, <1>4

\* A cycle whose record the full ring drops.
LEMMA DropStep ==
    ASSUME GroundInv, Drop
    PROVE  GroundInv'
<1>1. /\ veh.exit = Running
      /\ veh' = [veh EXCEPT !.total_cycles = @ + 1, !.dropped = @ + 1]
      /\ UNCHANGED <<net, rpc, rcv, written, truncated, code, report, stopped,
                     files, digests, verdict>>
  BY DEF Drop, Cycling, receiver
<1>2. VehicleTyped /\ VehicleCounts
  BY DEF GroundInv
<1>3. /\ Shaped(veh', VehicleFields)
      /\ veh'.setup = veh.setup /\ veh'.total_cycles = veh.total_cycles + 1
      /\ veh'.dropped = veh.dropped + 1 /\ veh'.records = veh.records
      /\ veh'.attempted = veh.attempted /\ veh'.sent = veh.sent
      /\ veh'.send_errors = veh.send_errors /\ veh'.short_sends = veh.short_sends
      /\ veh'.write_failed = veh.write_failed /\ veh'.exit = veh.exit
  BY <1>1, <1>2 DEF VehicleTyped, VehicleFields, Shaped
<1>4. VehicleTyped'
  BY <1>2, <1>3 DEF VehicleTyped
<1>5. veh'.dropped # 0
  BY <1>2, <1>3 DEF VehicleTyped
<1>6. ~Ended /\ ~Ended'
  BY <1>1, <1>3 DEF Ended, Running
<1>7. VehicleCounts'
  BY <1>1, <1>2, <1>3 DEF VehicleTyped, VehicleCounts, Running
<1>8. VehicleRecording'
  BY <1>1, <1>3, <1>5, <1>6 DEF GroundInv, VehicleRecording
<1>9. LinkFrames'
  BY <1>1, <1>3, <1>5 DEF GroundInv, LinkFrames
<1>10. InOrder'
  BY <1>1, <1>3, <1>5 DEF GroundInv, InOrder
<1>11. CopiesSent'
  BY <1>1, <1>3 DEF GroundInv, CopiesSent, Copies
<1>12. Hashed' /\ Judged'
  BY <1>1, <1>6, Unjudged
<1> QED
  BY <1>1, <1>4, <1>7, <1>8, <1>9, <1>10, <1>11, <1>12, Untouched, Zenon DEF GroundInv

\* The vehicle's exit.
LEMMA ExitStep ==
    ASSUME GroundInv, VehicleExit
    PROVE  GroundInv'
<1>1. /\ veh.exit = Running
      /\ UNCHANGED <<net, rpc, rcv, written, truncated, code, report, stopped,
                     files, digests, verdict>>
  BY DEF VehicleExit, receiver
<1>2. PICK exit \in IF veh.write_failed \/ veh.dropped > 0 THEN {4} ELSE {0, 5} :
          veh' = [veh EXCEPT !.exit = exit]
  BY DEF VehicleExit
<1>3. VehicleTyped /\ VehicleCounts
  BY DEF GroundInv
<1>4. /\ Shaped(veh', VehicleFields)
      /\ veh'.setup = veh.setup /\ veh'.total_cycles = veh.total_cycles
      /\ veh'.dropped = veh.dropped /\ veh'.records = veh.records
      /\ veh'.attempted = veh.attempted /\ veh'.sent = veh.sent
      /\ veh'.send_errors = veh.send_errors /\ veh'.short_sends = veh.short_sends
      /\ veh'.write_failed = veh.write_failed /\ veh'.exit = exit
  BY <1>2, <1>3 DEF VehicleTyped, VehicleFields, Shaped
<1>5. VehicleTyped'
  BY <1>3, <1>4 DEF VehicleTyped
<1>6. exit = 0 => ~veh.write_failed /\ veh.dropped = 0
  BY <1>2, <1>3 DEF VehicleTyped
<1>7. VehicleCounts'
  BY <1>3, <1>4, <1>6 DEF VehicleCounts
<1>8. ~Ended
  BY <1>1 DEF Ended
<1>9. VehicleRecording'
  BY <1>1, <1>4, <1>8 DEF GroundInv, VehicleRecording
<1>10. LinkFrames'
  BY <1>1, <1>4 DEF GroundInv, LinkFrames
<1>11. InOrder'
  BY <1>1, <1>4 DEF GroundInv, InOrder
<1>12. CopiesSent'
  BY <1>1, <1>4 DEF GroundInv, CopiesSent, Copies
<1>13. Hashed' /\ Judged'
  BY <1>1, <1>8, Unjudged
<1> QED
  BY <1>1, <1>5, <1>7, <1>9, <1>10, <1>11, <1>12, <1>13, Untouched, Zenon DEF GroundInv

\* Frames and datagrams have the parts they are made of.
LEMMA Shapes ==
    /\ NoFrame \in Frames
    /\ \A from \in {"vehicle", "other"}, f \in Frames :
           /\ Datagram(from, f) \in Datagrams
           /\ Datagram(from, f).from = from /\ Datagram(from, f).frame = f
    /\ \A s, t \in Int, own \in BOOLEAN :
           /\ Frame(s, t, own) \in Frames
           /\ Frame(s, t, own).tick = t
    /\ \A f \in Frames : f.tick \in Nat => f # NoFrame
<1>1. NoFrame \in Frames BY DEF NoFrame, Frames
<1>2. ASSUME NEW from \in {"vehicle", "other"}, NEW f \in Frames
      PROVE  /\ Datagram(from, f) \in Datagrams
             /\ Datagram(from, f).from = from /\ Datagram(from, f).frame = f
  BY DEF Datagram, Datagrams
<1>3. ASSUME NEW s \in Int, NEW t \in Int, NEW own \in BOOLEAN
      PROVE  Frame(s, t, own) \in Frames /\ Frame(s, t, own).tick = t
  BY DEF Frame, Frames
<1>4. \A f \in Frames : f.tick \in Nat => f # NoFrame
  BY DEF NoFrame
<1> QED BY <1>1, <1>2, <1>3, <1>4

\* A stranger's datagram.
LEMMA ForeignStep ==
    ASSUME GroundInv, ForeignSend
    PROVE  GroundInv'
<1>1. /\ rpc # "done"
      /\ UNCHANGED <<veh, rpc, rcv, written, truncated, code, report, stopped,
                     files, digests, verdict>>
  BY DEF ForeignSend, Open, receiver
<1>2. PICK d : /\ net' = net \cup {d} /\ d \in Datagrams /\ d.from = "other"
               /\ d.frame = NoFrame \/ d.frame.tick \in Nat
  <2>1. CASE net' = net \cup {Malformed("other")}
    <3>1. Malformed("other") \in Datagrams /\ Malformed("other").from = "other"
      BY Shapes DEF Malformed
    <3>2. Malformed("other").frame = NoFrame BY Shapes DEF Malformed
    <3> QED BY <2>1, <3>1, <3>2
  <2>2. CASE \E seq \in {0, 1} : net' = net \cup {Datagram("other", Frame(seq, 0, FALSE))}
    <3>1. PICK seq \in {0, 1} : net' = net \cup {Datagram("other", Frame(seq, 0, FALSE))}
      BY <2>2
    <3> DEFINE f == Frame(seq, 0, FALSE)
               d == Datagram("other", f)
    <3>2. f \in Frames /\ f.tick = 0 BY DEF Frame, Frames
    <3> HIDE DEF f
    <3>3. d \in Datagrams /\ d.from = "other" /\ d.frame = f BY <3>2, Shapes
    <3>4. net' = net \cup {d} BY <3>1 DEF f
    <3> HIDE DEF d
    <3> QED BY <3>2, <3>3, <3>4
  <2> QED BY <2>1, <2>2 DEF ForeignSend
<1>3. FilesTyped'
  BY <1>1, <1>2 DEF GroundInv, FilesTyped
<1>4. LinkFrames'
  BY <1>1, <1>2 DEF GroundInv, LinkFrames, NoFrame
<1>5. CopiesSent'
  <2>1. Copies' = Copies BY <1>1, <1>2 DEF Copies, NoFrame
  <2> QED BY <1>1, <2>1 DEF GroundInv, CopiesSent
<1>6. Ended => Ended' BY <1>1 DEF Ended
<1> QED
  BY <1>1, <1>3, <1>4, <1>5, <1>6, Untouched, Zenon DEF GroundInv

\* A receive that fails.
LEMMA ReceiveErrorStep ==
    ASSUME GroundInv, ReceiveError
    PROVE  GroundInv'
<1> USE DEF NoFrame
<1>1. /\ rpc \in {"collect", "drain"}
      /\ UNCHANGED <<veh, net, written, truncated, report, stopped, files, digests, verdict>>
  BY DEF ReceiveError, Open, rest
<1>2. PICK e \in {"EINTR", "other"} :
          /\ rcv' = [rcv EXCEPT !.counters["socket_errors"] = @ + 1, !.last_errno = e]
          /\ \/ e = "EINTR" /\ UNCHANGED <<rpc, code>>
             \/ e = "other" /\ rpc' = "close" /\ code' = 6
  BY DEF ReceiveError
<1>3. ReceiverTyped BY DEF GroundInv
<1> DEFINE c == rcv.counters
<1>4. /\ Shaped(rcv', {"source", "last", "last_errno", "counters"})
      /\ rcv'.source = rcv.source /\ rcv'.last = rcv.last /\ rcv'.last_errno = e
      /\ rcv'.counters = [c EXCEPT !["socket_errors"] = @ + 1]
  BY <1>2, <1>3 DEF ReceiverTyped, Shaped
<1>5. /\ rcv'.counters \in [Counters -> Nat]
      /\ \A k \in Counters : k # "socket_errors" => rcv'.counters[k] = c[k]
      /\ rcv'.counters["socket_errors"] # 0
  BY <1>3, <1>4 DEF ReceiverTyped, Counters, Dispositions
<1>6. ReceiverTyped'
  BY <1>1, <1>2, <1>3, <1>4, <1>5 DEF ReceiverTyped
<1>7. InOrder'
  BY <1>1, <1>4, <1>5 DEF GroundInv, InOrder, Counters, Dispositions
<1>8. ReceiverCounts'
  <2> DEFINE n == rcv'.counters
  <2>1. \A k \in {"received", "recorded"} \cup Dispositions : n[k] = c[k]
    BY <1>5 DEF Counters, Dispositions
  <2>2. /\ n["received"] = c["received"] /\ n["foreign"] = c["foreign"]
        /\ n["malformed"] = c["malformed"] /\ n["duplicate"] = c["duplicate"]
        /\ n["out_of_order"] = c["out_of_order"] /\ n["conflict"] = c["conflict"]
        /\ n["recorded"] = c["recorded"]
        /\ n["write_failed_datagrams"] = c["write_failed_datagrams"]
    BY <2>1 DEF Dispositions
  <2>3. ~(n["socket_errors"] = 0) /\ ~(rcv'.last_errno = "none")
    BY <1>2, <1>4, <1>5
  <2>4. /\ c["received"] = c["foreign"] + c["malformed"] + c["duplicate"] + c["out_of_order"]
                            + c["conflict"] + c["recorded"] + c["write_failed_datagrams"]
        /\ c["recorded"] = Len(written)
        /\ rcv.source # "none" => c["recorded"] > 0 \/ c["write_failed_datagrams"] > 0
    BY DEF GroundInv, ReceiverCounts
  <2> HIDE DEF n, c
  <2>5. /\ n["received"] = n["foreign"] + n["malformed"] + n["duplicate"] + n["out_of_order"]
                            + n["conflict"] + n["recorded"] + n["write_failed_datagrams"]
        /\ n["recorded"] = Len(written')
        /\ rcv'.source # "none" => n["recorded"] > 0 \/ n["write_failed_datagrams"] > 0
    BY <1>1, <1>4, <2>2, <2>4
  <2> QED BY <2>3, <2>5 DEF ReceiverCounts, n
<1>9. CopiesSent'
  BY <1>1, <1>4 DEF GroundInv, CopiesSent, Copies
<1>10. Phases'
  BY <1>1, <1>2, <1>4 DEF GroundInv, Phases, NoReport
<1>11. Reported' /\ Hashed' /\ Judged' /\ (Ended => Ended')
  BY <1>1, Unreported, Unjudged DEF Ended
<1> QED
  BY <1>1, <1>6, <1>7, <1>8, <1>9, <1>10, <1>11, Untouched, Zenon DEF GroundInv

\* The recording is closed, whole or in part.
LEMMA CloseStep ==
    ASSUME GroundInv, CloseRecording
    PROVE  GroundInv'
<1>1. /\ rpc = "close" /\ rpc' = "report" /\ net' = {}
      /\ UNCHANGED <<veh, rcv, written, truncated, report, stopped, digests, verdict>>
  BY DEF CloseRecording, rest
<1>2. PICK part : /\ files' = [files EXCEPT !.ground = part]
                  /\ \/ part = written /\ code' = code
                     \/ part = SubSeq(written, 1, Len(written) \div 2) /\ code' = 4
  BY DEF CloseRecording
<1>3. ReceiverTyped /\ FilesTyped BY DEF GroundInv
<1>4. part \in Seq(Frames)
  <2>1. Len(written) \div 2 \in 0 .. Len(written)
    <3>1. Len(written) \in Nat BY <1>3 DEF FilesTyped
    <3> QED BY <3>1
  <2>2. SubSeq(written, 1, Len(written) \div 2) \in Seq(Frames)
    <3>1. \A i \in 1 .. Len(written) \div 2 : i \in 1 .. Len(written) BY <2>1
    <3>2. written \in Seq(Frames) BY <1>3 DEF FilesTyped
    <3>3. \A i \in 1 .. Len(written) \div 2 : written[i] \in Frames BY <3>1, <3>2
    <3> QED BY <2>1, <3>2, <3>3
  <2> QED BY <1>2, <1>3, <2>2 DEF FilesTyped
<1>5. /\ Shaped(files', {"vehicle", "ground"})
      /\ files'.vehicle = files.vehicle /\ files'.ground = part
  BY <1>2, <1>3 DEF FilesTyped, Shaped
<1>6. ReceiverTyped'
  BY <1>1, <1>3 DEF ReceiverTyped
<1>7. FilesTyped'
  BY <1>1, <1>3, <1>4, <1>5 DEF FilesTyped
<1>8. VehicleRecording'
  BY <1>1, <1>5 DEF GroundInv, VehicleRecording, Ended
<1>9. LinkFrames'
  BY <1>1 DEF LinkFrames
<1>10. CopiesSent'
  <2>1. Copies' \subseteq Copies BY <1>1 DEF Copies
  <2>2. Copies' \in SUBSET Copies BY <2>1
  <2>3. IsFiniteSet(Copies) /\ Cardinality(Copies) <= veh.sent BY DEF GroundInv, CopiesSent
  <2>4. IsFiniteSet(Copies') /\ Cardinality(Copies') <= Cardinality(Copies)
    BY <2>2, <2>3, FS_Subset
  <2>5. Cardinality(Copies') \in Nat /\ Cardinality(Copies) \in Nat /\ veh.sent \in Nat
    BY <2>3, <2>4, FS_CardinalityType DEF GroundInv, VehicleTyped
  <2>6. Cardinality(Copies') <= veh.sent BY <2>3, <2>4, <2>5
  <2> QED BY <1>1, <2>4, <2>6 DEF CopiesSent
<1>11. Phases'
  BY <1>1, <1>2, <1>5 DEF GroundInv, Phases, NoReport
<1>12. Reported' /\ Hashed' /\ Judged' /\ (Ended => Ended')
  BY <1>1, Unreported, Unjudged DEF Ended
<1> QED
  BY <1>1, <1>6, <1>7, <1>8, <1>9, <1>10, <1>11, <1>12, Untouched, Zenon DEF GroundInv

\* The report is written, or is not.
LEMMA ReportStep ==
    ASSUME GroundInv, WriteReport
    PROVE  GroundInv'
<1>1. /\ rpc = "report" /\ rpc' = "done"
      /\ UNCHANGED <<veh, net, rcv, written, truncated, files, stopped, digests, verdict>>
  BY DEF WriteReport, rest
<1>2. ReceiverTyped /\ FilesTyped /\ Phases BY DEF GroundInv
<1>3. ReceiverTyped'
  BY <1>1, <1>2 DEF ReceiverTyped
<1>4. Phases'
  BY <1>1 DEF GroundInv, Phases
<1>5. Reported'
  <2>1. CASE report' = NoReport
    <3>1. report' = NoReport' BY <2>1 DEF NoReport
    <3> QED BY <3>1 DEF Reported
  <2>2. CASE /\ report' = [source |-> rcv.source, counters |-> rcv.counters, last_errno |-> rcv.last_errno,
                        interrupted |-> stopped, shutdown_truncated |-> truncated,
                        recording_sha256 |-> files.ground]
             /\ code' = ExitCode
    <3>1. /\ report'.source = rcv.source /\ report'.counters = rcv.counters
          /\ report'.last_errno = rcv.last_errno /\ report'.shutdown_truncated = truncated
          /\ report'.interrupted = stopped /\ report'.recording_sha256 = files.ground
      BY <2>2
    <3>2. code = 4 => code' = 4 BY <2>2 DEF ExitCode
    <3>3. code \in {0, 4, 6} /\ (code = 6 => rcv.last_errno = "other") BY <1>1, <1>2 DEF Phases
    <3>4. code # 4 => files.ground = written BY <1>1, <1>2 DEF Phases
    <3>5. code' \notin {0, 4} =>
            \/ stopped \/ truncated \/ rcv.counters["malformed"] > 0
            \/ rcv.counters["conflict"] > 0 \/ rcv.last_errno = "other"
      BY <2>2, <3>3 DEF ExitCode
    <3>6. code' \notin {0, 4} => Troubled' BY <1>1, <3>1, <3>5 DEF Troubled
    <3>7. stopped \in BOOLEAN BY <1>2 DEF ReceiverTyped
    <3> QED BY <1>1, <3>1, <3>2, <3>4, <3>6, <3>7 DEF Reported
  <2> QED BY <2>1, <2>2 DEF WriteReport
<1>6. Hashed' /\ Judged' /\ ~Ended
  BY <1>1, Unjudged DEF Ended
<1> QED
  BY <1>1, <1>3, <1>4, <1>5, <1>6, Untouched, Zenon DEF GroundInv

\* A recording is cut after the run.
LEMMA ShortenStep ==
    ASSUME GroundInv, Shorten
    PROVE  GroundInv'
<1>1. /\ Ended /\ verdict = NoVerdict /\ rpc = "done"
      /\ UNCHANGED <<veh, net, rpc, rcv, written, truncated, code, report, stopped,
                     digests, verdict>>
  BY DEF Shorten, receiver, Ended
<1>2. Ended' BY <1>1 DEF Ended, Running
<1>3. FilesTyped /\ VehicleRecording BY DEF GroundInv
<1>4. PICK f \in {"vehicle", "ground"} :
          /\ files[f] # <<>>
          /\ files' = [files EXCEPT ![f] = SubSeq(@, 1, Len(@) - 1)]
  BY DEF Shorten
<1> DEFINE s == files[f]
           t == SubSeq(s, 1, Len(s) - 1)
<1>5. s \in Seq(Frames) /\ s # <<>>
  BY <1>3, <1>4 DEF FilesTyped
<1>6. /\ t \in Seq(Frames) /\ Len(t) = Len(s) - 1 /\ Len(s) \in Nat
      /\ \A i \in DOMAIN t : i \in DOMAIN s /\ t[i] = s[i]
  BY <1>5
<1>7. /\ Shaped(files', {"vehicle", "ground"})
      /\ files'[f] = t
      /\ \A h \in {"vehicle", "ground"} : h # f => files'[h] = files[h]
  BY <1>3, <1>4 DEF FilesTyped, Shaped
<1>8. files.ground = written /\ Len(files.vehicle) = veh.records
  BY DEF Shorten
<1> HIDE DEF t
<1>9. FilesTyped'
  <2>1. files'.vehicle \in Seq(Frames) /\ files'.ground \in Seq(Frames)
    BY <1>3, <1>6, <1>7 DEF FilesTyped
  <2> QED BY <1>1, <1>3, <1>7, <2>1 DEF FilesTyped
<1>10. VehicleRecording'
  <2>1. CASE f = "vehicle"
    <3>1. files'.vehicle = t /\ s = files.vehicle BY <1>7, <2>1
    <3> QED BY <1>1, <1>2, <1>3, <1>6, <3>1 DEF VehicleRecording
  <2>2. CASE f = "ground"
    <3>1. files'.vehicle = files.vehicle BY <1>7, <2>2
    <3> QED BY <1>1, <1>2, <1>3, <3>1 DEF VehicleRecording
  <2> QED BY <2>1, <2>2
<1>11. Phases'
  BY <1>1 DEF GroundInv, Phases, NoReport
<1>12. ~Whole'
  <2>1. CASE f = "vehicle"
    <3>1. Len(files'.vehicle) = Len(files.vehicle) - 1 /\ Len(files.vehicle) \in Nat
      BY <1>6, <1>7, <2>1
    <3>2. Len(files'.vehicle) # veh'.records BY <1>1, <1>8, <3>1
    <3> QED BY <3>2 DEF Whole
  <2>2. CASE f = "ground"
    <3>1. Len(files'.ground) = Len(files.ground) - 1 /\ Len(files.ground) \in Nat
      BY <1>6, <1>7, <2>2
    <3>2. files'.ground # files.ground BY <3>1
    <3> QED BY <1>1, <1>8, <3>2 DEF Whole
  <2> QED BY <2>1, <2>2
<1>13. Hashed'
  BY <1>1, <1>2, <1>12 DEF GroundInv, Hashed, NoDigests, NoReport
<1>14. Judged'
  <2>1. verdict' = NoVerdict' BY <1>1 DEF NoVerdict
  <2> QED BY <2>1 DEF Judged
<1> QED
  BY <1>1, <1>9, <1>10, <1>11, <1>13, <1>14, Untouched, Zenon DEF GroundInv

\* The files are hashed, then read and judged.
LEMMA CheckSteps ==
    ASSUME GroundInv, CheckDigests \/ CheckReads
    PROVE  GroundInv'
<1>1. UNCHANGED <<veh, net, rpc, rcv, written, truncated, code, report, stopped, files>>
  BY DEF CheckDigests, CheckReads, receiver
<1>2. Ended => Ended' BY <1>1 DEF Ended, Running
<1>3. CASE CheckDigests
  <2>1. Ended /\ verdict = NoVerdict /\ report # NoReport /\ digests' = files /\ verdict' = verdict
    BY <1>3 DEF CheckDigests
  <2>2. Hashed' BY <1>1, <1>2, <2>1 DEF Hashed, NoReport
  <2>3. verdict' = NoVerdict' BY <2>1 DEF NoVerdict
  <2>4. Judged' BY <2>3 DEF Judged
  <2> QED BY <1>1, <1>2, <2>2, <2>4, Untouched, Zenon DEF GroundInv
<1>4. CASE CheckReads
  <2>1. /\ digests # NoDigests /\ digests' = digests
        /\ verdict' = check(digests, files, veh, report, veh.exit, code)
    BY <1>4 DEF CheckReads
  <2>2. Hashed' BY <1>1, <2>1, Untouched, Zenon DEF GroundInv
  <2>3. Judged' BY <1>1, <2>1 DEF Judged, NoDigests
  <2> QED BY <1>1, <1>2, <2>2, <2>3, Untouched, Zenon DEF GroundInv
<1> QED BY <1>3, <1>4

\* A cycle's frame is recorded, or not, and its copy sent, or not.
LEMMA EmitStep ==
    ASSUME GroundInv, Emit
    PROVE  GroundInv'
<1> DEFINE T == veh.total_cycles
           frame == Frame(T - veh.dropped, T, TRUE)
<1>1. /\ veh.exit = Running
      /\ UNCHANGED <<rpc, rcv, written, truncated, code, report, stopped, digests, verdict>>
  BY DEF Emit, Cycling, receiver
<1>2. PICK recorded \in BOOLEAN, result \in IF Sending THEN {"sent", "short", "error"} ELSE {"none"} :
        /\ veh' = [veh EXCEPT
                     !.total_cycles = @ + 1,
                     !.records = IF recorded THEN @ + 1 ELSE @,
                     !.write_failed = @ \/ ~recorded,
                     !.attempted = IF Sending THEN @ + 1 ELSE @,
                     !.sent = IF result = "sent" THEN @ + 1 ELSE @,
                     !.send_errors = IF result \in {"short", "error"} THEN @ + 1 ELSE @,
                     !.short_sends = IF result = "short" THEN @ + 1 ELSE @]
        /\ files' = IF recorded THEN [files EXCEPT !.vehicle = Append(@, frame)] ELSE files
        /\ net' = net \cup
                      IF veh.setup # "ok" \/ ~Open \/ result = "error" THEN {}
                      ELSE {IF result = "short" THEN Malformed("vehicle")
                            ELSE Datagram("vehicle", frame)}
  BY ZenonT(30) DEF Emit
<1>3. VehicleTyped /\ FilesTyped /\ VehicleCounts /\ VehicleRecording /\ LinkFrames
  BY DEF GroundInv
<1>4. /\ Shaped(veh', VehicleFields)
      /\ veh'.setup = veh.setup /\ veh'.total_cycles = T + 1
      /\ veh'.dropped = veh.dropped /\ veh'.exit = veh.exit
      /\ veh'.records = (IF recorded THEN veh.records + 1 ELSE veh.records)
      /\ veh'.write_failed = (veh.write_failed \/ ~recorded)
      /\ veh'.attempted = (IF Sending THEN veh.attempted + 1 ELSE veh.attempted)
      /\ veh'.sent = (IF result = "sent" THEN veh.sent + 1 ELSE veh.sent)
      /\ veh'.send_errors = (IF result \in {"short", "error"} THEN veh.send_errors + 1 ELSE veh.send_errors)
      /\ veh'.short_sends = (IF result = "short" THEN veh.short_sends + 1 ELSE veh.short_sends)
  BY <1>2, <1>3 DEF VehicleTyped, VehicleFields, Shaped
<1>5. VehicleTyped'
  BY <1>3, <1>4 DEF VehicleTyped
<1>6. ~Ended /\ ~Ended'
  BY <1>1, <1>4 DEF Ended, Running
<1>7. /\ T \in Nat /\ veh.dropped \in Nat /\ veh.dropped <= T
      /\ frame \in Frames /\ frame.tick = T
      /\ veh.dropped = 0 => frame = Own(T)
  <2>1. T \in Nat /\ veh.dropped \in Nat /\ veh.dropped <= T
    BY <1>3 DEF VehicleTyped, VehicleCounts
  <2> HIDE DEF T
  <2>2. T - veh.dropped \in Int BY <2>1
  <2>3. frame \in Frames /\ frame.tick = T BY <2>1, <2>2 DEF Frame, Frames
  <2>4. veh.dropped = 0 => T - veh.dropped = T BY <2>1
  <2>5. veh.dropped = 0 => frame = Own(T) BY <2>4 DEF Own
  <2> QED BY <2>1, <2>3, <2>5
<1> HIDE DEF frame
<1>8. VehicleCounts'
  <2>1. Sending <=> veh.setup \in {"ok", "elsewhere"} BY DEF Sending
  <2>2. \/ Sending /\ result \in {"sent", "short", "error"}
        \/ ~Sending /\ result = "none"
    BY <1>2
  <2>3. veh.write_failed \in BOOLEAN /\ veh'.exit # 0
    BY <1>1, <1>3, <1>4 DEF VehicleTyped, Running
  <2>4. /\ veh'.dropped <= veh'.total_cycles /\ veh'.short_sends <= veh'.send_errors
        /\ veh'.attempted = veh'.sent + veh'.send_errors
    BY <1>3, <1>4, <1>7, <2>2 DEF VehicleTyped, VehicleCounts
  <2>5. veh'.setup = "ok" => veh'.attempted = veh'.total_cycles - veh'.dropped
    BY <1>3, <1>4, <1>7, <2>1 DEF VehicleTyped, VehicleCounts
  <2>6. ~veh'.write_failed => veh'.records = veh'.total_cycles - veh'.dropped
    <3>1. ASSUME ~veh'.write_failed PROVE recorded /\ ~veh.write_failed
      BY <1>4, <2>3, <3>1
    <3>2. ASSUME ~veh'.write_failed PROVE veh'.records = veh.records + 1
      BY <1>4, <3>1, <3>2
    <3>3. ASSUME ~veh'.write_failed PROVE veh.records = T - veh.dropped
      BY <1>3, <3>1, <3>3 DEF VehicleCounts
    <3> QED BY <1>4, <1>7, <3>2, <3>3
  <2> QED BY <2>3, <2>4, <2>5, <2>6 DEF VehicleCounts
<1>9. /\ Shaped(files', {"vehicle", "ground"})
      /\ files'.ground = files.ground
      /\ files'.vehicle = (IF recorded THEN Append(files.vehicle, frame) ELSE files.vehicle)
  BY <1>2, <1>3 DEF FilesTyped, Shaped
<1>10. net' \subseteq net \cup {Malformed("vehicle"), Datagram("vehicle", frame)}
  BY <1>2
<1>11. /\ Datagram("vehicle", frame) \in Datagrams /\ Malformed("vehicle") \in Datagrams
       /\ Malformed("vehicle").frame = NoFrame
       /\ Datagram("vehicle", frame).frame = frame
  BY <1>7, Shapes DEF Malformed
<1>12. FilesTyped'
  <2>1. files'.vehicle \in Seq(Frames)
    BY <1>3, <1>7, <1>9 DEF FilesTyped
  <2>2. net' \subseteq Datagrams
    BY <1>3, <1>10, <1>11 DEF FilesTyped
  <2> QED BY <1>1, <1>3, <1>9, <2>1, <2>2 DEF FilesTyped
<1>13. VehicleRecording'
  <2>0. files.vehicle \in Seq(Frames) /\ Len(files.vehicle) = veh.records
    BY <1>3, <1>6 DEF FilesTyped, VehicleRecording
  <2>1. CASE ~recorded
    <3>1. files'.vehicle = files.vehicle /\ veh'.records = veh.records /\ veh'.write_failed
      BY <1>4, <1>9, <2>1
    <3> QED BY <2>0, <3>1 DEF VehicleRecording
  <2>2. CASE recorded
    <3>1. files'.vehicle = Append(files.vehicle, frame) /\ veh'.records = veh.records + 1
      BY <1>4, <1>9, <2>2
    <3>2. Len(files'.vehicle) = veh'.records BY <2>0, <3>1
    <3>3. ASSUME veh'.dropped = 0, ~veh'.write_failed, NEW i \in DOMAIN files'.vehicle
          PROVE  files'.vehicle[i] = Own(i - 1)
      <4>1. veh.dropped = 0 /\ ~veh.write_failed
        BY <1>3, <1>4, <3>3 DEF VehicleTyped
      <4>2. veh.records = T BY <1>3, <1>7, <4>1 DEF VehicleCounts
      <4>3. i \in 1 .. Len(files.vehicle) + 1 BY <2>0, <3>1
      <4>4. CASE i = Len(files.vehicle) + 1
        <5>1. files'.vehicle[i] = frame BY <2>0, <3>1, <4>4
        <5>2. i - 1 = T BY <1>7, <2>0, <4>2, <4>4
        <5> QED BY <1>7, <4>1, <5>1, <5>2
      <4>5. CASE i \in 1 .. Len(files.vehicle)
        <5>1. files'.vehicle[i] = files.vehicle[i] /\ i \in DOMAIN files.vehicle
          BY <2>0, <3>1, <4>5
        <5> QED BY <1>3, <4>1, <5>1 DEF VehicleRecording
      <4> QED BY <2>0, <4>3, <4>4, <4>5
    <3> QED BY <3>2, <3>3 DEF VehicleRecording, Own, Frame
  <2> QED BY <2>1, <2>2
<1>14. LinkFrames'
  <2> SUFFICES ASSUME NEW d \in net'
               PROVE  \/ d.frame = NoFrame
                      \/ /\ d.frame.tick \in Nat
                         /\ d.from = "vehicle" /\ veh.dropped = 0 =>
                                d.frame.tick < T + 1 /\ d.frame = Own(d.frame.tick)
    BY <1>4 DEF LinkFrames, NoFrame, Own, Frame
  <2>1. CASE d \in net
    <3>1. \/ d.frame = NoFrame
          \/ /\ d.frame.tick \in Nat
             /\ d.from = "vehicle" /\ veh.dropped = 0 =>
                    d.frame.tick < T /\ d.frame = Own(d.frame.tick)
      BY <1>3, <2>1 DEF LinkFrames
    <3> QED BY <1>7, <3>1
  <2>2. CASE d = Malformed("vehicle") BY <1>11, <2>2
  <2>3. CASE d = Datagram("vehicle", frame)
    <3>1. d.frame = frame /\ frame.tick = T BY <1>7, <1>11, <2>3
    <3> QED BY <1>7, <3>1
  <2> QED BY <1>10, <2>1, <2>2, <2>3
<1>15. InOrder'
  <2>1. ASSUME NEW k \in DOMAIN written, rcv.source # "other", veh.dropped = 0
        PROVE  written[k].tick < T + 1
    <3>1. written[k].tick < T /\ written[k].tick \in Nat BY <2>1 DEF GroundInv, InOrder
    <3> QED BY <1>7, <3>1
  <2> QED BY <1>1, <1>4, <2>1 DEF GroundInv, InOrder, NoFrame, Own, Frame
<1>16. CopiesSent'
  <2>1. IsFiniteSet(Copies) /\ Cardinality(Copies) <= veh.sent
    BY DEF GroundInv, CopiesSent
  <2>2. Cardinality(Copies) \in Nat BY <2>1, FS_CardinalityType
  <2>3. CASE result = "sent"
    <3>1. net' = net \/ net' = net \cup {Datagram("vehicle", frame)}
      BY <1>2, <2>3
    <3>2. Copies' \subseteq Copies \cup {frame}
      BY <1>1, <1>11, <3>1 DEF Copies, NoFrame
    <3>3. /\ IsFiniteSet(Copies \cup {frame})
          /\ Cardinality(Copies \cup {frame}) \in {Cardinality(Copies), Cardinality(Copies) + 1}
      BY <2>1, FS_AddElement
    <3>4. Copies' \in SUBSET (Copies \cup {frame}) BY <3>2
    <3>5. IsFiniteSet(Copies') /\ Cardinality(Copies') <= Cardinality(Copies \cup {frame})
      BY <3>3, <3>4, FS_Subset
    <3>6. Cardinality(Copies') \in Nat BY <3>5, FS_CardinalityType
    <3>7. veh'.sent = veh.sent + 1 /\ veh.sent \in Nat BY <1>3, <1>4, <2>3 DEF VehicleTyped
    <3>8. Cardinality(Copies') <= veh'.sent BY <2>1, <2>2, <3>3, <3>5, <3>6, <3>7
    <3> QED BY <3>5, <3>8 DEF CopiesSent
  <2>4. CASE result # "sent"
    <3>1. net' = net \/ net' = net \cup {Malformed("vehicle")}
      BY <1>2, <2>4 DEF Sending
    <3>2. Copies' = Copies
      BY <1>1, <1>11, <3>1 DEF Copies, NoFrame
    <3>3. veh'.sent = veh.sent BY <1>4, <2>4
    <3> QED BY <2>1, <3>2, <3>3 DEF CopiesSent
  <2> QED BY <2>3, <2>4
<1>17. Phases'
  <2>1. files'.ground = files.ground BY <1>9
  <2> QED BY <1>1, <2>1 DEF GroundInv, Phases, NoReport
<1>18. Hashed' /\ Judged'
  BY <1>1, <1>6, Unjudged
<1> QED
  BY <1>1, <1>5, <1>8, <1>12, <1>13, <1>14, <1>15, <1>16, <1>17, <1>18, Untouched, Zenon
     DEF GroundInv

CountIn(c, x) == [c EXCEPT !["received"] = @ + 1, ![x] = @ + 1]

\* A datagram is counted once as received and once by its disposition.
LEMMA CountedOnce ==
    ASSUME NEW c \in [Counters -> Nat], NEW x \in Dispositions
    PROVE  LET n == CountIn(c, x)
           IN  /\ n \in [Counters -> Nat]
               /\ n["received"] = c["received"] + 1 /\ n[x] = c[x] + 1
               /\ \A k \in Counters : k # "received" /\ k # x => n[k] = c[k]
<1>1. x \in Counters /\ "received" \in Counters /\ x # "received"
  BY DEF Counters, Dispositions
<1> QED BY <1>1 DEF CountIn

\* What accept finds: it records a frame only of the sender it listens to, or
\* of the first, and later than all it has; the first frame is always recorded;
\* and a lossless vehicle's frames never conflict.
LEMMA DispositionMeans ==
    ASSUME GroundInv, NEW d \in net
    PROVE  /\ Disposition(d) \in Dispositions \ {"write_failed_datagrams"}
           /\ SourceAfter(d) \in {"none", "vehicle", "other"}
           /\ SourceAfter(d) = rcv.source \/ rcv.source = "none"
           /\ Disposition(d) = "recorded" =>
                /\ d.frame # NoFrame /\ SourceAfter(d) = d.from
                /\ d.frame.tick \in Nat
                /\ written # <<>> => d.frame.tick > written[Len(written)].tick
           /\ rcv.source = "none" /\ SourceAfter(d) # "none" => Disposition(d) = "recorded"
           /\ SourceAfter(d) # "other" /\ veh.dropped = 0 => Disposition(d) # "conflict"
<1>1. /\ d \in Datagrams /\ rcv.source \in {"none", "vehicle", "other"}
      /\ d.frame # NoFrame => d.frame.tick \in Nat
  BY DEF GroundInv, FilesTyped, ReceiverTyped, LinkFrames
<1>2. d.from \in {"vehicle", "other"}
  BY <1>1 DEF Datagrams
<1>3. /\ rcv.last = IF written = <<>> THEN NoFrame ELSE written[Len(written)]
      /\ rcv.source = "none" => written = <<>>
      /\ \A k \in DOMAIN written : written[k].tick \in Nat
      /\ written \in Seq(Frames)
  BY DEF GroundInv, InOrder, FilesTyped
<1>4. written # <<>> =>
        /\ Len(written) \in DOMAIN written /\ rcv.last = written[Len(written)]
        /\ rcv.last.tick \in Nat /\ rcv.last # NoFrame
  <2> SUFFICES ASSUME written # <<>>
               PROVE  /\ Len(written) \in DOMAIN written /\ rcv.last = written[Len(written)]
                      /\ rcv.last.tick \in Nat /\ rcv.last # NoFrame
    OBVIOUS
  <2>1. Len(written) \in DOMAIN written BY <1>3
  <2>2. rcv.last = written[Len(written)] BY <1>3
  <2>3. rcv.last.tick \in Nat BY <1>3, <2>1, <2>2
  <2>4. rcv.last # NoFrame BY <2>3 DEF NoFrame
  <2> QED BY <2>1, <2>2, <2>3, <2>4
<1>6. Disposition(d) \in Dispositions \ {"write_failed_datagrams"}
  BY DEF Disposition, Dispositions
<1>7. SourceAfter(d) \in {"none", "vehicle", "other"} /\ (SourceAfter(d) = rcv.source \/ rcv.source = "none")
  BY <1>1, <1>2 DEF SourceAfter
<1>8. ASSUME Disposition(d) = "recorded"
      PROVE  /\ d.frame # NoFrame /\ SourceAfter(d) = d.from
             /\ d.frame.tick \in Nat
             /\ written # <<>> => d.frame.tick > written[Len(written)].tick
  <2>1. /\ ~(rcv.source # "none" /\ d.from # rcv.source)
        /\ d.frame # NoFrame
        /\ rcv.last = NoFrame \/ d.frame.tick > rcv.last.tick
    BY <1>8 DEF Disposition
  <2>2. SourceAfter(d) = d.from BY <2>1 DEF SourceAfter
  <2>3. ASSUME written # <<>> PROVE d.frame.tick > written[Len(written)].tick
    BY <1>1, <1>4, <2>1, <2>3
  <2> QED BY <1>1, <2>1, <2>2, <2>3
<1>9. ASSUME rcv.source = "none", SourceAfter(d) # "none"
      PROVE  Disposition(d) = "recorded"
  <2>1. d.frame # NoFrame BY <1>9 DEF SourceAfter
  <2>2. rcv.last = NoFrame BY <1>3, <1>9
  <2> QED BY <1>9, <2>1, <2>2 DEF Disposition
<1>10. ASSUME SourceAfter(d) # "other", veh.dropped = 0, Disposition(d) = "conflict"
       PROVE  FALSE
  <2>1. /\ ~(rcv.source # "none" /\ d.from # rcv.source)
        /\ d.frame # NoFrame
        /\ rcv.last # NoFrame /\ ~(d.frame.tick > rcv.last.tick)
        /\ ~(d.frame.tick < rcv.last.tick) /\ d.frame # rcv.last
    BY <1>10 DEF Disposition
  <2>2. rcv.source # "none" BY <1>9, <1>10, <1>7, <2>1, <1>2 DEF SourceAfter
  <2>3. rcv.source = "vehicle" /\ d.from = "vehicle"
    BY <1>1, <1>10, <2>1, <2>2 DEF SourceAfter
  <2>4. d.frame = Own(d.frame.tick)
    BY <1>10, <2>1, <2>3 DEF GroundInv, LinkFrames
  <2>5. written # <<>> BY <1>3, <2>1
  <2>6. rcv.last = Own(rcv.last.tick)
    BY <1>4, <1>10, <2>3, <2>5 DEF GroundInv, InOrder
  <2>7. d.frame.tick = rcv.last.tick
    <3>1. d.frame.tick \in Nat /\ rcv.last.tick \in Nat BY <1>1, <1>4, <2>1, <2>5
    <3> QED BY <2>1, <3>1
  <2> QED BY <2>1, <2>4, <2>6, <2>7
<1> QED BY <1>6, <1>7, <1>8, <1>9, <1>10

\* A datagram is received.
LEMMA ReceiveStep ==
    ASSUME GroundInv, Receive
    PROVE  GroundInv'
<1>1. /\ rpc \in {"collect", "drain"}
      /\ UNCHANGED <<veh, truncated, report, stopped, files, digests, verdict>>
  BY DEF Receive, Open, rest
<1>2. PICK d \in net :
        /\ net' \in {net, net \ {d}}
        /\ \/ /\ rcv' = [rcv EXCEPT !.source = SourceAfter(d), !.counters = Counted(Disposition(d)),
                                    !.last = IF Taken(Disposition(d)) THEN d.frame ELSE @]
              /\ written' = IF Taken(Disposition(d)) THEN Append(written, d.frame) ELSE written
              /\ UNCHANGED <<rpc, code>>
           \/ /\ Disposition(d) = "recorded"
              /\ rcv' = [rcv EXCEPT !.source = SourceAfter(d),
                                    !.counters = Counted("write_failed_datagrams")]
              /\ code' = 4 /\ rpc' = "close"
              /\ UNCHANGED written
  BY DEF Receive
<1> DEFINE src == SourceAfter(d)
           found == Disposition(d)
           fields == {"source", "last", "last_errno", "counters"}
<1>3. ReceiverTyped /\ FilesTyped /\ InOrder /\ ReceiverCounts /\ LinkFrames
  BY DEF GroundInv
<1>4. /\ found \in Dispositions \ {"write_failed_datagrams"}
      /\ src \in {"none", "vehicle", "other"}
      /\ src = rcv.source \/ rcv.source = "none"
      /\ found = "recorded" =>
           /\ d.frame # NoFrame /\ src = d.from
           /\ d.frame.tick \in Nat
           /\ written # <<>> => d.frame.tick > written[Len(written)].tick
      /\ rcv.source = "none" /\ src # "none" => found = "recorded"
      /\ src # "other" /\ veh.dropped = 0 => found # "conflict"
  BY DispositionMeans
<1> HIDE DEF src, found
<1>5. PICK x \in Dispositions, taken \in BOOLEAN :
        /\ Shaped(rcv', fields)
        /\ rcv'.source = src /\ rcv'.last_errno = rcv.last_errno
        /\ rcv'.counters = Counted(x)
        /\ rcv'.last = (IF taken THEN d.frame ELSE rcv.last)
        /\ written' = (IF taken THEN Append(written, d.frame) ELSE written)
        /\ taken => found = "recorded" /\ x = "recorded"
        /\ ~taken => x # "recorded"
        /\ \/ x = found /\ UNCHANGED <<rpc, code>>
           \/ found = "recorded" /\ x = "write_failed_datagrams" /\ code' = 4 /\ rpc' = "close"
  <2>1. CASE /\ rcv' = [rcv EXCEPT !.source = src, !.counters = Counted(found),
                                   !.last = IF Taken(found) THEN d.frame ELSE @]
             /\ written' = IF Taken(found) THEN Append(written, d.frame) ELSE written
             /\ UNCHANGED <<rpc, code>>
    <3> DEFINE n == Counted(found)
               l == IF Taken(found) THEN d.frame ELSE rcv.last
    <3> HIDE DEF n
    <3>1. rcv' = [rcv EXCEPT !.source = src, !.counters = n, !.last = l] BY <2>1 DEF n
    <3> HIDE DEF l
    <3>2. /\ Shaped(rcv', fields)
          /\ rcv'.source = src /\ rcv'.last_errno = rcv.last_errno
          /\ rcv'.counters = n /\ rcv'.last = l
      BY <1>3, <3>1 DEF ReceiverTyped, Shaped
    <3>3. Taken(found) <=> found = "recorded" BY DEF Taken
    <3> DEFINE taken == found = "recorded"
    <3>4. l = (IF taken THEN d.frame ELSE rcv.last) BY <3>3 DEF l
    <3>5. written' = (IF taken THEN Append(written, d.frame) ELSE written) BY <2>1, <3>3
    <3>6. taken \in BOOLEAN /\ found \in Dispositions BY <1>4
    <3>7. taken => found = "recorded" OBVIOUS
    <3>8. ~taken => found # "recorded" OBVIOUS
    <3> HIDE DEF taken
    <3> QED BY <2>1, <3>2, <3>4, <3>5, <3>6, <3>7, <3>8 DEF n
  <2>2. CASE /\ found = "recorded"
             /\ rcv' = [rcv EXCEPT !.source = src,
                                   !.counters = Counted("write_failed_datagrams")]
             /\ code' = 4 /\ rpc' = "close"
             /\ UNCHANGED written
    <3> DEFINE n == Counted("write_failed_datagrams")
    <3> HIDE DEF n
    <3>1. rcv' = [rcv EXCEPT !.source = src, !.counters = n] BY <2>2 DEF n
    <3>2. /\ Shaped(rcv', fields)
          /\ rcv'.source = src /\ rcv'.last_errno = rcv.last_errno
          /\ rcv'.counters = n /\ rcv'.last = rcv.last
      BY <1>3, <3>1 DEF ReceiverTyped, Shaped
    <3>3. "write_failed_datagrams" \in Dispositions /\ FALSE \in BOOLEAN BY DEF Dispositions
    <3> QED BY <2>2, <3>2, <3>3 DEF n
  <2> QED BY <1>2, <2>1, <2>2 DEF src, found
<1> DEFINE c == rcv.counters
           n == rcv'.counters
<1>6. /\ n \in [Counters -> Nat]
      /\ n["received"] = c["received"] + 1 /\ n[x] = c[x] + 1
      /\ \A k \in Counters : k # "received" /\ k # x => n[k] = c[k]
  <2>1. c \in [Counters -> Nat] BY <1>3 DEF ReceiverTyped
  <2>2. n = CountIn(c, x) BY <1>5 DEF Counted, CountIn
  <2> HIDE DEF n, c
  <2> QED BY <2>1, <2>2, CountedOnce
<1>7. written \in Seq(Frames) /\ d \in Datagrams /\ d.frame \in Frames /\ written' \in Seq(Frames)
  <2>1. written \in Seq(Frames) /\ d \in Datagrams BY <1>3 DEF FilesTyped
  <2>2. d.frame \in Frames BY <2>1 DEF Datagrams
  <2> QED BY <1>5, <2>1, <2>2
<1>8. FilesTyped'
  BY <1>1, <1>2, <1>3, <1>7 DEF FilesTyped
<1>9. ReceiverTyped'
  BY <1>1, <1>3, <1>4, <1>5, <1>6 DEF ReceiverTyped
<1>10. LinkFrames'
  BY <1>1, <1>2, <1>3 DEF LinkFrames, NoFrame
<1>11. InOrder'
  <2>1. ASSUME ~taken PROVE UNCHANGED <<written>> /\ rcv'.last = rcv.last
    BY <1>5, <2>1
  <2>2. ASSUME taken
        PROVE  /\ Len(written') = Len(written) + 1
               /\ DOMAIN written' = 1 .. Len(written) + 1 /\ DOMAIN written = 1 .. Len(written)
               /\ Len(written) \in Nat /\ written' # <<>>
               /\ written'[Len(written) + 1] = d.frame
               /\ \A k \in 1 .. Len(written) : written'[k] = written[k]
    <3>1. written' = Append(written, d.frame) BY <1>5, <2>2
    <3> QED BY <1>7, <3>1
  <2>3. ASSUME taken
        PROVE  /\ d.frame.tick \in Nat /\ src = d.from /\ d.frame # NoFrame
               /\ \A k \in 1 .. Len(written) : written[k].tick < d.frame.tick
    <3>1. /\ d.frame.tick \in Nat /\ src = d.from /\ d.frame # NoFrame
          /\ written # <<>> => d.frame.tick > written[Len(written)].tick
      BY <1>4, <1>5, <2>3
    <3>2. ASSUME NEW k \in 1 .. Len(written) PROVE written[k].tick < d.frame.tick
      <4>1. Len(written) \in DOMAIN written /\ k \in DOMAIN written /\ written # <<>>
        BY <1>7, <3>2
      <4>2. written[k].tick <= written[Len(written)].tick
        <5>1. written[k].tick \in Nat BY <1>3, <4>1 DEF InOrder
        <5>2. CASE k = Len(written) BY <5>1, <5>2
        <5>3. CASE k < Len(written)
          <6>1. written[k].tick < written[Len(written)].tick BY <1>3, <4>1, <5>3 DEF InOrder
          <6>2. written[Len(written)].tick \in Nat BY <1>3, <4>1 DEF InOrder
          <6> QED BY <5>1, <6>1, <6>2
        <5> QED BY <1>7, <4>1, <5>2, <5>3
      <4>3. written[k].tick \in Nat /\ written[Len(written)].tick \in Nat
        BY <1>3, <4>1 DEF InOrder
      <4> QED BY <3>1, <4>1, <4>2, <4>3
    <3> QED BY <3>1, <3>2
  <2>4. \A k \in DOMAIN written' : written'[k].tick \in Nat
    <3>1. CASE ~taken BY <1>3, <2>1, <3>1 DEF InOrder
    <3>2. CASE taken
      <4> SUFFICES ASSUME NEW k \in 1 .. Len(written) + 1 PROVE written'[k].tick \in Nat
        BY <2>2, <3>2
      <4>1. CASE k = Len(written) + 1 BY <2>2, <2>3, <3>2, <4>1
      <4>2. CASE k \in 1 .. Len(written)
        <5>1. written'[k] = written[k] /\ k \in DOMAIN written BY <2>2, <3>2, <4>2
        <5> QED BY <1>3, <5>1 DEF InOrder
      <4> QED BY <2>2, <3>2, <4>1, <4>2
    <3> QED BY <3>1, <3>2
  <2>5. \A j, k \in DOMAIN written' : j < k => written'[j].tick < written'[k].tick
    <3>1. CASE ~taken BY <1>3, <2>1, <3>1 DEF InOrder
    <3>2. CASE taken
      <4> SUFFICES ASSUME NEW j \in 1 .. Len(written) + 1, NEW k \in 1 .. Len(written) + 1, j < k
                   PROVE  written'[j].tick < written'[k].tick
        BY <2>2, <3>2
      <4>1. j \in 1 .. Len(written) BY <2>2, <3>2
      <4>2. written'[j] = written[j] BY <2>2, <3>2, <4>1
      <4>3. CASE k = Len(written) + 1
        <5>1. written'[k] = d.frame BY <2>2, <3>2, <4>3
        <5> QED BY <2>3, <3>2, <4>1, <4>2, <5>1
      <4>4. CASE k \in 1 .. Len(written)
        <5>1. written'[k] = written[k] BY <2>2, <3>2, <4>4
        <5> QED BY <1>3, <2>2, <3>2, <4>1, <4>2, <4>4, <5>1 DEF InOrder
      <4> QED BY <2>2, <3>2, <4>3, <4>4
    <3> QED BY <3>1, <3>2
  <2>6. rcv'.last = IF written' = <<>> THEN NoFrame ELSE written'[Len(written')]
    <3>1. CASE ~taken BY <1>3, <2>1, <3>1 DEF InOrder
    <3>2. CASE taken
      <4>1. rcv'.last = d.frame BY <1>5, <3>2
      <4> QED BY <2>2, <3>2, <4>1
    <3> QED BY <3>1, <3>2
  <2>7. rcv'.source = "none" => written' = <<>>
    <3> SUFFICES ASSUME src = "none" PROVE written' = <<>> BY <1>5
    <3>1. rcv.source = "none" BY <1>4
    <3>2. written = <<>> BY <1>3, <3>1 DEF InOrder
    <3>3. ~taken
      <4>1. d.from # "none" BY <1>7 DEF Datagrams
      <4> QED BY <2>3, <4>1
    <3> QED BY <2>1, <3>2, <3>3
  <2>8. ASSUME rcv'.source # "other", veh.dropped = 0
        PROVE  /\ n["conflict"] = 0
               /\ \A k \in DOMAIN written' :
                      /\ written'[k].tick < veh.total_cycles
                      /\ written'[k] = Own(written'[k].tick)
    <3>0. src # "other" /\ rcv.source # "other" BY <1>4, <1>5, <2>8
    <3>1. /\ c["conflict"] = 0
          /\ \A k \in DOMAIN written :
                 written[k].tick < veh.total_cycles /\ written[k] = Own(written[k].tick)
      BY <1>3, <2>8, <3>0 DEF InOrder
    <3>2. x # "conflict" BY <1>4, <1>5, <2>8, <3>0
    <3>3. n["conflict"] = 0 BY <1>6, <3>1, <3>2 DEF Counters, Dispositions
    <3>4. CASE ~taken BY <2>1, <3>1, <3>3, <3>4
    <3>5. CASE taken
      <4>1. d.from = "vehicle" /\ d.frame # NoFrame
        <5>1. d.from \in {"vehicle", "other"} BY <1>7 DEF Datagrams
        <5> QED BY <2>3, <3>0, <3>5, <5>1
      <4>2. d.frame.tick < veh.total_cycles /\ d.frame = Own(d.frame.tick)
        BY <1>3, <2>8, <4>1 DEF LinkFrames
      <4>3. ASSUME NEW k \in DOMAIN written'
            PROVE  written'[k].tick < veh.total_cycles /\ written'[k] = Own(written'[k].tick)
        <5>0. k \in 1 .. Len(written) + 1 BY <2>2, <3>5
        <5>1. CASE k = Len(written) + 1
          <6>1. written'[k] = d.frame BY <2>2, <3>5, <5>1
          <6> QED BY <4>2, <6>1
        <5>2. CASE k \in 1 .. Len(written)
          <6>1. written'[k] = written[k] /\ k \in DOMAIN written BY <2>2, <3>5, <5>2
          <6> QED BY <3>1, <6>1
        <5> QED BY <2>2, <3>5, <5>0, <5>1, <5>2
      <4> QED BY <3>3, <4>3
    <3> QED BY <3>4, <3>5
  <2> QED BY <1>1, <2>4, <2>5, <2>6, <2>7, <2>8 DEF InOrder, NoFrame, Own, Frame
<1>12. ReceiverCounts'
  <2>1. n["received"] = n["foreign"] + n["malformed"] + n["duplicate"] + n["out_of_order"]
                        + n["conflict"] + n["recorded"] + n["write_failed_datagrams"]
    <3>1. c["received"] = c["foreign"] + c["malformed"] + c["duplicate"] + c["out_of_order"]
                          + c["conflict"] + c["recorded"] + c["write_failed_datagrams"]
      BY <1>3 DEF ReceiverCounts
    <3>2. \A k \in Counters : c[k] \in Nat BY <1>3 DEF ReceiverTyped
    <3> HIDE DEF n, c
    <3> QED BY <1>6, <3>1, <3>2, SMTT(30) DEF Counters, Dispositions
  <2>2. n["recorded"] = Len(written')
    <3>1. c["recorded"] = Len(written) BY <1>3 DEF ReceiverCounts
    <3>2. CASE taken
      <4>1. n["recorded"] = c["recorded"] + 1 BY <1>5, <1>6, <3>2
      <4>2. Len(written') = Len(written) + 1 BY <1>5, <1>7, <3>2
      <4> QED BY <3>1, <4>1, <4>2
    <3>3. CASE ~taken
      <4>1. n["recorded"] = c["recorded"] BY <1>5, <1>6, <3>3 DEF Counters, Dispositions
      <4> QED BY <1>5, <3>1, <3>3, <4>1
    <3> QED BY <3>2, <3>3
  <2>3. rcv'.source # "none" => n["recorded"] > 0 \/ n["write_failed_datagrams"] > 0
    <3>1. \A k \in Counters : c[k] \in Nat BY <1>3 DEF ReceiverTyped
    <3>2. CASE rcv.source = "none"
      <4>1. ASSUME src # "none" PROVE x \in {"recorded", "write_failed_datagrams"}
        BY <1>4, <1>5, <3>2, <4>1
      <4>2. c["recorded"] \in Nat /\ c["write_failed_datagrams"] \in Nat
        BY <3>1 DEF Counters, Dispositions
      <4>3. x = "recorded" => n["recorded"] > 0 BY <1>6, <4>2
      <4>4. x = "write_failed_datagrams" => n["write_failed_datagrams"] > 0 BY <1>6, <4>2
      <4>5. rcv'.source = src BY <1>5
      <4> QED BY <4>1, <4>3, <4>4, <4>5
    <3>3. CASE rcv.source # "none"
      <4>1. c["recorded"] > 0 \/ c["write_failed_datagrams"] > 0
        BY <1>3, <3>3 DEF ReceiverCounts
      <4> HIDE DEF n, c
      <4> QED BY <1>6, <3>1, <4>1 DEF Counters, Dispositions
    <3> QED BY <3>2, <3>3
  <2>4. (n["socket_errors"] = 0) <=> (rcv'.last_errno = "none")
    <3>1. n["socket_errors"] = c["socket_errors"] BY <1>6 DEF Counters, Dispositions
    <3> QED BY <1>3, <1>5, <3>1 DEF ReceiverCounts
  <2> QED BY <2>1, <2>2, <2>3, <2>4 DEF ReceiverCounts
<1>13. CopiesSent'
  <2>1. Copies' \subseteq Copies
    <3> SUFFICES ASSUME NEW f \in Copies' PROVE f \in Copies OBVIOUS
    <3>1. CASE \E e \in net' : e.from = "vehicle" /\ e.frame # NoFrame /\ f = e.frame
      <4>1. \E e \in net : e.from = "vehicle" /\ e.frame # NoFrame /\ f = e.frame BY <1>2, <3>1
      <4> QED BY <4>1 DEF Copies
    <3>2. CASE src = "vehicle" /\ \E k \in DOMAIN written' : f = written'[k]
      <4>1. PICK k \in DOMAIN written' : f = written'[k] BY <3>2
      <4>2. CASE k \in DOMAIN written /\ f = written[k]
        <5>1. rcv.source # "none"
          <6>1. written # <<>> BY <1>7, <4>2
          <6> QED BY <1>3, <6>1 DEF InOrder
        <5>2. rcv.source = "vehicle" BY <1>4, <3>2, <5>1
        <5> QED BY <4>2, <5>2 DEF Copies
      <4>3. CASE taken /\ f = d.frame
        <5>1. d.from = "vehicle" /\ d.frame # NoFrame BY <1>4, <1>5, <3>2, <4>3
        <5> QED BY <4>3, <5>1 DEF Copies
      <4>4. \/ k \in DOMAIN written /\ f = written[k]
            \/ taken /\ f = d.frame
        <5>1. CASE ~taken BY <1>5, <4>1, <5>1
        <5>2. CASE taken
          <6>1. written' = Append(written, d.frame) BY <1>5, <5>2
          <6> QED BY <1>7, <4>1, <5>2, <6>1
        <5> QED BY <5>1, <5>2
      <4> QED BY <4>2, <4>3, <4>4
    <3>3. \/ \E e \in net' : e.from = "vehicle" /\ e.frame # NoFrame /\ f = e.frame
          \/ src = "vehicle" /\ \E k \in DOMAIN written' : f = written'[k]
      BY <1>5 DEF Copies, NoFrame
    <3> QED BY <3>1, <3>2, <3>3
  <2>2. Copies' \in SUBSET Copies BY <2>1
  <2>3. IsFiniteSet(Copies) /\ Cardinality(Copies) <= veh.sent BY DEF GroundInv, CopiesSent
  <2>4. IsFiniteSet(Copies') /\ Cardinality(Copies') <= Cardinality(Copies)
    BY <2>2, <2>3, FS_Subset
  <2>5. Cardinality(Copies') \in Nat /\ Cardinality(Copies) \in Nat /\ veh.sent \in Nat
    BY <2>3, <2>4, FS_CardinalityType DEF GroundInv, VehicleTyped
  <2>6. Cardinality(Copies') <= veh.sent BY <2>3, <2>4, <2>5
  <2> QED BY <1>1, <2>4, <2>6 DEF CopiesSent
<1>14. Phases'
  <2>1. rcv'.last_errno = rcv.last_errno BY <1>5
  <2>2. \/ UNCHANGED <<rpc, code>>
        \/ rpc' = "close" /\ code' = 4
    BY <1>5
  <2> QED BY <1>1, <2>1, <2>2 DEF GroundInv, Phases, NoReport
<1>15. Reported' /\ Hashed' /\ Judged' /\ (Ended => Ended')
  BY <1>1, Unreported, Unjudged DEF Ended
<1> QED
  BY <1>1, <1>8, <1>9, <1>10, <1>11, <1>12, <1>13, <1>14, <1>15, Untouched, Zenon DEF GroundInv

\* The initial states.
LEMMA InitHolds ==
    ASSUME Init
    PROVE  GroundInv
<1>1. PICK setup \in {"ok", "failed", "elsewhere", "off"} :
           veh = [setup |-> setup, total_cycles |-> 0, dropped |-> 0, records |-> 0,
                  attempted |-> 0, sent |-> 0, send_errors |-> 0, short_sends |-> 0,
                  write_failed |-> FALSE, exit |-> Running]
  BY DEF Init
<1>2. /\ net = {} /\ rpc = "start" /\ written = <<>>
      /\ rcv = [source |-> "none", last |-> NoFrame, last_errno |-> "none",
                counters |-> [k \in Counters |-> 0]]
      /\ stopped = FALSE /\ truncated = FALSE /\ code = 0
      /\ files = NoFiles /\ report = NoReport /\ digests = NoDigests /\ verdict = NoVerdict
  BY DEF Init
<1>3. /\ veh.total_cycles = 0 /\ veh.dropped = 0 /\ veh.records = 0 /\ veh.attempted = 0
      /\ veh.sent = 0 /\ veh.send_errors = 0 /\ veh.short_sends = 0
      /\ veh.write_failed = FALSE /\ veh.exit = Running
  BY <1>1
<1>4. Shaped(veh, VehicleFields)
  BY <1>1 DEF Shaped, VehicleFields
<1>5. /\ rcv.source = "none" /\ rcv.last = NoFrame /\ rcv.last_errno = "none"
      /\ rcv.counters = [k \in Counters |-> 0]
      /\ Shaped(rcv, {"source", "last", "last_errno", "counters"})
  BY <1>2 DEF Shaped
<1>6. /\ files.vehicle = <<>> /\ files.ground = <<>>
      /\ Shaped(files, {"vehicle", "ground"})
  BY <1>2 DEF NoFiles, Shaped
<1>7. /\ rcv.counters \in [Counters -> Nat]
      /\ \A k \in Counters : rcv.counters[k] = 0
  BY <1>5
<1>8. VehicleTyped
  <2>1. veh.write_failed \in BOOLEAN BY <1>3
  <2>2. 0 \in Nat OBVIOUS
  <2> QED BY <1>3, <1>4, <2>1, <2>2, Zenon DEF VehicleTyped
<1>9. ReceiverTyped
  BY <1>2, <1>5, <1>7 DEF ReceiverTyped
<1>10. FilesTyped
  BY <1>2, <1>6 DEF FilesTyped
<1>11. VehicleCounts
  BY <1>3 DEF VehicleCounts, Running
<1>12. VehicleRecording
  BY <1>3, <1>6 DEF VehicleRecording
<1>13. LinkFrames
  BY <1>2 DEF LinkFrames
<1>14. InOrder
  BY <1>2, <1>5, <1>7 DEF InOrder, Counters, Dispositions
<1>15. ReceiverCounts
  BY <1>2, <1>5, <1>7 DEF ReceiverCounts, Counters, Dispositions
<1>16. CopiesSent
  <2>1. Copies = {} BY <1>2 DEF Copies
  <2> QED BY <1>3, <2>1, FS_EmptySet DEF CopiesSent
<1>17. Phases
  BY <1>2, <1>5 DEF Phases
<1>18. Reported /\ Hashed /\ Judged
  BY <1>2 DEF Reported, Hashed, Judged
<1> QED
  BY <1>8, <1>9, <1>10, <1>11, <1>12, <1>13, <1>14, <1>15, <1>16, <1>17, <1>18 DEF GroundInv

\* The invariant holds in every state of the ground link, whatever the number
\* of cycles, datagrams, strangers and faults.
THEOREM GroundInvariant == Spec => []GroundInv
<1>1. Init => GroundInv
  BY InitHolds
<1>2. GroundInv /\ [Next]_vars => GroundInv'
  <2> SUFFICES ASSUME GroundInv, [Next]_vars PROVE GroundInv' OBVIOUS
  <2>1. CASE UNCHANGED vars
    BY <2>1, Untouched, Zenon DEF GroundInv, vars, receiver, Ended
  <2>2. CASE Drop BY <2>2, DropStep
  <2>3. CASE Emit BY <2>3, EmitStep
  <2>4. CASE VehicleExit BY <2>4, ExitStep
  <2>5. CASE ForeignSend BY <2>5, ForeignStep
  <2>6. CASE CloseInput \/ Signal \/ NoticeEof \/ NoticeStop \/ DrainEnds \/ Setup
    BY <2>6, EasySteps
  <2>7. CASE Receive BY <2>7, ReceiveStep
  <2>8. CASE ReceiveError BY <2>8, ReceiveErrorStep
  <2>9. CASE CloseRecording BY <2>9, CloseStep
  <2>10. CASE WriteReport BY <2>10, ReportStep
  <2>11. CASE Shorten BY <2>11, ShortenStep
  <2>12. CASE CheckDigests \/ CheckReads BY <2>12, CheckSteps
  <2> QED
    BY <2>1, <2>2, <2>3, <2>4, <2>5, <2>6, <2>7, <2>8, <2>9, <2>10, <2>11, <2>12
       DEF Next, Receiver
<1> QED BY <1>1, <1>2, PTL DEF Spec

-----------------------------------------------------------------------------
(* What the check accepts. *)

\* The two recordings of a vehicle that lost nothing and a receiver that kept
\* its file are what the merge's lemmas are about.
LEMMA SoundFiles ==
    ASSUME GroundInv, veh.dropped = 0, ~veh.write_failed
    PROVE  /\ Complete(files.vehicle) /\ Ordered(written)
           /\ veh.records = veh.total_cycles
<1>1. Complete(files.vehicle)
  BY DEF GroundInv, Complete, VehicleRecording, FilesTyped
<1>2. Ordered(written)
  BY DEF GroundInv, Ordered, InOrder, FilesTyped
<1>3. veh.records = veh.total_cycles
  BY DEF GroundInv, VehicleCounts, VehicleTyped
<1> QED BY <1>1, <1>2, <1>3

\* What the check accepts is what happened (VerdictIsTrue), for runs of any
\* length and any pattern of loss.
THEOREM VerdictAlwaysTrue == Spec => []VerdictIsTrue
<1>1. GroundInv => VerdictIsTrue
  <2> SUFFICES ASSUME GroundInv, verdict.valid
               PROVE  VerdictIsTrue
    BY DEF VerdictIsTrue
  <2> DEFINE tally == match_streams(files.vehicle, files.ground)
             N == Len(files.vehicle)
             G == Len(written)
  <2>1. verdict # NoVerdict BY DEF NoVerdict
  <2>2. /\ digests # NoDigests
        /\ verdict = check(digests, files, veh, report, veh.exit, code)
    BY <2>1 DEF GroundInv, Judged
  <2>3. /\ VehicleSound(veh, veh.exit) /\ ReceiverSound(report, code)
        /\ Unaltered(digests, files, report) /\ tally.ok /\ Populations(veh, report, tally)
        /\ verdict.pop = tally
        /\ verdict.delivery_complete <=> tally.vehicle_records > 0
                                         /\ tally.ground_records = tally.vehicle_records
    BY <2>2 DEF check
  <2> HIDE DEF tally
  <2>4. veh.exit = 0 /\ veh.dropped = 0 /\ ~veh.write_failed
    BY <2>3 DEF VehicleSound, GroundInv, VehicleCounts
  <2>5. Complete(files.vehicle) /\ Ordered(written) /\ veh.records = veh.total_cycles
    BY <2>4, SoundFiles
  <2>6. files.ground = written
    <3>1. report # NoReport BY <2>2 DEF GroundInv, Hashed
    <3>2. code = 0 BY <2>3 DEF ReceiverSound
    <3>3. report.recording_sha256 = written BY <3>1, <3>2 DEF GroundInv, Reported
    <3> QED BY <2>3, <3>3 DEF Unaltered
  <2>7. tally = match_streams(files.vehicle, written) BY <2>6 DEF tally
  <2>8. /\ \A k \in DOMAIN written : written[k] = Own(written[k].tick) /\ written[k].tick < N
        /\ tally.vehicle_records = N /\ tally.ground_records = G
        /\ tally.ground_lost = N - G
        /\ G = 0 => tally.leading_lost = 0 /\ tally.interior_lost = 0
        /\ G > 0 =>
             /\ tally.leading_lost = written[1].tick
             /\ tally.interior_lost = written[G].tick + 1 - written[1].tick - G
    BY <2>3, <2>5, <2>7, MatchMeans
  <2>9. N = veh.records /\ N = veh.total_cycles /\ N \in Nat /\ G \in Nat
    <3>1. N = veh.records BY <2>3, <2>8 DEF Populations
    <3>2. G \in Nat BY DEF GroundInv, FilesTyped
    <3> QED BY <2>5, <3>1, <3>2 DEF GroundInv, VehicleTyped
  <2> DEFINE K == {i \in 1 .. N : \E k \in DOMAIN written : written[k] = Own(i - 1)}
             L == 1 .. N \ K
             A == {i \in L : \A k \in K : i < k} \ {i \in L : K = {}}
             B == {i \in L : /\ \E k \in K : k < i
                             /\ \E k \in K : k > i}
  <2> HIDE DEF N
  <2>10. /\ Cardinality(K) = G
         /\ Cardinality(L) = N - G
         /\ (L = {}) <=> (G = N)
         /\ Cardinality(A) = IF G = 0 THEN 0 ELSE written[1].tick
         /\ Cardinality(B) = IF G = 0 THEN 0 ELSE written[G].tick + 1 - written[1].tick - G
    BY <2>5, <2>8, <2>9, PlacesCounted
  <2>11. Kept = K
    BY <2>9 DEF Kept, Own
  <2>12. Lost = L
    BY <2>9, <2>11 DEF Lost
  <2>13. \A j, k \in DOMAIN written : j < k => written[j].tick < written[k].tick
    BY <2>5 DEF Ordered
  <2> HIDE DEF K, L
  <2>14. tally.leading_lost = Cardinality(A) /\ tally.interior_lost = Cardinality(B)
    <3> HIDE DEF A, B
    <3>1. CASE G = 0 BY <2>8, <2>10, <3>1
    <3>2. CASE G > 0 BY <2>8, <2>10, <3>2
    <3> QED BY <2>9, <3>1, <3>2
  <2>15. verdict.delivery_complete = (L = {} /\ veh.records > 0)
    <3>1. verdict.delivery_complete <=> (L = {} /\ veh.records > 0)
      BY <2>3, <2>8, <2>9, <2>10
    <3>2. verdict.delivery_complete \in BOOLEAN BY <2>2 DEF check
    <3> QED BY <3>1, <3>2
  <2> QED
    BY <2>3, <2>8, <2>9, <2>10, <2>11, <2>12, <2>13, <2>14, <2>15 DEF VerdictIsTrue
<1> QED BY <1>1, GroundInvariant, PTL

\* Losses, repeats, overtaking and strangers alone never make the check refuse
\* a run (LossIsNotInvalid), whatever their number.
THEOREM LossNeverInvalid == Spec => []LossIsNotInvalid
<1>1. GroundInv => LossIsNotInvalid
  <2> SUFFICES ASSUME GroundInv,
                      verdict # NoVerdict, veh.exit = 0, veh.setup = "ok",
                      rcv.source # "other", rcv.counters["malformed"] = 0,
                      rcv.counters["write_failed_datagrams"] = 0, rcv.last_errno # "other",
                      code # 4, ~report.interrupted, ~truncated,
                      Len(files.vehicle) = veh.records, files.ground = written
               PROVE  verdict.valid
    BY DEF LossIsNotInvalid
  <2> DEFINE tally == match_streams(files.vehicle, files.ground)
             N == Len(files.vehicle)
             G == Len(written)
             c == rcv.counters
  <2>1. /\ digests # NoDigests
        /\ verdict = check(digests, files, veh, report, veh.exit, code)
    BY DEF GroundInv, Judged
  <2>2. report # NoReport /\ digests = files
    BY <2>1 DEF GroundInv, Hashed, Whole
  <2>3. /\ report.source = rcv.source /\ report.counters = c
        /\ report.last_errno = rcv.last_errno /\ report.shutdown_truncated = truncated
        /\ report.recording_sha256 = written
        /\ code \notin {0, 4} => Troubled
    BY <2>2 DEF GroundInv, Reported
  <2>4. veh.dropped = 0 /\ ~veh.write_failed
    BY DEF GroundInv, VehicleCounts
  <2>5. Complete(files.vehicle) /\ Ordered(written) /\ veh.records = veh.total_cycles
    BY <2>4, SoundFiles
  <2>6. /\ c["conflict"] = 0
        /\ \A k \in DOMAIN written :
               written[k].tick < veh.total_cycles /\ written[k] = Own(written[k].tick)
    BY <2>4 DEF GroundInv, InOrder
  <2>7. tally.ok /\ tally.vehicle_records = N /\ tally.ground_records = G /\ tally.ground_lost = N - G
    BY <2>5, <2>6, MatchMeans
  <2> HIDE DEF tally
  <2>8. code = 0
    <3>1. ~Troubled BY <2>6 DEF Troubled
    <3> QED BY <2>3, <3>1
  <2>9. VehicleSound(veh, veh.exit)
    BY <2>4 DEF GroundInv, VehicleCounts, VehicleSound
  <2>10. ReceiverSound(report, code)
    <3>1. c["received"] = c["foreign"] + c["malformed"] + c["duplicate"] + c["out_of_order"]
                          + c["conflict"] + c["recorded"] + c["write_failed_datagrams"]
      BY DEF GroundInv, ReceiverCounts
    <3>2. \/ c["socket_errors"] = 0 /\ report.last_errno = "none"
          \/ c["socket_errors"] > 0 /\ report.last_errno = "EINTR"
      <4>1. c["socket_errors"] \in Nat
        BY DEF GroundInv, ReceiverTyped, Counters
      <4>2. (c["socket_errors"] = 0) <=> (rcv.last_errno = "none")
        BY DEF GroundInv, ReceiverCounts
      <4>3. rcv.last_errno \in {"none", "EINTR"} BY DEF GroundInv, ReceiverTyped
      <4> QED BY <2>3, <4>1, <4>2, <4>3
    <3> HIDE DEF c
    <3>3. c["malformed"] = 0 /\ c["write_failed_datagrams"] = 0 BY DEF c
    <3> QED BY <2>3, <2>6, <2>8, <3>1, <3>2, <3>3 DEF ReceiverSound
  <2>11. Unaltered(digests, files, report)
    BY <2>2, <2>3 DEF Unaltered
  <2>12. c["recorded"] = G /\ G \in Nat /\ N = veh.total_cycles /\ N \in Nat
    BY <2>5 DEF GroundInv, ReceiverCounts, FilesTyped, VehicleTyped
  <2>13. (rcv.source = "none") <=> (G = 0)
    <3>1. rcv.source = "none" => written = <<>> BY DEF GroundInv, InOrder
    <3>2. rcv.source # "none" => c["recorded"] > 0 \/ c["write_failed_datagrams"] > 0
      BY DEF GroundInv, ReceiverCounts
    <3>3. rcv.source # "none" => G > 0 BY <2>12, <3>2
    <3> QED BY <3>1, <3>3
  <2>14. G <= veh.sent
    <3>1. CASE rcv.source = "none"
      BY <2>13, <3>1 DEF GroundInv, VehicleTyped
    <3>2. CASE rcv.source # "none"
      <4>1. rcv.source = "vehicle" BY <3>2 DEF GroundInv, ReceiverTyped
      <4> DEFINE D == 1 .. G
                 W == {written[k] : k \in D}
                 f == [k \in D |-> written[k]]
      <4>2. D = DOMAIN written BY DEF GroundInv, FilesTyped
      <4>3. W \in SUBSET Copies BY <4>1, <4>2 DEF Copies
      <4>4. f \in [D -> W] /\ \A w \in W : \E k \in D : f[k] = w OBVIOUS
      <4>5. ASSUME NEW j \in D, NEW k \in D, f[j] = f[k] PROVE j = k
        <5>1. written[j] = written[k] BY <4>5
        <5>2. \A i, l \in D : i < l => written[i].tick < written[l].tick
          BY <2>5, <4>2 DEF Ordered
        <5>3. written[j].tick \in Nat BY <2>5, <4>2 DEF Ordered
        <5>4. ~(j < k) /\ ~(k < j) BY <5>1, <5>2, <5>3
        <5> QED BY <2>12, <5>4
      <4>6. f \in Bijection(D, W)
        <5> HIDE DEF W
        <5>1. f \in Injection(D, W) BY <4>4, <4>5 DEF Injection, IsInjective
        <5>2. f \in Surjection(D, W) BY <4>4 DEF Surjection
        <5> QED BY <5>1, <5>2 DEF Bijection
      <4>7. IsFiniteSet(Copies) /\ Cardinality(Copies) <= veh.sent
        BY DEF GroundInv, CopiesSent
      <4>8. Cardinality(W) = G
        <5>1. ExistsBijection(1 .. G, W) BY <4>6 DEF ExistsBijection
        <5> HIDE DEF W, G
        <5> QED BY <2>12, <5>1, FS_CountingElements
      <4>9. Cardinality(W) <= Cardinality(Copies) /\ Cardinality(Copies) \in Nat
        <5> HIDE DEF W
        <5> QED BY <4>3, <4>7, FS_Subset, FS_CardinalityType
      <4>10. veh.sent \in Nat BY DEF GroundInv, VehicleTyped
      <4> HIDE DEF G, W
      <4> QED BY <2>12, <4>7, <4>8, <4>9, <4>10
    <3> QED BY <3>1, <3>2
  <2>15. Populations(veh, report, tally)
    <3>1. /\ veh.attempted = veh.sent + veh.send_errors
          /\ veh.attempted = N
          /\ veh.sent \in Nat /\ veh.send_errors \in Nat
      BY <2>4, <2>12 DEF GroundInv, VehicleCounts, VehicleTyped
    <3> HIDE DEF N, G
    <3>2. tally.vehicle_records = veh.records /\ tally.vehicle_records = veh.total_cycles
      BY <2>5, <2>7, <2>12 DEF N
    <3>3. tally.ground_records = report.counters["recorded"] BY <2>3, <2>7, <2>12
    <3>4. (report.source = "none") = (tally.ground_records = 0) BY <2>3, <2>7, <2>13
    <3>5. /\ tally.ground_records <= veh.sent /\ veh.send_errors <= tally.ground_lost
          /\ tally.vehicle_records = tally.ground_records + tally.ground_lost
          /\ tally.ground_lost = veh.send_errors + veh.sent - tally.ground_records
      BY <2>7, <2>12, <2>14, <3>1
    <3> QED BY <2>7, <3>1, <3>2, <3>3, <3>4, <3>5 DEF Populations
  <2> QED BY <2>1, <2>7, <2>9, <2>10, <2>11, <2>15 DEF check, tally
<1> QED BY <1>1, GroundInvariant, PTL
=============================================================================
