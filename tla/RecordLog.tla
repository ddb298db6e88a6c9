----------------------------- MODULE RecordLog -----------------------------
(***************************************************************************)
(* What the telemetry path promises its producer, with the ring, its       *)
(* indices and the two threads' steps hidden: a bounded log.  Entries are  *)
(* accepted at one end and delivered in order at the other; after stop it  *)
(* accepts nothing, delivers what it holds and closes.                     *)
(***************************************************************************)
EXTENDS Naturals, Sequences

CONSTANTS Capacity, Entries

VARIABLES accepted,   \* every entry accepted, in order
          delivered,  \* how many of them have been delivered
          stopped, closed

log == <<accepted, delivered, stopped, closed>>

Init == accepted = <<>> /\ delivered = 0 /\ stopped = FALSE /\ closed = FALSE

Accept ==
    /\ ~stopped
    /\ Len(accepted) - delivered < Capacity
    /\ \E e \in Entries : accepted' = Append(accepted, e)
    /\ UNCHANGED <<delivered, stopped, closed>>

Deliver ==
    /\ ~closed
    /\ delivered < Len(accepted)
    /\ delivered' = delivered + 1
    /\ UNCHANGED <<accepted, stopped, closed>>

Stop == ~stopped /\ stopped' = TRUE /\ UNCHANGED <<accepted, delivered, closed>>

Close ==
    /\ stopped /\ ~closed
    /\ delivered = Len(accepted)
    /\ closed' = TRUE
    /\ UNCHANGED <<accepted, delivered, stopped>>

Next == Accept \/ Deliver \/ Stop \/ Close

\* Only a stopped log must deliver: until then an idle consumer may go on
\* seeing an old head of the ring.
Spec == Init /\ [][Next]_log /\ WF_log(stopped /\ Deliver) /\ WF_log(Close)
=============================================================================
