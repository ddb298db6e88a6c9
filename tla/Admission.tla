----------------------------- MODULE Admission -----------------------------
(***************************************************************************)
(* freerun::Admission (src/freerun_admission.cpp): what the free-running   *)
(* vehicle makes of the samples that reach it.  A cycle is opened for an   *)
(* expected tick, receives a few datagrams and is finished; the newest     *)
(* usable sample is held, samples from the near future are parked until    *)
(* their tick, and the first terminal envelope due is latched.             *)
(*                                                                         *)
(* future_ is the set of the frames its slots hold: a frame's slot is its  *)
(* tick's distance from the expected tick.  A frame's bytes are abstracted *)
(* to its tick, what its flags and floats say of it, and the rest (body).  *)
(***************************************************************************)
EXTENDS Integers, FiniteSets

CONSTANTS SkewMax,   \* skew_max_: how far ahead a frame may be, 4 in the code
          MaxSkew,   \* kMaxSkew: the slots of future_, 64 (and one more)
          RxMax,     \* datagrams of one batch, 8
          Warmup     \* cycles before the recorded window

ASSUME AdmissionAssumption ==
    /\ SkewMax \in Nat /\ MaxSkew \in Nat
    /\ RxMax \in Nat \ {0} /\ Warmup \in Nat

\* use is "valid", "invalid" (the flag is clear) or "nonfinite"; reason is
\* "none" for a sample and the flagged reason for a terminal envelope.
NoFrame == [tick |-> -1, use |-> "none", reason |-> "none", body |-> "none"]
IsTerminal(f) == f.reason # "none"

\* Frames that do not decode, or were truncated.
Malformed == [NoFrame EXCEPT !.use = "malformed"]

CountFields == {"received", "consumed", "old", "superseded", "nonfinite", "skew_excess",
                "duplicate", "conflict", "invalid", "future_expired", "malformed"}
TerminalFields == {"received_raw", "duplicate", "conflict", "skew_excess", "future_expired",
                   "illegal_reason"}
Zero(fields) == [k \in fields |-> 0]

\* AdmissionCounts::add, dispositions and closes; malformed stands for the
\* five bad_* counters.
Add(c, d) == [k \in DOMAIN c |-> c[k] + d[k]]
Dispositions(c) ==
    c["consumed"] + c["old"] + c["superseded"] + c["nonfinite"] + c["skew_excess"]
    + c["duplicate"] + c["conflict"] + c["invalid"] + c["future_expired"]
Closes(c, initial, final) == c["received"] + initial = Dispositions(c) + final

\* A newly constructed Admission; -1 is an occupancy not yet taken.
NewAdmission(tick_base) ==
    [tick_base |-> tick_base, cycles |-> 0, expected |-> 0, open |-> FALSE,
     integrity |-> SkewMax > MaxSkew, future |-> {}, last_normal_tick |-> -1,
     newest |-> NoFrame, due |-> NoFrame, candidate |-> NoFrame, held |-> NoFrame,
     latch |-> NoFrame, terminal_candidate |-> NoFrame, terminal_seen |-> {},
     terminal_seen_count |-> 0, rx_count |-> 0, discard_count |-> 0, fresh |-> FALSE,
     counts |-> Zero(CountFields), episode |-> Zero(CountFields),
     recorded |-> Zero(CountFields), terminals |-> Zero(TerminalFields),
     warmup_occupancy |-> -1]

ParkedIn(future) == Cardinality({f \in future : ~IsTerminal(f)})
future_parked(a) == ParkedIn(a.future)

-----------------------------------------------------------------------------
Count(a, field) == [a EXCEPT !.counts[field] = @ + 1]
CountTerminal(a, field) == [a EXCEPT !.terminals[field] = @ + 1]
Fail(a) == [a EXCEPT !.integrity = TRUE]

\* discard: the list has room for a batch and the carried datagram.
discard(a) ==
    IF a.discard_count = RxMax + 1 THEN Fail(a)
    ELSE [a EXCEPT !.discard_count = @ + 1]

\* Mutants: a superseded frame is not counted; the first frame is kept.
candidateUncounted(a, f) ==
    IF a.candidate = NoFrame THEN [a EXCEPT !.candidate = f]
    ELSE [discard(a) EXCEPT !.candidate = IF f.tick > @.tick THEN f ELSE @]
candidateFirst(a, f) ==
    IF a.candidate = NoFrame THEN [a EXCEPT !.candidate = f]
    ELSE discard(Count(a, "superseded"))

\* candidate: the frame with the greatest tick so far is kept.
candidate(a, f) ==
    IF a.candidate = NoFrame THEN [a EXCEPT !.candidate = f]
    ELSE [discard(Count(a, "superseded")) EXCEPT
             !.candidate = IF f.tick > @.tick THEN f ELSE @]

Legal == {"horizon", "angle", "nonfinite"}

\* Mutant: an envelope of the expected tick is not taken.
terminalLate(a, f) ==
    IF a.latch = NoFrame /\ f.tick < a.expected
    THEN [a EXCEPT !.terminal_candidate = f] ELSE a

\* terminal: an illegal reason is counted, and a candidate all the same.
terminal(a, f) ==
    LET seen == IF f.reason \in Legal THEN a ELSE Fail(CountTerminal(a, "illegal_reason"))
    IN  IF a.latch = NoFrame /\ (a.terminal_candidate = NoFrame
                                 \/ f.tick > a.terminal_candidate.tick)
        THEN [seen EXCEPT !.terminal_candidate = f] ELSE seen

\* begin_cycle: refused while a cycle is open or for a tick that does not
\* advance; after a gap the parked frames it jumps over expire.
MayBegin(a, expected) ==
    /\ SkewMax <= MaxSkew /\ ~a.open
    /\ IF a.cycles = 0 THEN expected = a.tick_base ELSE expected > a.expected

Expired(a, expected) == {f \in a.future : f.tick < expected \/ f.tick - expected > SkewMax}
Due(a, expected) == {f \in a.future : f.tick = expected}

begin_cycle(a, expected) ==
    LET gone == Expired(a, expected)
        due == IF Due(a, expected) = {} THEN NoFrame ELSE CHOOSE f \in Due(a, expected) : TRUE
        opened == [a EXCEPT
            !.integrity = @ \/ gone # {} \/ (a.cycles # 0 /\ expected # a.expected + 1),
            !.warmup_occupancy = IF a.cycles = Warmup THEN future_parked(a) ELSE @,
            !.expected = expected, !.open = TRUE, !.fresh = FALSE, !.rx_count = 0,
            !.discard_count = 0,
            !.counts = [Zero(CountFields) EXCEPT !["future_expired"] = ParkedIn(gone)],
            !.terminals["future_expired"] = @ + Cardinality({f \in gone : IsTerminal(f)}),
            !.candidate = NoFrame, !.due = due, !.terminal_candidate = NoFrame,
            !.terminal_seen = {}, !.terminal_seen_count = 0,
            !.future = {f \in @ : f.tick > expected} \ gone]
    IN  IF ~MayBegin(a, expected) THEN Fail(a)
        ELSE IF due = NoFrame THEN opened
        ELSE IF IsTerminal(due) THEN terminal(opened, due) ELSE candidate(opened, due)

\* remember: newest_received_ is the first frame of the greatest tick.
remember(a, f) == IF f.tick > a.newest.tick THEN [a EXCEPT !.newest = f] ELSE a

\* identity: the frame of the same tick still known, or NoFrame.
identity(a, f) ==
    LET parked == {g \in a.future : g.tick = f.tick}
        seen == {g \in a.terminal_seen : g.tick = f.tick}
    IN  IF a.newest.tick = f.tick THEN a.newest
        ELSE IF a.due.tick = f.tick THEN a.due
        ELSE IF parked # {} THEN CHOOSE g \in parked : TRUE
        ELSE IF a.terminal_candidate.tick = f.tick THEN a.terminal_candidate
        ELSE IF a.latch.tick = f.tick THEN a.latch
        ELSE IF seen # {} THEN CHOOSE g \in seen : TRUE
        ELSE IF IsTerminal(f) /\ a.candidate.tick = f.tick THEN a.candidate
        ELSE NoFrame

\* Mutant: an envelope is entered twice.
SeeTwice(a, f) == [a EXCEPT !.terminal_seen = @ \union {f}, !.terminal_seen_count = @ + 2]

\* A write to terminal_seen_, which is not checked against its size.
See(a, f) == [a EXCEPT !.terminal_seen = @ \union {f}, !.terminal_seen_count = @ + 1]

CountEither(a, f, field) ==
    IF IsTerminal(f) THEN CountTerminal(a, field) ELSE Count(a, field)

\* A frame of a known tick: a duplicate when its bytes are the same.
Known(a, f, prior) ==
    IF prior # f THEN Fail(CountEither(a, f, "conflict"))
    ELSE LET counted == CountEither(a, f, "duplicate")
         IN  IF ~IsTerminal(f) THEN counted
             ELSE IF f.tick <= a.expected THEN terminal(See(counted, f), f)
             ELSE See(counted, f)

Park(a, f) == [a EXCEPT !.future = {g \in @ : g.tick # f.tick} \union {f}]

\* Mutant: a sample from the near future is taken at once.
NewTakesFuture(a, f) ==
    LET seen == remember(IF IsTerminal(f) THEN See(a, f) ELSE a, f)
    IN  IF IsTerminal(f) THEN terminal(seen, f)
        ELSE IF f.tick <= a.held.tick THEN discard(Count(seen, "old"))
        ELSE IF f.tick - a.expected <= SkewMax THEN candidate(seen, f)
        ELSE Fail(discard(Count(seen, "skew_excess")))

\* A frame of a new tick: old, current, parked or too far ahead.
New(a, f) ==
    LET seen == remember(IF IsTerminal(f) THEN See(a, f) ELSE a, f)
    IN  IF ~IsTerminal(f) /\ f.tick <= a.held.tick THEN discard(Count(seen, "old"))
        ELSE IF f.tick <= a.expected
        THEN IF IsTerminal(f) THEN terminal(seen, f) ELSE candidate(seen, f)
        ELSE IF f.tick - a.expected <= SkewMax THEN Park(seen, f)
        ELSE IF IsTerminal(f) THEN Fail(CountTerminal(seen, "skew_excess"))
        ELSE Fail(discard(Count(seen, "skew_excess")))

\* The datagrams one cycle may take: in cycle zero the carried one as well.
RxLimit(a) == IF a.cycles = 0 THEN RxMax + 1 ELSE RxMax

receive(a, f) ==
    LET taken == [a EXCEPT !.rx_count = @ + 1]
        counted == IF IsTerminal(f) THEN CountTerminal(taken, "received_raw")
                   ELSE [Count(taken, "received") EXCEPT
                            !.last_normal_tick = IF f.tick > @ THEN f.tick ELSE @]
        prior == identity(a, f)
    IN  IF ~a.open \/ a.rx_count >= RxLimit(a) THEN Fail(a)
        ELSE IF f = Malformed THEN Fail(Count(taken, "malformed"))
        ELSE IF ~IsTerminal(f) /\ f.use = "nonfinite"
        THEN remember(discard(Count(counted, "nonfinite")), f)
        ELSE IF prior # NoFrame THEN Known(counted, f, prior)
        ELSE New(counted, f)

\* finish_cycle: the candidate is consumed or invalid, the terminal latched,
\* the cycle's counts added.  Nothing happens when no cycle is open.
finish_cycle(a) ==
    LET fresh == a.candidate # NoFrame /\ a.candidate.use = "valid"
        counts == IF a.candidate = NoFrame THEN a.counts
                  ELSE [a.counts EXCEPT ![IF fresh THEN "consumed" ELSE "invalid"] = @ + 1]
    IN  IF ~a.open THEN a
        ELSE [a EXCEPT
                !.open = FALSE, !.cycles = @ + 1, !.fresh = fresh, !.counts = counts,
                !.held = IF fresh THEN a.candidate ELSE @,
                !.latch = IF @ = NoFrame THEN a.terminal_candidate ELSE @,
                !.episode = Add(@, counts),
                !.recorded = IF a.cycles >= Warmup THEN Add(@, counts) ELSE @]

\* The age of the held sample, of a finished cycle; of the run when none is held.
staleness(a) == IF a.held = NoFrame THEN a.cycles ELSE a.expected - a.held.tick

identities_hold(a) ==
    /\ ~a.open /\ Closes(a.episode, 0, future_parked(a))
    /\ a.cycles <= Warmup \/ Closes(a.recorded, a.warmup_occupancy, future_parked(a))
=============================================================================
