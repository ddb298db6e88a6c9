----------------------- MODULE AdmissionCyclesProofs -----------------------
(***************************************************************************)
(* The invariants of AdmissionCycles hold for every skew limit, batch      *)
(* size, warm-up and set of frames.  First what each helper of Admission   *)
(* does to the fields the invariants speak of, then what one datagram may  *)
(* do (ReceiveFacts), then the inductive invariant, part by part.          *)
(*                                                                         *)
(* After the theorems come the facts about the operators of a free run     *)
(* that FreerunProofs rests on: what a whole cycle of the vehicle does     *)
(* with the frames of a sound simulator (CycleFacts), what a pass of the   *)
(* simulator does with the replies it takes (SimReceiveFacts), the first   *)
(* part of Freerun's invariant (Core) and what the vehicle's operations do *)
(* to it, and how counts and sums over the recording grow with a record.   *)
(***************************************************************************)
EXTENDS AdmissionCycles, Freerun, FiniteSetTheorems, WellFoundedInduction, TLAPS

\* Frames of AdmissionCycles, and those the simulator sends.
Datagrams ==
    [tick : Nat, use : Uses \union {"valid"},
     reason : {"none"} \union EnvelopeReasons \union Legal, body : Bodies \union Truths]
MaybeFrame == Datagrams \union {NoFrame}

AdmissionType ==
    [tick_base : Nat, cycles : Nat, expected : Int, open : BOOLEAN,
     integrity : BOOLEAN, future : SUBSET Datagrams, last_normal_tick : Int,
     newest : MaybeFrame, due : MaybeFrame, candidate : MaybeFrame, held : MaybeFrame,
     latch : MaybeFrame, terminal_candidate : MaybeFrame, terminal_seen : SUBSET Datagrams,
     terminal_seen_count : Nat, rx_count : Nat, discard_count : Nat, fresh : BOOLEAN,
     counts : [CountFields -> Nat], episode : [CountFields -> Nat],
     recorded : [CountFields -> Nat], terminals : [TerminalFields -> Nat],
     warmup_occupancy : Int]

\* What no datagram changes; an integrity failure stands.
Fixed(a, z) ==
    /\ z.tick_base = a.tick_base /\ z.cycles = a.cycles /\ z.expected = a.expected
    /\ z.open = a.open /\ z.due = a.due /\ z.held = a.held /\ z.latch = a.latch
    /\ z.episode = a.episode /\ z.recorded = a.recorded
    /\ z.warmup_occupancy = a.warmup_occupancy
    /\ a.integrity => z.integrity

SameFrames(a, z) ==
    /\ z.future = a.future /\ z.newest = a.newest /\ z.candidate = a.candidate
    /\ z.terminal_candidate = a.terminal_candidate /\ z.terminal_seen = a.terminal_seen

SameBuffers(a, z) ==
    /\ z.rx_count = a.rx_count /\ z.discard_count = a.discard_count
    /\ z.terminal_seen_count = a.terminal_seen_count

SameCounts(a, z) == z.counts = a.counts /\ z.terminals = a.terminals

-----------------------------------------------------------------------------
\* A frame has a tick; NoFrame and a malformed datagram have none.
LEMMA FrameFacts ==
  /\ \A f \in Datagrams : f.tick \in Nat /\ f # NoFrame /\ f # Malformed
  /\ \A f \in MaybeFrame : f.tick \in Int /\ f.tick >= -1 /\ (f.tick = -1 <=> f = NoFrame)
  /\ NoFrame.tick = -1 /\ NoFrame \notin Datagrams /\ ~IsTerminal(NoFrame)
  /\ Malformed.tick = -1 /\ ~IsTerminal(Malformed) /\ Malformed.use = "malformed"
  BY DEF Datagrams, NoFrame, Malformed, MaybeFrame, IsTerminal

\* Samples received and not yet disposed of.
Balance(c) == c["received"] - Dispositions(c)

\* One sample received adds one to the balance and one disposed of takes one;
\* a malformed datagram is neither.
LEMMA BalanceFacts ==
  ASSUME NEW c \in [CountFields -> Nat], NEW q \in CountFields,
         NEW d, d = [c EXCEPT ![q] = @ + 1]
  PROVE  /\ Balance(c) \in Int
         /\ Balance(d) = Balance(c)
              + (IF q = "received" THEN 1 ELSE IF q = "malformed" THEN 0 ELSE -1)
<1>1. \A i \in CountFields : c[i] \in Nat /\ d[i] = IF i = q THEN c[i] + 1 ELSE c[i]
  OBVIOUS
<1>2. Balance(c) \in Int
  BY <1>1 DEF Balance, Dispositions, CountFields
<1>3. CASE q = "received"
  <2>1. \A i \in CountFields \ {"received"} : d[i] = c[i]
    BY <1>1, <1>3
  <2>2. Dispositions(d) = Dispositions(c)
    BY <2>1 DEF Dispositions, CountFields
  <2>3. d["received"] = c["received"] + 1 /\ c["received"] \in Nat /\ Dispositions(c) \in Nat
    BY <1>1, <1>3 DEF CountFields, Dispositions
  <2> QED
    BY <1>2, <1>3, <2>2, <2>3 DEF Balance
<1>4. CASE q = "malformed"
  BY <1>1, <1>4 DEF Balance, Dispositions, CountFields
<1>5. CASE q \notin {"received", "malformed"}
  BY <1>1, <1>5 DEF Balance, Dispositions, CountFields
<1> QED
  BY <1>2, <1>3, <1>4, <1>5

\* The balance is a number.
LEMMA BalanceType ==
  ASSUME NEW c \in [CountFields -> Nat]
  PROVE  Balance(c) \in Int /\ c["received"] \in Nat /\ Dispositions(c) \in Nat
<1>1. \A i \in CountFields : c[i] \in Nat
  OBVIOUS
<1> QED
  BY <1>1 DEF Balance, Dispositions, CountFields

\* Count adds one to a counter of the cycle and changes nothing else.
LEMMA CountFacts ==
  ASSUME NEW a \in AdmissionType, NEW q \in CountFields
  PROVE  LET z == Count(a, q) IN
         /\ z \in AdmissionType /\ Fixed(a, z) /\ SameFrames(a, z) /\ SameBuffers(a, z)
         /\ z.terminals = a.terminals /\ z.counts = [a.counts EXCEPT ![q] = @ + 1]
         /\ Balance(z.counts) = Balance(a.counts)
              + (IF q = "received" THEN 1 ELSE IF q = "malformed" THEN 0 ELSE -1)
<1> DEFINE z == Count(a, q)
<1>1. /\ z \in AdmissionType /\ Fixed(a, z) /\ SameFrames(a, z) /\ SameBuffers(a, z)
      /\ z.terminals = a.terminals /\ z.counts = [a.counts EXCEPT ![q] = @ + 1]
  BY DEF Count, AdmissionType, Fixed, SameFrames, SameBuffers
<1>2. a.counts \in [CountFields -> Nat]
  BY DEF AdmissionType
<1> HIDE DEF z
<1>3. Balance(z.counts) = Balance(a.counts)
              + (IF q = "received" THEN 1 ELSE IF q = "malformed" THEN 0 ELSE -1)
  BY <1>1, <1>2, BalanceFacts
<1> QED
  BY <1>1, <1>3 DEF z

\* CountTerminal adds one to a counter of terminal envelopes and changes nothing else.
LEMMA CountTerminalFacts ==
  ASSUME NEW a \in AdmissionType, NEW q \in TerminalFields
  PROVE  LET z == CountTerminal(a, q) IN
         /\ z \in AdmissionType /\ Fixed(a, z) /\ SameFrames(a, z) /\ SameBuffers(a, z)
         /\ z.counts = a.counts /\ z.terminals = [a.terminals EXCEPT ![q] = @ + 1]
  BY DEF CountTerminal, AdmissionType, Fixed, SameFrames, SameBuffers

\* Fail latches the integrity failure and changes nothing else.
LEMMA FailFacts ==
  ASSUME NEW a \in AdmissionType
  PROVE  LET z == Fail(a) IN
         /\ z \in AdmissionType /\ Fixed(a, z) /\ SameFrames(a, z) /\ SameBuffers(a, z)
         /\ SameCounts(a, z) /\ z.integrity
  BY DEF Fail, AdmissionType, Fixed, SameFrames, SameBuffers, SameCounts

\* discard enters at most one datagram.
LEMMA DiscardFacts ==
  ASSUME NEW a \in AdmissionType
  PROVE  LET z == discard(a) IN
         /\ z \in AdmissionType /\ Fixed(a, z) /\ SameFrames(a, z) /\ SameCounts(a, z)
         /\ z.rx_count = a.rx_count /\ z.terminal_seen_count = a.terminal_seen_count
         /\ z.discard_count <= a.discard_count + 1
<1> DEFINE d == [a EXCEPT !.discard_count = @ + 1]
<1>1. /\ d \in AdmissionType /\ Fixed(a, d) /\ SameFrames(a, d) /\ SameCounts(a, d)
      /\ d.rx_count = a.rx_count /\ d.terminal_seen_count = a.terminal_seen_count
      /\ d.discard_count = a.discard_count + 1
  BY DEF AdmissionType, Fixed, SameFrames, SameCounts
<1>2. a.discard_count \in Nat
  BY DEF AdmissionType
<1>3. CASE a.discard_count = RxMax + 1
  BY <1>2, <1>3, FailFacts DEF discard, SameBuffers
<1>4. CASE a.discard_count # RxMax + 1
  BY <1>1, <1>2, <1>4 DEF discard
<1> QED
  BY <1>3, <1>4

\* A sample counted for a disposal leaves the balance.
LEMMA SpendFacts ==
  ASSUME NEW a \in AdmissionType, NEW q \in CountFields \ {"received", "malformed"}
  PROVE  LET z == Count(a, q) IN
         /\ z \in AdmissionType /\ Fixed(a, z) /\ SameFrames(a, z) /\ SameBuffers(a, z)
         /\ z.terminals = a.terminals /\ Balance(z.counts) = Balance(a.counts) - 1
<1> DEFINE c == Count(a, q)
<1>1. /\ c \in AdmissionType /\ Fixed(a, c) /\ SameFrames(a, c) /\ SameBuffers(a, c)
      /\ c.terminals = a.terminals /\ Balance(c.counts) = Balance(a.counts) + (-1)
  BY CountFacts
<1>2. Balance(a.counts) \in Int
  BY BalanceType DEF AdmissionType
<1> HIDE DEF c
<1> QED
  BY <1>1, <1>2 DEF c

\* A sample counted for a disposal and entered in the discards leaves the balance.
LEMMA DisposeFacts ==
  ASSUME NEW a \in AdmissionType, NEW q \in CountFields \ {"received", "malformed"}
  PROVE  LET z == discard(Count(a, q)) IN
         /\ z \in AdmissionType /\ Fixed(a, z) /\ SameFrames(a, z)
         /\ z.terminals = a.terminals /\ Balance(z.counts) = Balance(a.counts) - 1
         /\ z.rx_count = a.rx_count /\ z.terminal_seen_count = a.terminal_seen_count
         /\ z.discard_count <= a.discard_count + 1
<1> DEFINE c == Count(a, q)
           d == discard(c)
<1>1. /\ c \in AdmissionType /\ Fixed(a, c) /\ SameFrames(a, c) /\ SameBuffers(a, c)
      /\ c.terminals = a.terminals /\ Balance(c.counts) = Balance(a.counts) - 1
  BY SpendFacts
<1> HIDE DEF c
<1>3. /\ d \in AdmissionType /\ Fixed(c, d) /\ SameFrames(c, d) /\ SameCounts(c, d)
      /\ d.rx_count = c.rx_count /\ d.terminal_seen_count = c.terminal_seen_count
      /\ d.discard_count <= c.discard_count + 1
  BY <1>1, DiscardFacts
<1> HIDE DEF d
<1>4. Balance(d.counts) = Balance(a.counts) - 1
  BY <1>1, <1>3 DEF SameCounts
<1>5. Fixed(a, d) /\ SameFrames(a, d)
  BY <1>1, <1>3 DEF Fixed, SameFrames
<1>6. d.rx_count = a.rx_count /\ d.discard_count <= a.discard_count + 1
  BY <1>1, <1>3 DEF SameBuffers
<1> QED
  BY <1>1, <1>3, <1>4, <1>5, <1>6 DEF SameBuffers, SameCounts, c, d

\* remember keeps the frame of the greatest tick.
LEMMA RememberFacts ==
  ASSUME NEW a \in AdmissionType, NEW f \in Datagrams
  PROVE  LET z == remember(a, f) IN
         /\ z \in AdmissionType /\ Fixed(a, z) /\ SameBuffers(a, z) /\ SameCounts(a, z)
         /\ z.future = a.future /\ z.candidate = a.candidate
         /\ z.terminal_candidate = a.terminal_candidate /\ z.terminal_seen = a.terminal_seen
         /\ z.newest = IF f.tick > a.newest.tick THEN f ELSE a.newest
<1> DEFINE n == [a EXCEPT !.newest = f]
<1>1. /\ n \in AdmissionType /\ Fixed(a, n) /\ SameBuffers(a, n) /\ SameCounts(a, n)
      /\ n.future = a.future /\ n.candidate = a.candidate
      /\ n.terminal_candidate = a.terminal_candidate /\ n.terminal_seen = a.terminal_seen
      /\ n.newest = f
  BY DEF AdmissionType, MaybeFrame, Fixed, SameBuffers, SameCounts
<1> QED
  BY <1>1 DEF remember, Fixed, SameBuffers, SameCounts

\* See enters one envelope.
LEMMA SeeFacts ==
  ASSUME NEW a \in AdmissionType, NEW f \in Datagrams
  PROVE  LET z == See(a, f) IN
         /\ z \in AdmissionType /\ Fixed(a, z) /\ SameCounts(a, z)
         /\ z.future = a.future /\ z.candidate = a.candidate /\ z.newest = a.newest
         /\ z.terminal_candidate = a.terminal_candidate
         /\ z.terminal_seen = a.terminal_seen \union {f}
         /\ z.rx_count = a.rx_count /\ z.discard_count = a.discard_count
         /\ z.terminal_seen_count = a.terminal_seen_count + 1
<1> DEFINE T == a.terminal_seen \union {f}
           n == a.terminal_seen_count + 1
<1>1. T \in SUBSET Datagrams /\ n \in Nat
  BY DEF AdmissionType
<1>2. See(a, f) = [a EXCEPT !.terminal_seen = T, !.terminal_seen_count = n]
  BY DEF See
<1> HIDE DEF T, n
<1>3. [a EXCEPT !.terminal_seen = T, !.terminal_seen_count = n] \in AdmissionType
  BY <1>1 DEF AdmissionType
<1> QED
  BY <1>2, <1>3 DEF AdmissionType, Fixed, SameCounts, T, n

\* Park puts the frame into its slot.
LEMMA ParkFacts ==
  ASSUME NEW a \in AdmissionType, NEW f \in Datagrams
  PROVE  LET z == Park(a, f) IN
         /\ z \in AdmissionType /\ Fixed(a, z) /\ SameCounts(a, z) /\ SameBuffers(a, z)
         /\ z.future = {g \in a.future : g.tick # f.tick} \union {f}
         /\ z.candidate = a.candidate /\ z.newest = a.newest
         /\ z.terminal_candidate = a.terminal_candidate /\ z.terminal_seen = a.terminal_seen
  BY DEF Park, AdmissionType, Fixed, SameCounts, SameBuffers

\* candidate keeps the frame of the greatest tick; the other is superseded.
LEMMA CandidateFacts ==
  ASSUME NEW a \in AdmissionType, NEW f \in Datagrams
  PROVE  LET z == candidate(a, f) IN
         /\ z \in AdmissionType /\ Fixed(a, z)
         /\ z.future = a.future /\ z.newest = a.newest
         /\ z.terminal_candidate = a.terminal_candidate /\ z.terminal_seen = a.terminal_seen
         /\ z.rx_count = a.rx_count /\ z.terminal_seen_count = a.terminal_seen_count
         /\ z.discard_count <= a.discard_count + 1 /\ z.terminals = a.terminals
         /\ a.candidate = NoFrame =>
                z.candidate = f /\ z.counts = a.counts /\ z.discard_count = a.discard_count
         /\ a.candidate # NoFrame =>
                /\ z.candidate = IF f.tick > a.candidate.tick THEN f ELSE a.candidate
                /\ Balance(z.counts) = Balance(a.counts) - 1
<1>1. CASE a.candidate = NoFrame
  <2>1. candidate(a, f) = [a EXCEPT !.candidate = f] /\ a.discard_count \in Nat
    BY <1>1 DEF candidate, AdmissionType
  <2> QED
    BY <1>1, <2>1 DEF AdmissionType, MaybeFrame, Fixed
<1>2. CASE a.candidate # NoFrame
  <2> DEFINE d == discard(Count(a, "superseded"))
             best == IF f.tick > d.candidate.tick THEN f ELSE d.candidate
  <2>1. "superseded" \in CountFields \ {"received", "malformed"}
    BY DEF CountFields
  <2>3. /\ d \in AdmissionType /\ Fixed(a, d) /\ SameFrames(a, d)
        /\ d.terminals = a.terminals /\ Balance(d.counts) = Balance(a.counts) - 1
        /\ d.rx_count = a.rx_count /\ d.terminal_seen_count = a.terminal_seen_count
        /\ d.discard_count <= a.discard_count + 1
    BY <2>1, DisposeFacts
  <2> HIDE DEF d
  <2>4. best \in MaybeFrame
    BY <2>3 DEF AdmissionType, MaybeFrame
  <2>5. candidate(a, f) = [d EXCEPT !.candidate = best]
    BY <1>2 DEF candidate, d
  <2>6. best = IF f.tick > a.candidate.tick THEN f ELSE a.candidate
    BY <2>3 DEF SameFrames
  <2> HIDE DEF best
  <2>7. [d EXCEPT !.candidate = best] \in AdmissionType
    BY <2>3, <2>4 DEF AdmissionType
  <2>8. Fixed(a, [d EXCEPT !.candidate = best])
    BY <2>3 DEF AdmissionType, Fixed
  <2> QED
    BY <1>2, <2>3, <2>5, <2>6, <2>7, <2>8
       DEF AdmissionType, SameFrames
<1> QED
  BY <1>1, <1>2

\* terminal takes an envelope as the cycle's candidate unless one is latched or
\* the candidate is as new.
LEMMA TerminalFacts ==
  ASSUME NEW a \in AdmissionType, NEW f \in Datagrams
  PROVE  LET z == terminal(a, f) IN
         /\ z \in AdmissionType /\ Fixed(a, z) /\ SameBuffers(a, z) /\ z.counts = a.counts
         /\ z.future = a.future /\ z.newest = a.newest /\ z.candidate = a.candidate
         /\ z.terminal_seen = a.terminal_seen
         /\ z.terminals["received_raw"] = a.terminals["received_raw"]
         /\ z.terminal_candidate =
              IF a.latch = NoFrame /\ (a.terminal_candidate = NoFrame
                                       \/ f.tick > a.terminal_candidate.tick)
              THEN f ELSE a.terminal_candidate
<1> DEFINE c == CountTerminal(a, "illegal_reason")
           s == IF f.reason \in Legal THEN a ELSE Fail(c)
           t == [s EXCEPT !.terminal_candidate = f]
<1>1. "illegal_reason" \in TerminalFields /\ "received_raw" \in TerminalFields
  BY DEF TerminalFields
<1>2. /\ c \in AdmissionType /\ Fixed(a, c) /\ SameFrames(a, c) /\ SameBuffers(a, c)
      /\ c.counts = a.counts /\ c.terminals = [a.terminals EXCEPT !["illegal_reason"] = @ + 1]
  BY <1>1, CountTerminalFacts
<1>3. a.terminals \in [TerminalFields -> Nat]
  BY DEF AdmissionType
<1>4. c.terminals["received_raw"] = a.terminals["received_raw"]
  BY <1>1, <1>2, <1>3
<1> HIDE DEF c
<1>5. /\ Fail(c) \in AdmissionType /\ Fixed(c, Fail(c)) /\ SameFrames(c, Fail(c))
      /\ SameBuffers(c, Fail(c)) /\ SameCounts(c, Fail(c))
  BY <1>2, FailFacts
<1>6. /\ s \in AdmissionType /\ Fixed(a, s) /\ SameFrames(a, s) /\ SameBuffers(a, s)
      /\ s.counts = a.counts /\ s.terminals["received_raw"] = a.terminals["received_raw"]
  BY <1>2, <1>4, <1>5 DEF Fixed, SameFrames, SameBuffers, SameCounts
<1>7. terminal(a, f) = IF a.latch = NoFrame /\ (a.terminal_candidate = NoFrame
                                       \/ f.tick > a.terminal_candidate.tick)
                       THEN t ELSE s
  BY DEF terminal, s, c, t
<1> HIDE DEF s
<1>8. /\ t \in AdmissionType /\ Fixed(s, t) /\ SameBuffers(s, t) /\ t.counts = s.counts
      /\ t.future = s.future /\ t.newest = s.newest /\ t.candidate = s.candidate
      /\ t.terminal_seen = s.terminal_seen /\ t.terminals = s.terminals
      /\ t.terminal_candidate = f
  BY <1>6 DEF AdmissionType, MaybeFrame, Fixed, SameBuffers
<1> HIDE DEF t
<1> QED
  BY <1>6, <1>7, <1>8 DEF Fixed, SameFrames, SameBuffers

-----------------------------------------------------------------------------
\* What becomes of a datagram: it changes no frame but the newest;
Dropped(a, z, f) ==
    /\ z.future = a.future /\ z.candidate = a.candidate
    /\ z.terminal_candidate = a.terminal_candidate /\ z.terminal_seen = a.terminal_seen
    /\ Balance(z.counts) = Balance(a.counts)
    /\ IF IsTerminal(f) THEN z.integrity
       ELSE /\ z.terminals["received_raw"] = a.terminals["received_raw"]
            /\ \/ z.integrity \/ identity(a, f) = f
               \/ f.use \in {"nonfinite", "malformed"} \/ f.tick <= a.held.tick

\* or it is an envelope known or due, a candidate for the latch when due;
Enveloped(a, z, f) ==
    /\ IsTerminal(f) /\ f \in Datagrams /\ z.future = a.future /\ z.candidate = a.candidate
    /\ z.terminal_seen = a.terminal_seen \union {f} /\ identity(a, f) \in {NoFrame, f}
    /\ Balance(z.counts) = Balance(a.counts)
    /\ IF f.tick <= a.expected
       THEN z.terminal_candidate =
              IF a.latch = NoFrame /\ (a.terminal_candidate = NoFrame
                                       \/ f.tick > a.terminal_candidate.tick)
              THEN f ELSE a.terminal_candidate
       ELSE z.terminal_candidate = a.terminal_candidate /\ (z.integrity \/ identity(a, f) = f)

\* or it is a sample due, a candidate to be held;
Taken(a, z, f) ==
    /\ ~IsTerminal(f) /\ f \in Datagrams /\ f.tick <= a.expected /\ f.tick > a.held.tick
    /\ z.future = a.future /\ z.terminal_seen = a.terminal_seen
    /\ z.terminal_candidate = a.terminal_candidate
    /\ z.terminals["received_raw"] = a.terminals["received_raw"]
    /\ IF a.candidate = NoFrame
       THEN z.candidate = f /\ Balance(z.counts) = Balance(a.counts) + 1
       ELSE /\ z.candidate = IF f.tick > a.candidate.tick THEN f ELSE a.candidate
            /\ Balance(z.counts) = Balance(a.counts)

\* or it is parked.
Parked(a, z, f) ==
    /\ f \in Datagrams /\ f.tick > a.expected /\ f.tick - a.expected <= SkewMax
    /\ identity(a, f) = NoFrame /\ z.newest = IF f.tick > a.newest.tick THEN f ELSE a.newest
    /\ z.future = {g \in a.future : g.tick # f.tick} \union {f}
    /\ z.candidate = a.candidate /\ z.terminal_candidate = a.terminal_candidate
    /\ IF IsTerminal(f)
       THEN /\ z.terminal_seen = a.terminal_seen \union {f}
            /\ Balance(z.counts) = Balance(a.counts)
       ELSE /\ z.terminal_seen = a.terminal_seen
            /\ z.terminals["received_raw"] = a.terminals["received_raw"]
            /\ Balance(z.counts) = Balance(a.counts) + 1

\* newest is the old one or the datagram, which enters only when it is newer;
\* a frame not known before is remembered.
Remembers(a, z, f) ==
    /\ z.newest = a.newest \/ (f \in Datagrams /\ z.newest = f /\ f.tick > a.newest.tick)
    /\ identity(a, f) = NoFrame /\ f \in Datagrams =>
           z.newest = IF f.tick > a.newest.tick THEN f ELSE a.newest

Outcome(a, z, f) ==
    /\ z \in AdmissionType /\ Fixed(a, z) /\ Remembers(a, z, f)
    /\ z.rx_count = a.rx_count + 1 /\ z.discard_count <= a.discard_count + 1
    /\ z.terminal_seen_count <= a.terminal_seen_count + 1
    /\ Dropped(a, z, f) \/ Enveloped(a, z, f) \/ Taken(a, z, f) \/ Parked(a, z, f)

\* receive first counts the datagram.
LEMMA TakenFacts ==
  ASSUME NEW a \in AdmissionType
  PROVE  LET z == [a EXCEPT !.rx_count = @ + 1] IN
         /\ z \in AdmissionType /\ Fixed(a, z) /\ SameFrames(a, z)
         /\ SameCounts(a, z) /\ z.rx_count = a.rx_count + 1
         /\ z.discard_count = a.discard_count
         /\ z.terminal_seen_count = a.terminal_seen_count
  BY DEF AdmissionType, Fixed, SameFrames, SameCounts

\* What receive does with a datagram of an open cycle, disposition by disposition.
LEMMA ReceiveFacts ==
  ASSUME NEW a \in AdmissionType, NEW f \in Datagrams \union {Malformed},
         a.open, a.rx_count < RxLimit(a)
  PROVE  Outcome(a, receive(a, f), f)
<1> DEFINE taken == [a EXCEPT !.rx_count = @ + 1]
           raw == CountTerminal(taken, "received_raw")
           one == Count(taken, "received")
           sample == [one EXCEPT !.last_normal_tick = IF f.tick > @ THEN f.tick ELSE @]
           z == receive(a, f)
<1>1. /\ a.rx_count \in Nat /\ a.discard_count \in Nat /\ a.terminal_seen_count \in Nat
      /\ a.counts \in [CountFields -> Nat] /\ a.expected \in Int /\ a.held \in MaybeFrame
      /\ a.terminals \in [TerminalFields -> Nat] /\ ~(a.rx_count >= RxLimit(a))
  BY AdmissionAssumption DEF AdmissionType, RxLimit
<1>2. /\ taken \in AdmissionType /\ Fixed(a, taken) /\ SameFrames(a, taken)
      /\ SameCounts(a, taken) /\ taken.rx_count = a.rx_count + 1
      /\ taken.discard_count = a.discard_count
      /\ taken.terminal_seen_count = a.terminal_seen_count
  BY TakenFacts
<1>3. CASE f = Malformed
  <2> DEFINE m == Count(taken, "malformed")
  <2>1. z = Fail(m)
    BY <1>1, <1>3 DEF receive
  <2>2. "malformed" \in CountFields
    BY DEF CountFields
  <2> HIDE DEF taken, z
  <2>3. /\ m \in AdmissionType /\ Fixed(taken, m) /\ SameFrames(taken, m)
        /\ SameBuffers(taken, m) /\ m.terminals = taken.terminals
        /\ Balance(m.counts) = Balance(taken.counts) + 0
    BY <1>2, <2>2, CountFacts
  <2> HIDE DEF m
  <2>4. /\ z \in AdmissionType /\ Fixed(m, z) /\ SameFrames(m, z)
        /\ SameBuffers(m, z) /\ SameCounts(m, z) /\ z.integrity
    BY <2>1, <2>3, FailFacts
  <2>5. Balance(z.counts) = Balance(a.counts)
    BY <1>1, <1>2, <2>3, <2>4, BalanceType DEF SameCounts
  <2>6. Dropped(a, z, f)
    BY <1>2, <1>3, <2>3, <2>4, <2>5, FrameFacts DEF Dropped, SameFrames, SameCounts
  <2>7. Remembers(a, z, f)
    BY <1>2, <1>3, <2>3, <2>4, FrameFacts DEF Remembers, SameFrames
  <2> QED
    BY <1>1, <1>2, <2>3, <2>4, <2>6, <2>7 DEF Outcome, Fixed, SameBuffers, z
<1>4. CASE f # Malformed /\ ~IsTerminal(f)
  <2> f \in Datagrams /\ f.tick \in Nat /\ f # Malformed /\ ~IsTerminal(f) /\ f # NoFrame
    BY <1>4, FrameFacts
  <2>1. {"received", "nonfinite", "conflict", "duplicate", "old", "skew_excess"} \subseteq CountFields
    BY DEF CountFields
  <2>2. z = IF f.use = "nonfinite" THEN remember(discard(Count(sample, "nonfinite")), f)
            ELSE IF identity(a, f) # NoFrame THEN Known(sample, f, identity(a, f))
            ELSE New(sample, f)
    BY <1>1, <1>4 DEF receive
  <2> HIDE DEF taken, z
  <2>3. /\ one \in AdmissionType /\ Fixed(taken, one) /\ SameFrames(taken, one)
        /\ SameBuffers(taken, one) /\ one.terminals = taken.terminals
        /\ Balance(one.counts) = Balance(taken.counts) + 1
    BY <1>2, <2>1, CountFacts
  <2> HIDE DEF one
  <2>4. /\ sample \in AdmissionType /\ Fixed(one, sample) /\ SameFrames(one, sample)
        /\ SameBuffers(one, sample) /\ SameCounts(one, sample)
    <3> DEFINE t == IF f.tick > one.last_normal_tick THEN f.tick ELSE one.last_normal_tick
    <3>1. t \in Int
      BY <2>3 DEF AdmissionType
    <3> HIDE DEF t
    <3>2. LET b == [one EXCEPT !.last_normal_tick = t] IN
          /\ b \in AdmissionType /\ Fixed(one, b) /\ SameFrames(one, b)
          /\ SameBuffers(one, b) /\ SameCounts(one, b)
      BY <2>3, <3>1 DEF AdmissionType, Fixed, SameFrames, SameBuffers, SameCounts
    <3> QED
      BY <3>2 DEF t
  <2> HIDE DEF sample
  <2>5. /\ sample \in AdmissionType /\ Fixed(a, sample) /\ SameFrames(a, sample)
        /\ sample.rx_count = a.rx_count + 1 /\ sample.discard_count = a.discard_count
        /\ sample.terminal_seen_count = a.terminal_seen_count
        /\ sample.terminals = a.terminals /\ Balance(sample.counts) = Balance(a.counts) + 1
        /\ Balance(a.counts) \in Int
    BY <1>1, <1>2, <2>3, <2>4, BalanceType DEF Fixed, SameFrames, SameBuffers, SameCounts
  <2>6. CASE f.use = "nonfinite"
    <3> DEFINE d == discard(Count(sample, "nonfinite"))
    <3>1. /\ d \in AdmissionType /\ Fixed(sample, d) /\ SameFrames(sample, d)
          /\ d.terminals = sample.terminals /\ Balance(d.counts) = Balance(sample.counts) - 1
          /\ d.rx_count = sample.rx_count
          /\ d.terminal_seen_count = sample.terminal_seen_count
          /\ d.discard_count <= sample.discard_count + 1
      BY <2>1, <2>5, DisposeFacts
    <3>2. z = remember(d, f)
      BY <2>2, <2>6
    <3> HIDE DEF d
    <3>3. /\ z \in AdmissionType /\ Fixed(d, z) /\ SameBuffers(d, z) /\ SameCounts(d, z)
          /\ z.future = d.future /\ z.candidate = d.candidate
          /\ z.terminal_candidate = d.terminal_candidate /\ z.terminal_seen = d.terminal_seen
          /\ z.newest = IF f.tick > d.newest.tick THEN f ELSE d.newest
      BY <3>1, <3>2, RememberFacts
    <3>4. Balance(z.counts) = Balance(a.counts)
      BY <2>5, <3>1, <3>3 DEF SameCounts
    <3>5. Dropped(a, z, f)
      BY <2>5, <2>6, <3>1, <3>3, <3>4 DEF Dropped, SameFrames, SameCounts
    <3>6. Remembers(a, z, f)
      BY <2>5, <3>1, <3>3 DEF Remembers, SameFrames
    <3>7. Fixed(a, z)
      BY <2>5, <3>1, <3>3 DEF Fixed
    <3> QED
      BY <1>1, <2>5, <3>1, <3>3, <3>5, <3>6, <3>7 DEF Outcome, SameBuffers, z
  <2>7. CASE f.use # "nonfinite" /\ identity(a, f) \notin {NoFrame, f}
    <3> DEFINE c == Count(sample, "conflict")
    <3>1. z = Fail(c)
      BY <2>2, <2>7 DEF Known, CountEither
    <3>2. /\ c \in AdmissionType /\ Fixed(sample, c) /\ SameFrames(sample, c)
          /\ SameBuffers(sample, c) /\ c.terminals = sample.terminals
          /\ Balance(c.counts) = Balance(sample.counts) - 1
      BY <2>1, <2>5, SpendFacts
    <3> HIDE DEF c
    <3>3. /\ z \in AdmissionType /\ Fixed(c, z) /\ SameFrames(c, z)
          /\ SameBuffers(c, z) /\ SameCounts(c, z) /\ z.integrity
      BY <3>1, <3>2, FailFacts
    <3>4. Balance(z.counts) = Balance(a.counts)
      BY <2>5, <3>2, <3>3 DEF SameCounts
    <3>5. Dropped(a, z, f)
      BY <2>5, <3>2, <3>3, <3>4 DEF Dropped, SameFrames, SameCounts
    <3>6. Remembers(a, z, f)
      BY <2>5, <2>7, <3>2, <3>3 DEF Remembers, SameFrames
    <3>7. Fixed(a, z)
      BY <2>5, <3>2, <3>3 DEF Fixed
    <3> QED
      BY <1>1, <2>5, <3>2, <3>3, <3>5, <3>6, <3>7 DEF Outcome, SameBuffers, z
  <2>8. CASE f.use # "nonfinite" /\ identity(a, f) = f
    <3>1. z = Count(sample, "duplicate")
      BY <2>2, <2>8 DEF Known, CountEither
    <3>2. /\ z \in AdmissionType /\ Fixed(sample, z) /\ SameFrames(sample, z)
          /\ SameBuffers(sample, z) /\ z.terminals = sample.terminals
          /\ Balance(z.counts) = Balance(sample.counts) - 1
      BY <2>1, <2>5, <3>1, SpendFacts
    <3>4. Balance(z.counts) = Balance(a.counts)
      BY <2>5, <3>2
    <3>5. Dropped(a, z, f)
      BY <2>5, <2>8, <3>2, <3>4 DEF Dropped, SameFrames
    <3>6. Remembers(a, z, f)
      BY <2>5, <2>8, <3>2 DEF Remembers, SameFrames
    <3>7. Fixed(a, z)
      BY <2>5, <3>2 DEF Fixed
    <3> QED
      BY <1>1, <2>5, <3>2, <3>5, <3>6, <3>7 DEF Outcome, SameBuffers, z
  <2>9. CASE f.use # "nonfinite" /\ identity(a, f) = NoFrame
    <3> DEFINE s == remember(sample, f)
    <3>1. /\ s \in AdmissionType /\ Fixed(sample, s) /\ SameBuffers(sample, s)
          /\ SameCounts(sample, s)
          /\ s.future = sample.future /\ s.candidate = sample.candidate
          /\ s.terminal_candidate = sample.terminal_candidate
          /\ s.terminal_seen = sample.terminal_seen
          /\ s.newest = IF f.tick > sample.newest.tick THEN f ELSE sample.newest
      BY <2>5, RememberFacts
    <3>2. z = New(sample, f)
      BY <2>2, <2>9
    <3>3. sample.held = a.held /\ sample.expected = a.expected
      BY <2>5 DEF Fixed
    <3>4. z = IF f.tick <= a.held.tick THEN discard(Count(s, "old"))
              ELSE IF f.tick <= a.expected THEN candidate(s, f)
              ELSE IF f.tick - a.expected <= SkewMax THEN Park(s, f)
              ELSE Fail(discard(Count(s, "skew_excess")))
      BY <3>2, <3>3 DEF New
    <3> HIDE DEF s
    <3>5. /\ Fixed(a, s) /\ s.future = a.future /\ s.candidate = a.candidate
          /\ s.terminal_candidate = a.terminal_candidate /\ s.terminal_seen = a.terminal_seen
          /\ s.newest = IF f.tick > a.newest.tick THEN f ELSE a.newest
          /\ Balance(s.counts) = Balance(a.counts) + 1 /\ s.terminals = a.terminals
          /\ s.rx_count = a.rx_count + 1 /\ s.discard_count = a.discard_count
          /\ s.terminal_seen_count = a.terminal_seen_count
      BY <2>5, <3>1 DEF Fixed, SameFrames, SameBuffers, SameCounts
    <3>6. a.held.tick \in Int
      BY <1>1, FrameFacts
    <3>7. ASSUME NEW q \in {"old", "skew_excess"}, NEW d, d = discard(Count(s, q))
          PROVE  /\ d \in AdmissionType /\ Fixed(s, d) /\ SameFrames(s, d)
                 /\ d.terminals = s.terminals /\ Balance(d.counts) = Balance(a.counts)
                 /\ d.rx_count = s.rx_count
                 /\ d.terminal_seen_count = s.terminal_seen_count
                 /\ d.discard_count <= s.discard_count + 1
      <4>1. q \in CountFields \ {"received", "malformed"}
        BY DEF CountFields
      <4>2. /\ d \in AdmissionType /\ Fixed(s, d) /\ SameFrames(s, d)
            /\ d.terminals = s.terminals /\ Balance(d.counts) = Balance(s.counts) - 1
            /\ d.rx_count = s.rx_count
            /\ d.terminal_seen_count = s.terminal_seen_count
            /\ d.discard_count <= s.discard_count + 1
        BY <4>1, <3>1, <3>7, DisposeFacts
      <4> QED
        BY <4>2, <3>5, <2>5
    <3>8. CASE f.tick <= a.held.tick
      <4>1. /\ z \in AdmissionType /\ Fixed(s, z) /\ SameFrames(s, z)
            /\ z.terminals = s.terminals /\ Balance(z.counts) = Balance(a.counts)
            /\ z.rx_count = s.rx_count
            /\ z.terminal_seen_count = s.terminal_seen_count
            /\ z.discard_count <= s.discard_count + 1
        BY <3>4, <3>7, <3>8
      <4>2. Dropped(a, z, f)
        BY <3>5, <3>8, <4>1 DEF Dropped, SameFrames
      <4>3. Remembers(a, z, f)
        BY <3>5, <4>1 DEF Remembers, SameFrames
      <4>4. Fixed(a, z)
        BY <3>5, <4>1 DEF Fixed
      <4> QED
        BY <1>1, <3>5, <4>1, <4>2, <4>3, <4>4 DEF Outcome, z
    <3>9. CASE f.tick > a.held.tick /\ f.tick <= a.expected
      <4>1. /\ z \in AdmissionType /\ Fixed(s, z)
            /\ z.future = s.future /\ z.newest = s.newest
            /\ z.terminal_candidate = s.terminal_candidate
            /\ z.terminal_seen = s.terminal_seen
            /\ z.rx_count = s.rx_count /\ z.terminal_seen_count = s.terminal_seen_count
            /\ z.discard_count <= s.discard_count + 1 /\ z.terminals = s.terminals
            /\ s.candidate = NoFrame => z.candidate = f /\ z.counts = s.counts
            /\ s.candidate # NoFrame =>
                /\ z.candidate = IF f.tick > s.candidate.tick THEN f ELSE s.candidate
                /\ Balance(z.counts) = Balance(s.counts) - 1
        BY <3>1, <3>4, <3>6, <3>9, CandidateFacts
      <4>2. Taken(a, z, f)
        BY <2>5, <3>5, <3>9, <4>1 DEF Taken
      <4>3. Remembers(a, z, f)
        BY <3>5, <4>1 DEF Remembers
      <4>4. Fixed(a, z)
        BY <3>5, <4>1 DEF Fixed
      <4> QED
        BY <1>1, <3>5, <4>1, <4>2, <4>3, <4>4 DEF Outcome, z
    <3>10. CASE f.tick > a.held.tick /\ f.tick > a.expected /\ f.tick - a.expected <= SkewMax
      <4>1. /\ z \in AdmissionType /\ Fixed(s, z) /\ SameCounts(s, z) /\ SameBuffers(s, z)
            /\ z.future = {g \in s.future : g.tick # f.tick} \union {f}
            /\ z.candidate = s.candidate /\ z.newest = s.newest
            /\ z.terminal_candidate = s.terminal_candidate
            /\ z.terminal_seen = s.terminal_seen
        BY <1>1, <3>1, <3>4, <3>6, <3>10, ParkFacts
      <4>2. Parked(a, z, f)
        BY <2>9, <3>5, <3>10, <4>1 DEF Parked, SameCounts
      <4>3. Remembers(a, z, f)
        BY <3>5, <4>1 DEF Remembers
      <4>4. Fixed(a, z)
        BY <3>5, <4>1 DEF Fixed
      <4> QED
        BY <1>1, <3>5, <4>1, <4>2, <4>3, <4>4 DEF Outcome, SameBuffers, z
    <3>11. CASE f.tick > a.held.tick /\ f.tick > a.expected /\ ~(f.tick - a.expected <= SkewMax)
      <4> DEFINE d == discard(Count(s, "skew_excess"))
      <4>1. /\ d \in AdmissionType /\ Fixed(s, d) /\ SameFrames(s, d)
            /\ d.terminals = s.terminals /\ Balance(d.counts) = Balance(a.counts)
            /\ d.rx_count = s.rx_count
            /\ d.terminal_seen_count = s.terminal_seen_count
            /\ d.discard_count <= s.discard_count + 1
        BY <3>7
      <4>2. z = Fail(d)
        BY <1>1, <3>4, <3>6, <3>11
      <4> HIDE DEF d
      <4>3. /\ z \in AdmissionType /\ Fixed(d, z) /\ SameFrames(d, z) /\ SameBuffers(d, z)
            /\ SameCounts(d, z) /\ z.integrity
        BY <4>1, <4>2, FailFacts
      <4>4. Dropped(a, z, f)
        BY <3>5, <4>1, <4>3 DEF Dropped, SameFrames, SameCounts
      <4>5. Remembers(a, z, f)
        BY <3>5, <4>1, <4>3 DEF Remembers, SameFrames
      <4>6. Fixed(a, z)
        BY <3>5, <4>1, <4>3 DEF Fixed
      <4> QED
        BY <1>1, <3>5, <4>1, <4>3, <4>4, <4>5, <4>6 DEF Outcome, SameBuffers, z
    <3> QED
      BY <1>1, <3>6, <3>8, <3>9, <3>10, <3>11
  <2> QED
    BY <2>6, <2>7, <2>8, <2>9
<1>5. CASE f # Malformed /\ IsTerminal(f)
  <2> f \in Datagrams /\ f.tick \in Nat /\ f # Malformed /\ IsTerminal(f) /\ f # NoFrame
    BY <1>5, FrameFacts
  <2>1. {"received_raw", "conflict", "duplicate", "skew_excess"} \subseteq TerminalFields
    BY DEF TerminalFields
  <2>2. z = IF identity(a, f) # NoFrame THEN Known(raw, f, identity(a, f)) ELSE New(raw, f)
    BY <1>1, <1>5 DEF receive
  <2> HIDE DEF taken, z
  <2>3. /\ raw \in AdmissionType /\ Fixed(taken, raw) /\ SameFrames(taken, raw)
        /\ SameBuffers(taken, raw) /\ raw.counts = taken.counts
    BY <1>2, <2>1, CountTerminalFacts
  <2> HIDE DEF raw
  <2>4. /\ raw \in AdmissionType /\ Fixed(a, raw) /\ SameFrames(a, raw) /\ raw.counts = a.counts
        /\ raw.rx_count = a.rx_count + 1 /\ raw.discard_count = a.discard_count
        /\ raw.terminal_seen_count = a.terminal_seen_count
    BY <1>1, <1>2, <2>3 DEF Fixed, SameFrames, SameBuffers, SameCounts
  <2>5. raw.expected = a.expected /\ raw.held = a.held /\ raw.latch = a.latch
    BY <2>4 DEF Fixed
  <2>6. CASE identity(a, f) \notin {NoFrame, f}
    <3> DEFINE c == CountTerminal(raw, "conflict")
    <3>1. z = Fail(c)
      BY <2>2, <2>6 DEF Known, CountEither
    <3>2. /\ c \in AdmissionType /\ Fixed(raw, c) /\ SameFrames(raw, c)
          /\ SameBuffers(raw, c) /\ c.counts = raw.counts
      BY <2>1, <2>4, CountTerminalFacts
    <3> HIDE DEF c
    <3>3. /\ z \in AdmissionType /\ Fixed(c, z) /\ SameFrames(c, z)
          /\ SameBuffers(c, z) /\ SameCounts(c, z) /\ z.integrity
      BY <3>1, <3>2, FailFacts
    <3>4. Dropped(a, z, f)
      BY <2>4, <3>2, <3>3 DEF Dropped, SameFrames, SameCounts
    <3>5. Remembers(a, z, f)
      BY <2>4, <2>6, <3>2, <3>3 DEF Remembers, SameFrames
    <3>6. Fixed(a, z)
      BY <2>4, <3>2, <3>3 DEF Fixed
    <3> QED
      BY <1>1, <2>4, <3>2, <3>3, <3>4, <3>5, <3>6 DEF Outcome, SameBuffers, z
  <2>7. CASE identity(a, f) = f
    <3> DEFINE c == CountTerminal(raw, "duplicate")
               s == See(c, f)
    <3>1. /\ c \in AdmissionType /\ Fixed(raw, c) /\ SameFrames(raw, c)
          /\ SameBuffers(raw, c) /\ c.counts = raw.counts
      BY <2>1, <2>4, CountTerminalFacts
    <3>2. z = IF f.tick <= a.expected THEN terminal(s, f) ELSE s
      BY <2>2, <2>5, <2>7 DEF Known, CountEither
    <3> HIDE DEF c
    <3>3. /\ s \in AdmissionType /\ Fixed(c, s) /\ SameCounts(c, s)
          /\ s.future = c.future /\ s.candidate = c.candidate /\ s.newest = c.newest
          /\ s.terminal_candidate = c.terminal_candidate
          /\ s.terminal_seen = c.terminal_seen \union {f}
          /\ s.rx_count = c.rx_count /\ s.discard_count = c.discard_count
          /\ s.terminal_seen_count = c.terminal_seen_count + 1
      BY <3>1, SeeFacts
    <3> HIDE DEF s
    <3>4. /\ Fixed(a, s) /\ s.counts = a.counts /\ s.future = a.future
          /\ s.candidate = a.candidate /\ s.newest = a.newest
          /\ s.terminal_candidate = a.terminal_candidate /\ s.latch = a.latch
          /\ s.terminal_seen = a.terminal_seen \union {f}
          /\ s.rx_count = a.rx_count + 1 /\ s.discard_count = a.discard_count
          /\ s.terminal_seen_count = a.terminal_seen_count + 1
      BY <2>4, <3>1, <3>3 DEF Fixed, SameFrames, SameBuffers, SameCounts
    <3>5. CASE f.tick <= a.expected
      <4>1. /\ z \in AdmissionType /\ Fixed(s, z) /\ SameBuffers(s, z) /\ z.counts = s.counts
            /\ z.future = s.future /\ z.newest = s.newest /\ z.candidate = s.candidate
            /\ z.terminal_seen = s.terminal_seen
            /\ z.terminal_candidate =
                 IF s.latch = NoFrame /\ (s.terminal_candidate = NoFrame
                                          \/ f.tick > s.terminal_candidate.tick)
                 THEN f ELSE s.terminal_candidate
        BY <3>2, <3>3, <3>5, TerminalFacts
      <4>2. Enveloped(a, z, f)
        BY <2>7, <3>4, <3>5, <4>1 DEF Enveloped
      <4>3. Remembers(a, z, f)
        BY <2>7, <3>4, <4>1 DEF Remembers
      <4>4. Fixed(a, z)
        BY <3>4, <4>1 DEF Fixed
      <4> QED
        BY <1>1, <3>4, <4>1, <4>2, <4>3, <4>4 DEF Outcome, SameBuffers, z
    <3>6. CASE ~(f.tick <= a.expected)
      <4>1. z = s
        BY <3>2, <3>6
      <4>2. Enveloped(a, z, f)
        BY <2>7, <3>4, <3>6, <4>1 DEF Enveloped
      <4>3. Remembers(a, z, f)
        BY <2>7, <3>4, <4>1 DEF Remembers
      <4> QED
        BY <1>1, <3>3, <3>4, <4>1, <4>2, <4>3 DEF Outcome, z
    <3> QED
      BY <3>5, <3>6
  <2>8. CASE identity(a, f) = NoFrame
    <3> DEFINE c == See(raw, f)
               s == remember(c, f)
    <3>1. /\ c \in AdmissionType /\ Fixed(raw, c) /\ SameCounts(raw, c)
          /\ c.future = raw.future /\ c.candidate = raw.candidate /\ c.newest = raw.newest
          /\ c.terminal_candidate = raw.terminal_candidate
          /\ c.terminal_seen = raw.terminal_seen \union {f}
          /\ c.rx_count = raw.rx_count /\ c.discard_count = raw.discard_count
          /\ c.terminal_seen_count = raw.terminal_seen_count + 1
      BY <2>4, SeeFacts
    <3>2. z = IF f.tick <= a.expected THEN terminal(s, f)
              ELSE IF f.tick - a.expected <= SkewMax THEN Park(s, f)
              ELSE Fail(CountTerminal(s, "skew_excess"))
      BY <2>2, <2>5, <2>8 DEF New
    <3> HIDE DEF c
    <3>3. /\ s \in AdmissionType /\ Fixed(c, s) /\ SameBuffers(c, s) /\ SameCounts(c, s)
          /\ s.future = c.future /\ s.candidate = c.candidate
          /\ s.terminal_candidate = c.terminal_candidate
          /\ s.terminal_seen = c.terminal_seen
          /\ s.newest = IF f.tick > c.newest.tick THEN f ELSE c.newest
      BY <3>1, RememberFacts
    <3> HIDE DEF s
    <3>4. /\ Fixed(a, s) /\ s.counts = a.counts /\ s.future = a.future
          /\ s.candidate = a.candidate
          /\ s.newest = IF f.tick > a.newest.tick THEN f ELSE a.newest
          /\ s.terminal_candidate = a.terminal_candidate /\ s.latch = a.latch
          /\ s.terminal_seen = a.terminal_seen \union {f}
          /\ s.rx_count = a.rx_count + 1 /\ s.discard_count = a.discard_count
          /\ s.terminal_seen_count = a.terminal_seen_count + 1
      BY <2>4, <3>1, <3>3 DEF Fixed, SameFrames, SameBuffers, SameCounts
    <3>5. CASE f.tick <= a.expected
      <4>1. /\ z \in AdmissionType /\ Fixed(s, z) /\ SameBuffers(s, z) /\ z.counts = s.counts
            /\ z.future = s.future /\ z.newest = s.newest /\ z.candidate = s.candidate
            /\ z.terminal_seen = s.terminal_seen
            /\ z.terminal_candidate =
                 IF s.latch = NoFrame /\ (s.terminal_candidate = NoFrame
                                          \/ f.tick > s.terminal_candidate.tick)
                 THEN f ELSE s.terminal_candidate
        BY <3>2, <3>3, <3>5, TerminalFacts
      <4>2. Enveloped(a, z, f)
        BY <2>8, <3>4, <3>5, <4>1 DEF Enveloped
      <4>3. Remembers(a, z, f)
        BY <3>4, <4>1 DEF Remembers
      <4>4. Fixed(a, z)
        BY <3>4, <4>1 DEF Fixed
      <4> QED
        BY <1>1, <3>4, <4>1, <4>2, <4>3, <4>4 DEF Outcome, SameBuffers, z
    <3>6. CASE f.tick > a.expected /\ f.tick - a.expected <= SkewMax
      <4>1. /\ z \in AdmissionType /\ Fixed(s, z) /\ SameCounts(s, z) /\ SameBuffers(s, z)
            /\ z.future = {g \in s.future : g.tick # f.tick} \union {f}
            /\ z.candidate = s.candidate /\ z.newest = s.newest
            /\ z.terminal_candidate = s.terminal_candidate
            /\ z.terminal_seen = s.terminal_seen
        BY <1>1, <3>2, <3>3, <3>6, ParkFacts
      <4>2. Parked(a, z, f)
        BY <2>8, <3>4, <3>6, <4>1 DEF Parked, SameCounts
      <4>3. Remembers(a, z, f)
        BY <3>4, <4>1 DEF Remembers
      <4>4. Fixed(a, z)
        BY <3>4, <4>1 DEF Fixed
      <4> QED
        BY <1>1, <3>4, <4>1, <4>2, <4>3, <4>4 DEF Outcome, SameBuffers, z
    <3>7. CASE f.tick > a.expected /\ ~(f.tick - a.expected <= SkewMax)
      <4> DEFINE d == CountTerminal(s, "skew_excess")
      <4>1. /\ d \in AdmissionType /\ Fixed(s, d) /\ SameFrames(s, d)
            /\ SameBuffers(s, d) /\ d.counts = s.counts
        BY <2>1, <3>3, CountTerminalFacts
      <4>2. z = Fail(d)
        BY <1>1, <3>2, <3>7
      <4> HIDE DEF d
      <4>3. /\ z \in AdmissionType /\ Fixed(d, z) /\ SameFrames(d, z) /\ SameBuffers(d, z)
            /\ SameCounts(d, z) /\ z.integrity
        BY <4>1, <4>2, FailFacts
      <4>4. Enveloped(a, z, f)
        BY <1>1, <2>8, <3>4, <3>7, <4>1, <4>3 DEF Enveloped, SameFrames, SameCounts
      <4>5. Remembers(a, z, f)
        BY <3>4, <4>1, <4>3 DEF Remembers, SameFrames
      <4>6. Fixed(a, z)
        BY <3>4, <4>1, <4>3 DEF Fixed
      <4> QED
        BY <1>1, <3>4, <4>1, <4>3, <4>4, <4>5, <4>6 DEF Outcome, SameBuffers, z
    <3> QED
      BY <1>1, <3>5, <3>6, <3>7
  <2> QED
    BY <2>6, <2>7, <2>8
<1> QED
  BY <1>3, <1>4, <1>5

-----------------------------------------------------------------------------
\* The frames a new datagram is compared with.
Remembered(a) ==
    a.future \union a.terminal_seen \union {a.newest, a.due, a.terminal_candidate, a.latch}

\* The parked frames are finitely many, and within the skew of the expected tick.
Window(a) ==
    /\ IsFiniteSet(a.future) /\ \A f \in a.future : f.tick - a.expected \in 1 .. SkewMax
    /\ a.cycles = 0 /\ ~a.open => a.future = {}

\* What is held, latched or a candidate is due, and of its kind.
Ordered(a) ==
    /\ a.expected \in Nat /\ a.held.tick <= a.expected /\ a.latch.tick <= a.expected
    /\ a.due.tick <= a.expected /\ a.terminal_candidate.tick <= a.expected
    /\ \A f \in a.terminal_seen \union ({a.terminal_candidate, a.latch} \ {NoFrame}) : IsTerminal(f)
    /\ a.open /\ a.candidate # NoFrame =>
           ~IsTerminal(a.candidate) /\ a.candidate.tick \in a.held.tick + 1 .. a.expected
    /\ a.cycles = 0 /\ ~a.open => a.held = NoFrame /\ a.expected = 0

\* One frame of a tick is remembered, and none is newer than newest.
Coherent(a) ==
    \A f \in Remembered(a) : /\ f.tick <= a.newest.tick
                             /\ \A g \in Remembered(a) : f.tick = g.tick => f = g

Filled(a) == a.discard_count <= a.rx_count /\ a.terminal_seen_count <= a.rx_count

\* Every sample received is disposed of, parked or the candidate, in the episode
\* and in the recorded window.
Pending(a) == future_parked(a) + (IF a.open /\ a.candidate # NoFrame THEN 1 ELSE 0)
Current(a) == IF a.open THEN Balance(a.counts) ELSE 0

Accounts(a) ==
    /\ Balance(a.episode) + Current(a) = Pending(a)
    /\ IF a.cycles > Warmup \/ (a.open /\ a.cycles = Warmup)
       THEN Balance(a.recorded) + Current(a) + a.warmup_occupancy = Pending(a)
       ELSE Balance(a.recorded) = 0

\* Without an integrity failure an envelope received ahead of its tick is parked,
\* and one received is parked, a candidate or latched.
Enclosed(a) ==
    a.integrity \/
    /\ \A f \in a.terminal_seen \union {a.newest} :
           IsTerminal(f) /\ f.tick > a.expected => f \in a.future
    /\ a.terminals["received_raw"] > 0 =>
           \/ a.latch # NoFrame \/ (a.open /\ a.terminal_candidate # NoFrame)
           \/ \E f \in a.future : IsTerminal(f)

Usable(f) == ~IsTerminal(f) /\ f.use = "valid"

\* got has the ticks of the usable samples parked, and of those still remembered
\* that are newer than the held one; unless the admission failed, or an invalid
\* sample was taken, every other one is the candidate's or older.
Gathered(a, ticks) ==
    /\ \A f \in a.future : Usable(f) => f.tick \in ticks
    /\ \A f \in {a.newest, a.due} : Usable(f) /\ f.tick > a.held.tick => f.tick \in ticks
    /\ \/ a.integrity \/ a.episode["invalid"] # 0
       \/ \A t \in ticks : \/ \E f \in a.future : Usable(f) /\ f.tick = t
                           \/ a.open /\ a.candidate # NoFrame /\ t <= a.candidate.tick

IInv ==
    /\ adm \in AdmissionType /\ adm.tick_base = TickBase /\ got \in SUBSET Nat
    /\ Window(adm) /\ Ordered(adm) /\ Coherent(adm) /\ Filled(adm) /\ Accounts(adm)
    /\ Enclosed(adm) /\ Gathered(adm, got)

\* identity finds a remembered frame of the datagram's tick if there is one.
LEMMA IdentityFacts ==
  ASSUME NEW a \in AdmissionType, NEW f \in Datagrams
  PROVE  /\ identity(a, f) = NoFrame => \A g \in Remembered(a) : g.tick # f.tick
         /\ identity(a, f) = f => f \in Remembered(a) \/ (IsTerminal(f) /\ f = a.candidate)
<1> DEFINE parked == {g \in a.future : g.tick = f.tick}
           seen == {g \in a.terminal_seen : g.tick = f.tick}
           p == CHOOSE g \in parked : TRUE
           e == CHOOSE g \in seen : TRUE
<1>1. /\ a.future \subseteq Datagrams /\ a.terminal_seen \subseteq Datagrams
      /\ a.newest \in MaybeFrame /\ a.due \in MaybeFrame /\ a.latch \in MaybeFrame
      /\ a.terminal_candidate \in MaybeFrame /\ a.candidate \in MaybeFrame
  BY DEF AdmissionType
<1>2. parked # {} => p \in a.future /\ p # NoFrame
  BY <1>1, FrameFacts
<1>3. seen # {} => e \in a.terminal_seen /\ e # NoFrame
  BY <1>1, FrameFacts
<1>4. f.tick \in Nat /\ NoFrame.tick = -1 /\ f # NoFrame
  BY FrameFacts
<1>5. identity(a, f) =
        IF a.newest.tick = f.tick THEN a.newest
        ELSE IF a.due.tick = f.tick THEN a.due
        ELSE IF parked # {} THEN p
        ELSE IF a.terminal_candidate.tick = f.tick THEN a.terminal_candidate
        ELSE IF a.latch.tick = f.tick THEN a.latch
        ELSE IF seen # {} THEN e
        ELSE IF IsTerminal(f) /\ a.candidate.tick = f.tick THEN a.candidate
        ELSE NoFrame
  BY DEF identity
<1> HIDE DEF p, e
<1>6. identity(a, f) = NoFrame =>
        /\ a.newest.tick # f.tick /\ a.due.tick # f.tick /\ parked = {}
        /\ a.terminal_candidate.tick # f.tick /\ a.latch.tick # f.tick /\ seen = {}
  BY <1>2, <1>3, <1>4, <1>5
<1>7. identity(a, f) = f => f \in Remembered(a) \/ (IsTerminal(f) /\ f = a.candidate)
  BY <1>2, <1>3, <1>4, <1>5 DEF Remembered
<1> QED
  BY <1>6, <1>7 DEF Remembered

\* A datagram keeps the parked frames within the window.
LEMMA ReceiveWindow ==
  ASSUME NEW a \in AdmissionType, NEW f \in Datagrams \union {Malformed}, NEW z,
         a.open, Window(a), Ordered(a), Outcome(a, z, f)
  PROVE  Window(z)
<1>1. z.expected = a.expected /\ z.open = a.open /\ a.expected \in Nat
  BY DEF Outcome, Fixed, Ordered
<1>2. CASE z.future = a.future
  BY <1>1, <1>2 DEF Window
<1>3. CASE Parked(a, z, f)
  <2>1. f \in Datagrams /\ f.tick \in Nat /\ f.tick > a.expected /\ f.tick - a.expected <= SkewMax
    BY <1>3, FrameFacts DEF Parked
  <2>2. f.tick - a.expected \in 1 .. SkewMax
    BY <1>1, <2>1, AdmissionAssumption
  <2> DEFINE rest == {g \in a.future : g.tick # f.tick}
  <2>3. rest \in SUBSET a.future
    OBVIOUS
  <2>4. IsFiniteSet(rest)
    BY <2>3, FS_Subset DEF Window
  <2> HIDE DEF rest
  <2>5. IsFiniteSet(rest \union {f})
    BY <2>4, FS_AddElement
  <2>6. z.future = rest \union {f}
    BY <1>3 DEF Parked, rest
  <2> QED
    BY <1>1, <2>2, <2>3, <2>5, <2>6 DEF Window
<1> QED
  BY <1>2, <1>3 DEF Outcome, Dropped, Enveloped, Taken

\* A datagram keeps what is held, latched and a candidate in its place.
LEMMA ReceiveOrdered ==
  ASSUME NEW a \in AdmissionType, NEW f \in Datagrams \union {Malformed}, NEW z,
         a.open, Ordered(a), Outcome(a, z, f)
  PROVE  Ordered(z)
<1>1. /\ z.expected = a.expected /\ z.open = a.open /\ z.due = a.due /\ z.held = a.held
      /\ z.latch = a.latch
  BY DEF Outcome, Fixed
<1>2. /\ a.held \in MaybeFrame /\ a.latch \in MaybeFrame /\ a.due \in MaybeFrame
      /\ a.terminal_candidate \in MaybeFrame /\ a.candidate \in MaybeFrame /\ a.expected \in Nat
  BY DEF AdmissionType, Ordered
<1>3. \A g \in MaybeFrame : g.tick \in Int
  BY FrameFacts
<1>4. CASE Dropped(a, z, f)
  BY <1>1, <1>4 DEF Dropped, Ordered
<1>5. CASE Enveloped(a, z, f)
  BY <1>1, <1>5, FrameFacts DEF Enveloped, Ordered
<1>6. CASE Taken(a, z, f)
  <2>1. f.tick \in a.held.tick + 1 .. a.expected
    BY <1>2, <1>3, <1>6, FrameFacts DEF Taken
  <2>2. z.candidate \in {f, a.candidate} /\ (a.candidate = NoFrame => z.candidate = f)
    BY <1>6 DEF Taken
  <2> QED
    BY <1>1, <1>6, <2>1, <2>2 DEF Taken, Ordered
<1>7. CASE Parked(a, z, f)
  BY <1>1, <1>7 DEF Parked, Ordered
<1> QED
  BY <1>4, <1>5, <1>6, <1>7 DEF Outcome

\* A datagram leaves one frame of each tick remembered.
LEMMA ReceiveCoherent ==
  ASSUME NEW a \in AdmissionType, NEW f \in Datagrams \union {Malformed}, NEW z,
         a.open, Ordered(a), Coherent(a), Outcome(a, z, f)
  PROVE  Coherent(z)
<1> DEFINE K == Remembered(a)
           L == Remembered(z)
<1>1. z.due = a.due /\ z.latch = a.latch /\ Remembers(a, z, f)
  BY DEF Outcome, Fixed
<1>2. a.newest \in K /\ z.newest \in L
  BY DEF Remembered
<1>3. \A g \in K : g.tick \in Int /\ g.tick <= a.newest.tick
  <2>1. K \subseteq MaybeFrame
    BY DEF Remembered, AdmissionType, MaybeFrame
  <2> QED
    BY <2>1, FrameFacts DEF Coherent
<1>4. f \in Datagrams /\ identity(a, f) = f => f \in K
  BY IdentityFacts, FrameFacts DEF Ordered
<1>5. f \in Datagrams /\ identity(a, f) = NoFrame => \A g \in K : g.tick # f.tick
  BY IdentityFacts
<1>6. L \subseteq K \union {f}
  <2>1. z.newest \in {a.newest, f}
    BY <1>1 DEF Remembers
  <2>2. z.future \subseteq a.future \union {f}
    BY DEF Outcome, Dropped, Enveloped, Taken, Parked
  <2>3. z.terminal_seen \subseteq a.terminal_seen \union {f}
    BY DEF Outcome, Dropped, Enveloped, Taken, Parked
  <2>4. z.terminal_candidate \in {a.terminal_candidate, f}
    BY DEF Outcome, Dropped, Enveloped, Taken, Parked
  <2> QED
    BY <1>1, <2>1, <2>2, <2>3, <2>4 DEF Remembered
<1>7. z.newest.tick \in Int /\ z.newest.tick >= a.newest.tick
  BY <1>1, <1>2, <1>3, FrameFacts DEF Remembers
<1>8. f \in L /\ f \notin K =>
         f \in Datagrams /\ f.tick <= z.newest.tick /\ \A g \in K : g.tick # f.tick
  <2> SUFFICES ASSUME f \in L, f \notin K
               PROVE  f \in Datagrams /\ f.tick <= z.newest.tick /\ \A g \in K : g.tick # f.tick
    OBVIOUS
  <2>1. CASE z.newest = f /\ f \in Datagrams /\ f.tick > a.newest.tick
    BY <1>2, <1>3, <2>1, FrameFacts
  <2>2. CASE z.newest = a.newest
    <3>1. f \in Datagrams /\ identity(a, f) \in {NoFrame, f}
      BY <1>1, <2>2 DEF Outcome, Dropped, Enveloped, Taken, Parked, Remembered
    <3>2. identity(a, f) = NoFrame
      BY <1>4, <3>1
    <3> QED
      BY <1>1, <1>2, <1>3, <1>5, <3>1, <3>2, <2>2, FrameFacts DEF Remembers
  <2> QED
    BY <1>1, <2>1, <2>2 DEF Remembers
<1> HIDE DEF K, L
<1>9. \A g \in L : g.tick <= z.newest.tick
  BY <1>3, <1>2, <1>6, <1>7, <1>8
<1>10. ASSUME NEW g \in L, NEW h \in L, g.tick = h.tick PROVE g = h
  BY <1>6, <1>8, <1>10 DEF Coherent, K
<1> QED
  BY <1>9, <1>10 DEF Coherent, L

\* A datagram fills at most one place of the discards and of the envelopes seen.
LEMMA ReceiveFilled ==
  ASSUME NEW a \in AdmissionType, NEW f, NEW z, Filled(a), Outcome(a, z, f)
  PROVE  Filled(z)
<1>1. /\ a.rx_count \in Nat /\ a.discard_count \in Nat /\ a.terminal_seen_count \in Nat
      /\ z.rx_count \in Nat /\ z.discard_count \in Nat /\ z.terminal_seen_count \in Nat
  BY DEF AdmissionType, Outcome
<1> QED
  BY <1>1 DEF Filled, Outcome

\* ParkedIn counts the samples among the parked frames, one frame more or less.
LEMMA ParkedInFacts ==
  ASSUME NEW S, IsFiniteSet(S)
  PROVE  /\ ParkedIn(S) \in Nat
         /\ \A f : f \notin S => ParkedIn(S \union {f}) =
                                   ParkedIn(S) + (IF IsTerminal(f) THEN 0 ELSE 1)
         /\ \A f \in S : ParkedIn(S \ {f}) = ParkedIn(S) - (IF IsTerminal(f) THEN 0 ELSE 1)
<1> DEFINE N(T) == {g \in T : ~IsTerminal(g)}
<1>1. IsFiniteSet(N(S))
  BY FS_Subset
<1>2. Cardinality(N(S)) \in Nat
  BY <1>1, FS_CardinalityType
<1>3. ASSUME NEW f, f \notin S
      PROVE  Cardinality(N(S \union {f})) = Cardinality(N(S)) + (IF IsTerminal(f) THEN 0 ELSE 1)
  <2>1. CASE IsTerminal(f)
    <3>1. N(S \union {f}) = N(S)
      BY <2>1
    <3> QED
      BY <1>2, <2>1, <3>1
  <2>2. CASE ~IsTerminal(f)
    <3>1. N(S \union {f}) = N(S) \union {f} /\ f \notin N(S)
      BY <1>3, <2>2
    <3>2. Cardinality(N(S) \union {f}) = Cardinality(N(S)) + 1
      BY <1>1, <3>1, FS_AddElement
    <3> QED
      BY <2>2, <3>1, <3>2
  <2> QED
    BY <2>1, <2>2
<1>4. ASSUME NEW f \in S
      PROVE  Cardinality(N(S \ {f})) = Cardinality(N(S)) - (IF IsTerminal(f) THEN 0 ELSE 1)
  <2>1. CASE IsTerminal(f)
    <3>1. N(S \ {f}) = N(S)
      BY <2>1
    <3> QED
      BY <1>2, <2>1, <3>1
  <2>2. CASE ~IsTerminal(f)
    <3>1. N(S \ {f}) = N(S) \ {f} /\ f \in N(S)
      BY <2>2
    <3>2. Cardinality(N(S) \ {f}) = Cardinality(N(S)) - 1
      BY <1>1, <3>1, FS_RemoveElement
    <3> QED
      BY <2>2, <3>1, <3>2
  <2> QED
    BY <2>1, <2>2
<1> QED
  BY <1>2, <1>3, <1>4 DEF ParkedIn

\* A datagram keeps the accounts: a sample received is disposed of, becomes the
\* candidate or is parked.
LEMMA ReceiveAccounts ==
  ASSUME NEW a \in AdmissionType, NEW f \in Datagrams \union {Malformed}, NEW z,
         a.open, Window(a), Accounts(a), Outcome(a, z, f)
  PROVE  Accounts(z)
<1>1. /\ z.open /\ z.cycles = a.cycles /\ z.episode = a.episode /\ z.recorded = a.recorded
      /\ z.warmup_occupancy = a.warmup_occupancy
  BY DEF Outcome, Fixed
<1>2. /\ Balance(a.episode) \in Int /\ Balance(a.counts) \in Int
      /\ Balance(a.recorded) \in Int /\ Balance(z.counts) \in Int
      /\ a.warmup_occupancy \in Int /\ a.cycles \in Nat
  BY BalanceType DEF AdmissionType, Outcome
<1>3. ParkedIn(a.future) \in Nat
  BY ParkedInFacts DEF Window
<1> DEFINE one(x) == IF x.candidate # NoFrame THEN 1 ELSE 0
<1>4. /\ ParkedIn(z.future) \in Nat
      /\ Balance(z.counts) - Balance(a.counts)
           = ParkedIn(z.future) - ParkedIn(a.future) + (one(z) - one(a))
  <2>1. CASE Dropped(a, z, f) \/ Enveloped(a, z, f)
    <3>1. /\ z.future = a.future /\ z.candidate = a.candidate
          /\ Balance(z.counts) = Balance(a.counts)
      BY <2>1 DEF Dropped, Enveloped
    <3> QED
      BY <1>2, <1>3, <3>1
  <2>2. CASE Taken(a, z, f)
    <3>1. f # NoFrame /\ z.future = a.future
      BY <2>2, FrameFacts DEF Taken
    <3>2. CASE a.candidate = NoFrame
      <4>1. z.candidate = f /\ Balance(z.counts) = Balance(a.counts) + 1
        BY <2>2, <3>2 DEF Taken
      <4> QED
        BY <1>2, <1>3, <3>1, <3>2, <4>1
    <3>3. CASE a.candidate # NoFrame
      <4>1. z.candidate # NoFrame /\ Balance(z.counts) = Balance(a.counts)
        BY <2>2, <3>1, <3>3 DEF Taken
      <4> QED
        BY <1>2, <1>3, <3>1, <3>3, <4>1
    <3> QED
      BY <3>2, <3>3
  <2>3. CASE Parked(a, z, f)
    <3>1. f \in Datagrams /\ identity(a, f) = NoFrame /\ z.candidate = a.candidate
      BY <2>3 DEF Parked
    <3>2. \A g \in a.future : g.tick # f.tick
      BY <3>1, IdentityFacts DEF Remembered
    <3>3. z.future = a.future \union {f} /\ f \notin a.future
      BY <2>3, <3>2 DEF Parked
    <3>4. /\ ParkedIn(z.future) = ParkedIn(a.future) + (IF IsTerminal(f) THEN 0 ELSE 1)
          /\ Balance(z.counts) = Balance(a.counts) + (IF IsTerminal(f) THEN 0 ELSE 1)
      BY <1>2, <2>3, <3>3, ParkedInFacts DEF Parked, Window
    <3> QED
      BY <1>2, <1>3, <3>1, <3>4
  <2> QED
    BY <2>1, <2>2, <2>3 DEF Outcome
<1>5. one(a) \in Nat /\ one(z) \in Nat
  OBVIOUS
<1>6. Pending(a) = ParkedIn(a.future) + one(a) /\ Pending(z) = ParkedIn(z.future) + one(z)
  BY <1>1 DEF Pending, future_parked
<1>7. Current(a) = Balance(a.counts) /\ Current(z) = Balance(z.counts)
  BY <1>1 DEF Current
<1> HIDE DEF one
<1> QED
  BY <1>1, <1>2, <1>3, <1>4, <1>5, <1>6, <1>7, AdmissionAssumption DEF Accounts

\* A frame once parked stays parked while datagrams arrive.
LEMMA ReceiveKeepsParked ==
  ASSUME NEW a \in AdmissionType, NEW f \in Datagrams \union {Malformed}, NEW z,
         Outcome(a, z, f)
  PROVE  /\ a.future \subseteq z.future /\ z.future \subseteq a.future \union {f}
         /\ f \in z.future \ a.future => Parked(a, z, f)
<1>1. CASE Parked(a, z, f)
  <2>1. f \in Datagrams /\ identity(a, f) = NoFrame
    BY <1>1 DEF Parked
  <2>2. \A g \in a.future : g.tick # f.tick
    BY <2>1, IdentityFacts DEF Remembered
  <2> QED
    BY <1>1, <2>2 DEF Parked
<1>2. CASE z.future = a.future
  BY <1>2
<1> QED
  BY <1>1, <1>2 DEF Outcome, Dropped, Enveloped, Taken

\* No envelope received without an integrity failure is lost.
LEMMA ReceiveEnclosed ==
  ASSUME NEW a \in AdmissionType, NEW f \in Datagrams \union {Malformed}, NEW z,
         a.open, Ordered(a), Enclosed(a), Outcome(a, z, f)
  PROVE  Enclosed(z)
<1> SUFFICES ASSUME ~z.integrity
             PROVE  /\ \A g \in z.terminal_seen \union {z.newest} :
                          IsTerminal(g) /\ g.tick > z.expected => g \in z.future
                    /\ z.terminals["received_raw"] > 0 =>
                          \/ z.latch # NoFrame \/ (z.open /\ z.terminal_candidate # NoFrame)
                          \/ \E g \in z.future : IsTerminal(g)
  BY DEF Enclosed
<1>1. ~a.integrity /\ z.expected = a.expected /\ z.latch = a.latch /\ z.open
  BY DEF Outcome, Fixed
<1>2. /\ \A g \in a.terminal_seen \union {a.newest} :
            IsTerminal(g) /\ g.tick > a.expected => g \in a.future
      /\ a.terminals["received_raw"] > 0 =>
            \/ a.latch # NoFrame \/ a.terminal_candidate # NoFrame
            \/ \E g \in a.future : IsTerminal(g)
  BY <1>1 DEF Enclosed
<1>3. a.future \subseteq z.future
  BY ReceiveKeepsParked
<1>4. f \in Datagrams /\ IsTerminal(f) /\ identity(a, f) = f /\ f.tick > a.expected => f \in a.future
  <2> SUFFICES ASSUME f \in Datagrams, IsTerminal(f), identity(a, f) = f, f.tick > a.expected
               PROVE  f \in a.future
    OBVIOUS
  <2>1. f \in Remembered(a)
    BY IdentityFacts, FrameFacts DEF Ordered
  <2>2. f \notin {a.due, a.terminal_candidate, a.latch}
    BY FrameFacts DEF Ordered
  <2> QED
    BY <1>2, <2>1, <2>2 DEF Remembered
<1>5. CASE Dropped(a, z, f)
  <2>1. ~IsTerminal(f)
    BY <1>5 DEF Dropped
  <2> QED
    BY <1>1, <1>2, <1>3, <1>5, <2>1 DEF Dropped, Outcome, Remembers
<1>6. CASE Enveloped(a, z, f)
  <2>1. f.tick \in Nat /\ a.expected \in Nat /\ f # NoFrame
    BY <1>6, FrameFacts DEF Enveloped, Ordered
  <2>2. CASE f.tick <= a.expected
    <3>1. z.latch # NoFrame \/ z.terminal_candidate # NoFrame
      BY <1>1, <1>6, <2>1, <2>2 DEF Enveloped
    <3>2. \A g \in z.terminal_seen \union {z.newest} : g \in a.terminal_seen \union {a.newest, f}
      BY <1>6 DEF Enveloped, Outcome, Remembers
    <3> QED
      BY <1>1, <1>2, <1>3, <2>1, <2>2, <3>1, <3>2
  <2>3. CASE f.tick > a.expected
    <3>1. f \in a.future
      BY <1>4, <1>6, <2>1, <2>3 DEF Enveloped
    <3>2. \A g \in z.terminal_seen \union {z.newest} : g \in a.terminal_seen \union {a.newest, f}
      BY <1>6 DEF Enveloped, Outcome, Remembers
    <3> QED
      BY <1>1, <1>2, <1>3, <1>6, <3>1, <3>2 DEF Enveloped
  <2> QED
    BY <2>1, <2>2, <2>3
<1>7. CASE Taken(a, z, f)
  BY <1>1, <1>2, <1>3, <1>7 DEF Taken, Outcome, Remembers
<1>8. CASE Parked(a, z, f)
  <2>1. f \in z.future
    BY <1>8 DEF Parked
  <2>2. CASE IsTerminal(f)
    BY <1>1, <1>2, <1>3, <1>8, <2>1, <2>2 DEF Parked, Outcome, Remembers
  <2>3. CASE ~IsTerminal(f)
    BY <1>1, <1>2, <1>3, <1>8, <2>1, <2>3 DEF Parked, Outcome, Remembers
  <2> QED
    BY <2>2, <2>3
<1> QED
  BY <1>5, <1>6, <1>7, <1>8 DEF Outcome

\* The history of usable ticks when a datagram arrives.
LEMMA ReceiveGathered ==
  ASSUME NEW a \in AdmissionType, NEW f \in Datagrams \union {Malformed}, NEW z,
         NEW ticks \in SUBSET Nat, NEW more,
         more = IF Usable(f) /\ f.tick > a.held.tick THEN ticks \union {f.tick} ELSE ticks,
         a.open, Ordered(a), Window(a), Gathered(a, ticks), Outcome(a, z, f)
  PROVE  Gathered(z, more) /\ more \in SUBSET Nat
<1>1. /\ z.expected = a.expected /\ z.held = a.held /\ z.due = a.due /\ z.open
      /\ z.episode = a.episode /\ (a.integrity => z.integrity)
  BY DEF Outcome, Fixed
<1>2. a.future \subseteq z.future /\ z.future \subseteq a.future \union {f}
  BY ReceiveKeepsParked
<1>3. /\ a.held.tick \in Int /\ a.held.tick <= a.expected /\ a.expected \in Nat
      /\ a.candidate.tick \in Int /\ \A g \in Datagrams : g.tick \in Nat
      /\ f.tick \in Int
  <2>1. a.held \in MaybeFrame /\ a.candidate \in MaybeFrame
    BY DEF AdmissionType
  <2> QED
    BY <2>1, FrameFacts DEF Ordered
<1>4. Usable(f) => f \in Datagrams
  BY FrameFacts DEF Usable
<1>5. more \in SUBSET Nat /\ ticks \subseteq more
  BY <1>3, <1>4
<1>6. Usable(f) /\ f.tick > a.held.tick => f.tick \in more
  OBVIOUS
<1>7. \A g \in z.future : Usable(g) => g.tick \in more
  <2>1. f \in z.future \ a.future => f.tick > a.held.tick
    BY <1>3, ReceiveKeepsParked DEF Parked
  <2> QED
    BY <1>2, <1>5, <1>6, <2>1 DEF Gathered
<1>8. \A g \in {z.newest, z.due} : Usable(g) /\ g.tick > z.held.tick => g.tick \in more
  BY <1>1, <1>5, <1>6 DEF Gathered, Outcome, Remembers
<1>9. ASSUME ~z.integrity, z.episode["invalid"] = 0, NEW t \in more
      PROVE  \/ \E g \in z.future : Usable(g) /\ g.tick = t
             \/ z.open /\ z.candidate # NoFrame /\ t <= z.candidate.tick
  <2>1. \A u \in ticks : \/ \E g \in a.future : Usable(g) /\ g.tick = u
                         \/ a.open /\ a.candidate # NoFrame /\ u <= a.candidate.tick
    BY <1>1, <1>9 DEF Gathered
  <2>2. a.candidate # NoFrame =>
          /\ z.candidate # NoFrame /\ z.candidate.tick \in Int
          /\ z.candidate.tick >= a.candidate.tick
    <3>1. CASE z.candidate = a.candidate
      BY <1>3, <3>1
    <3>2. CASE Taken(a, z, f)
      BY <1>3, <3>2, FrameFacts DEF Taken
    <3> QED
      BY <3>1, <3>2 DEF Outcome, Dropped, Enveloped, Parked
  <2>3. CASE t \in ticks
    <3>1. t \in Nat
      BY <2>3
    <3> QED
      BY <1>1, <1>2, <1>3, <2>1, <2>2, <2>3, <3>1
  <2>4. CASE t \notin ticks
    <3>1. t = f.tick /\ Usable(f) /\ f.tick > a.held.tick /\ f \in Datagrams
      BY <1>4, <2>4
    <3>2. CASE Dropped(a, z, f)
      <4>1. identity(a, f) = f
        BY <1>3, <1>9, <3>1, <3>2 DEF Dropped, Usable
      <4>2. f \in Remembered(a) /\ ~IsTerminal(f)
        BY <3>1, <4>1, IdentityFacts DEF Usable
      <4>3. f \in a.future \union {a.newest, a.due}
        BY <3>1, <4>2, FrameFacts DEF Remembered, Ordered
      <4>4. f.tick \in ticks
        BY <3>1, <4>3 DEF Gathered
      <4> QED
        BY <2>4, <3>1, <4>4
    <3>3. CASE Enveloped(a, z, f)
      BY <3>1, <3>3 DEF Enveloped, Usable
    <3>4. CASE Taken(a, z, f)
      BY <1>1, <1>3, <3>1, <3>4, FrameFacts DEF Taken
    <3>5. CASE Parked(a, z, f)
      BY <3>1, <3>5 DEF Parked
    <3> QED
      BY <3>2, <3>3, <3>4, <3>5 DEF Outcome
  <2> QED
    BY <2>3, <2>4
<1> QED
  BY <1>5, <1>7, <1>8, <1>9 DEF Gathered

-----------------------------------------------------------------------------
\* A cycle opened for tick e: the frame parked for e, if any, becomes a candidate.
Opened(a, z, e) ==
    /\ z \in AdmissionType /\ z.open /\ z.cycles = a.cycles /\ z.expected = e
    /\ z.tick_base = a.tick_base
    /\ z.held = a.held /\ z.latch = a.latch /\ z.newest = a.newest
    /\ z.episode = a.episode /\ z.recorded = a.recorded /\ (a.integrity => z.integrity)
    /\ z.rx_count = 0 /\ z.discard_count = 0
    /\ z.terminal_seen_count = 0 /\ z.terminal_seen = {} /\ Balance(z.counts) = 0
    /\ z.terminals["received_raw"] = a.terminals["received_raw"]
    /\ z.warmup_occupancy = IF a.cycles = Warmup THEN future_parked(a) ELSE a.warmup_occupancy
    /\ \/ /\ z.due = NoFrame /\ z.candidate = NoFrame /\ z.terminal_candidate = NoFrame
          /\ z.future = a.future /\ \A f \in a.future : f.tick > e
       \/ /\ z.due \in a.future /\ z.due.tick = e /\ z.future = a.future \ {z.due}
          /\ \A f \in z.future : f.tick > e
          /\ z.candidate = IF IsTerminal(z.due) THEN NoFrame ELSE z.due
          /\ z.terminal_candidate =
               IF IsTerminal(z.due) /\ a.latch = NoFrame THEN z.due ELSE NoFrame

NextTick(a) == IF a.cycles = 0 THEN a.tick_base ELSE a.expected + 1

\* begin_cycle for the next tick is refused, or opens the cycle: no parked frame
\* expires, for they are all within the skew of the tick that has passed.
LEMMA BeginFacts ==
  ASSUME NEW a \in AdmissionType, ~a.open, Window(a), Ordered(a), Coherent(a)
  PROVE  LET z == begin_cycle(a, NextTick(a)) IN
         z = Fail(a) \/ Opened(a, z, NextTick(a))
<1> DEFINE e == NextTick(a)
           z == begin_cycle(a, e)
           gone == Expired(a, e)
           due == IF Due(a, e) = {} THEN NoFrame ELSE CHOOSE f \in Due(a, e) : TRUE
           broken == a.integrity \/ gone # {} \/ (a.cycles # 0 /\ e # a.expected + 1)
           occupancy == IF a.cycles = Warmup THEN future_parked(a) ELSE a.warmup_occupancy
           fields == [Zero(CountFields) EXCEPT !["future_expired"] = ParkedIn(gone)]
           ends == [a.terminals EXCEPT !["future_expired"] = @ + Cardinality({f \in gone : IsTerminal(f)})]
           later == {f \in a.future : f.tick > e} \ gone
           o == [a EXCEPT
                   !.integrity = broken, !.warmup_occupancy = occupancy,
                   !.expected = e, !.open = TRUE, !.fresh = FALSE, !.rx_count = 0,
                   !.discard_count = 0, !.counts = fields, !.terminals = ends,
                   !.candidate = NoFrame, !.due = due, !.terminal_candidate = NoFrame,
                   !.terminal_seen = {}, !.terminal_seen_count = 0, !.future = later]
<1>1. /\ a.cycles \in Nat /\ a.expected \in Nat /\ a.future \subseteq Datagrams
      /\ a.tick_base \in Nat /\ a.terminals \in [TerminalFields -> Nat] /\ a.integrity \in BOOLEAN
      /\ a.warmup_occupancy \in Int
  BY DEF AdmissionType, Ordered
<1>2. e \in Nat
  BY <1>1 DEF NextTick
<1>3. \A f \in a.future : f.tick \in Nat /\ f.tick >= e /\ f.tick - e <= SkewMax
  BY <1>1, FrameFacts, AdmissionAssumption DEF Window, NextTick
<1>4. gone = {}
  BY <1>2, <1>3, AdmissionAssumption DEF Expired
<1>5. ParkedIn({}) = 0 /\ Cardinality({f \in {} : IsTerminal(f)}) = 0
  <2>1. {f \in {} : ~IsTerminal(f)} = {} /\ {f \in {} : IsTerminal(f)} = {}
    OBVIOUS
  <2> QED
    BY <2>1, FS_EmptySet DEF ParkedIn
<1>6. /\ fields \in [CountFields -> Nat] /\ Balance(fields) = 0
  <2>1. fields = [q \in CountFields |-> 0]
    BY <1>4, <1>5 DEF Zero
  <2> HIDE DEF fields
  <2>2. \A q \in CountFields : fields[q] = 0
    BY <2>1
  <2> QED
    BY <2>1, <2>2 DEF Balance, Dispositions, CountFields
<1>7. /\ ends \in [TerminalFields -> Nat]
      /\ ends["received_raw"] = a.terminals["received_raw"]
  <2> DEFINE n == Cardinality({f \in gone : IsTerminal(f)})
  <2>1. n = 0
    BY <1>4, <1>5
  <2> HIDE DEF n
  <2>2. {"future_expired", "received_raw"} \subseteq TerminalFields
    BY DEF TerminalFields
  <2>3. [a.terminals EXCEPT !["future_expired"] = @ + n] \in [TerminalFields -> Nat]
    BY <1>1, <2>1, <2>2
  <2>4. [a.terminals EXCEPT !["future_expired"] = @ + n]["received_raw"] = a.terminals["received_raw"]
    BY <1>1, <2>1, <2>2
  <2> QED
    BY <2>3, <2>4 DEF n
<1>8. occupancy \in Int
  BY <1>1, ParkedInFacts DEF Window, future_parked
<1>9. broken \in BOOLEAN /\ (a.integrity => broken)
  OBVIOUS
<1>10. /\ later \in SUBSET Datagrams
       /\ \/ due = NoFrame /\ later = a.future /\ (\A f \in a.future : f.tick > e)
          \/ /\ due \in a.future /\ due.tick = e /\ later = a.future \ {due}
             /\ \A f \in later : f.tick > e
  <2>1. CASE Due(a, e) = {}
    BY <1>1, <1>2, <1>3, <1>4, <2>1 DEF Due
  <2>2. CASE Due(a, e) # {}
    <3>1. due \in a.future /\ due.tick = e
      BY <2>2 DEF Due
    <3> HIDE DEF due
    <3>2. \A f \in a.future : f.tick = e => f = due
      BY <3>1 DEF Coherent, Remembered
    <3> QED
      BY <1>1, <1>2, <1>3, <1>4, <3>1, <3>2
  <2> QED
    BY <2>1, <2>2
<1>11. due \in MaybeFrame /\ NoFrame \in MaybeFrame
  BY <1>1, <1>10 DEF MaybeFrame
<1>12. z = IF ~MayBegin(a, e) THEN Fail(a)
           ELSE IF due = NoFrame THEN o
           ELSE IF IsTerminal(due) THEN terminal(o, due) ELSE candidate(o, due)
  BY DEF begin_cycle
<1> HIDE DEF e, z, due, broken, occupancy, fields, ends, later
<1>13. o \in AdmissionType
  <2>1. /\ broken \in BOOLEAN /\ occupancy \in Int /\ e \in Int
        /\ fields \in [CountFields -> Nat] /\ ends \in [TerminalFields -> Nat]
        /\ due \in MaybeFrame /\ later \in SUBSET Datagrams
    BY <1>2, <1>6, <1>7, <1>8, <1>9, <1>10, <1>11
  <2> QED
    BY <1>11, <2>1 DEF AdmissionType, o
<1>14. /\ o.open /\ o.cycles = a.cycles /\ o.expected = e /\ o.tick_base = a.tick_base
       /\ o.held = a.held /\ o.latch = a.latch /\ o.newest = a.newest
       /\ o.episode = a.episode /\ o.recorded = a.recorded /\ (a.integrity => o.integrity)
       /\ o.rx_count = 0 /\ o.discard_count = 0
       /\ o.terminal_seen_count = 0 /\ o.terminal_seen = {} /\ Balance(o.counts) = 0
       /\ o.terminals["received_raw"] = a.terminals["received_raw"]
       /\ o.warmup_occupancy = occupancy /\ o.due = due /\ o.candidate = NoFrame
       /\ o.terminal_candidate = NoFrame /\ o.future = later
  BY <1>6, <1>7, <1>9 DEF AdmissionType
<1> HIDE DEF o
<1>15. CASE ~MayBegin(a, e)
  BY <1>12, <1>15 DEF e, z
<1>16. CASE MayBegin(a, e) /\ due = NoFrame
  <2>1. z = o
    BY <1>12, <1>16
  <2>2. z.due = NoFrame /\ z.future = a.future /\ \A f \in a.future : f.tick > e
    BY <1>1, <1>10, <1>14, <1>16, <2>1, FrameFacts
  <2>3. Opened(a, z, e)
    BY <1>13, <1>14, <1>16, <2>1, <2>2 DEF Opened, occupancy
  <2> QED
    BY <2>3 DEF e, z
<1>17. CASE MayBegin(a, e) /\ due # NoFrame
  <2>1. due \in Datagrams /\ due \in a.future /\ due.tick = e /\ later = a.future \ {due}
    BY <1>1, <1>10, <1>17
  <2>2. CASE IsTerminal(due)
    <3>1. z = terminal(o, due)
      BY <1>12, <1>17, <2>2
    <3>2. /\ z \in AdmissionType /\ Fixed(o, z) /\ SameBuffers(o, z) /\ z.counts = o.counts
          /\ z.future = o.future /\ z.newest = o.newest /\ z.candidate = o.candidate
          /\ z.terminal_seen = o.terminal_seen
          /\ z.terminals["received_raw"] = o.terminals["received_raw"]
          /\ z.terminal_candidate =
               IF o.latch = NoFrame /\ (o.terminal_candidate = NoFrame
                                        \/ due.tick > o.terminal_candidate.tick)
               THEN due ELSE o.terminal_candidate
      BY <1>13, <2>1, <3>1, TerminalFacts
    <3>3. Opened(a, z, e)
      BY <1>10, <1>14, <1>17, <2>1, <2>2, <3>2, FrameFacts DEF Opened, occupancy, Fixed, SameBuffers
    <3> QED
      BY <3>3 DEF e, z
  <2>3. CASE ~IsTerminal(due)
    <3>1. z = candidate(o, due)
      BY <1>12, <1>17, <2>3
    <3>2. /\ z \in AdmissionType /\ Fixed(o, z)
          /\ z.future = o.future /\ z.newest = o.newest
          /\ z.terminal_candidate = o.terminal_candidate /\ z.terminal_seen = o.terminal_seen
          /\ z.rx_count = o.rx_count /\ z.terminal_seen_count = o.terminal_seen_count
          /\ z.terminals = o.terminals
          /\ z.candidate = due /\ z.counts = o.counts /\ z.discard_count = o.discard_count
      BY <1>13, <1>14, <2>1, <3>1, CandidateFacts
    <3>3. Opened(a, z, e)
      BY <1>10, <1>14, <1>17, <2>1, <2>3, <3>2, FrameFacts DEF Opened, occupancy, Fixed
    <3> QED
      BY <3>3 DEF e, z
  <2> QED
    BY <2>2, <2>3
<1> QED
  BY <1>15, <1>16, <1>17

\* Opening a cycle keeps every part of the invariant.
LEMMA BeginInv ==
  ASSUME NEW a \in AdmissionType, NEW ticks \in SUBSET Nat, NEW z,
         ~a.open, Window(a), Ordered(a), Coherent(a), Accounts(a), Opened(a, z, NextTick(a))
  PROVE  /\ Window(z) /\ Ordered(z) /\ Coherent(z) /\ Filled(z) /\ Accounts(z)
         /\ Enclosed(a) => Enclosed(z)
         /\ Gathered(a, ticks) => Gathered(z, ticks)
<1> DEFINE e == NextTick(a)
<1>1. /\ a.cycles \in Nat /\ a.expected \in Nat /\ a.future \subseteq Datagrams
      /\ a.held \in MaybeFrame /\ a.latch \in MaybeFrame /\ a.tick_base \in Nat
  BY DEF AdmissionType, Ordered
<1>2. e \in Nat /\ (a.cycles # 0 => e = a.expected + 1) /\ a.held.tick < e /\ a.expected <= e
  BY <1>1, FrameFacts DEF NextTick, Ordered
<1>3. z.open /\ z.expected = e /\ z.cycles = a.cycles /\ z.held = a.held /\ z.latch = a.latch
  BY DEF Opened
<1>4. /\ z.future \subseteq a.future /\ \A f \in z.future : f.tick > e
      /\ z.due \in a.future \union {NoFrame} /\ z.terminal_candidate \in {NoFrame, z.due}
      /\ z.candidate \in {NoFrame, z.due}
      /\ z.due # NoFrame => z.due.tick = e
  BY DEF Opened
<1>5. \A f \in Datagrams : f.tick \in Nat
  BY FrameFacts
<1>6. Window(z)
  <2>1. IsFiniteSet(z.future)
    BY <1>4, FS_Subset DEF Window
  <2>2. ASSUME NEW f \in z.future PROVE f.tick - e \in 1 .. SkewMax
    <3>1. a.cycles # 0 /\ f.tick - a.expected \in 1 .. SkewMax /\ f.tick > e /\ f.tick \in Nat
      BY <1>1, <1>4, <1>5, <2>2 DEF Window
    <3> QED
      BY <1>1, <1>2, <3>1, AdmissionAssumption
  <2> QED
    BY <1>3, <2>1, <2>2 DEF Window
<1>7. Ordered(z)
  <2>1. /\ z.due.tick <= e /\ z.terminal_candidate.tick <= e /\ z.latch.tick <= e
        /\ z.held.tick <= e
    <3>1. a.latch.tick <= e
      BY <1>1, <1>2, FrameFacts DEF Ordered
    <3> QED
      BY <1>1, <1>2, <1>3, <1>4, <3>1, FrameFacts
  <2>2. z.terminal_candidate # NoFrame => IsTerminal(z.terminal_candidate)
    BY DEF Opened
  <2>3. z.candidate # NoFrame => ~IsTerminal(z.candidate) /\ z.candidate.tick = e
    BY DEF Opened
  <2>4. z.terminal_seen = {}
    BY DEF Opened
  <2>5. z.held.tick \in Int /\ z.candidate # NoFrame => z.candidate.tick \in z.held.tick + 1 .. e
    BY <1>1, <1>2, <1>3, <2>3, FrameFacts
  <2>6. a.latch # NoFrame => IsTerminal(a.latch)
    BY DEF Ordered
  <2> QED
    BY <1>1, <1>2, <1>3, <2>1, <2>2, <2>3, <2>4, <2>5, <2>6, FrameFacts DEF Ordered
<1>8. Coherent(z)
  <2>1. Remembered(z) \subseteq Remembered(a) \union {NoFrame} /\ z.newest = a.newest
    BY <1>3, <1>4 DEF Remembered, Opened
  <2>2. Remembered(a) \subseteq MaybeFrame /\ a.newest \in MaybeFrame
    BY DEF Remembered, AdmissionType, MaybeFrame
  <2> QED
    BY <2>1, <2>2, FrameFacts DEF Coherent
<1>9. Filled(z)
  BY DEF Opened, Filled
<1>10. Accounts(z)
  <2>1. /\ Balance(a.episode) \in Int /\ Balance(a.recorded) \in Int
        /\ a.warmup_occupancy \in Int
    BY BalanceType DEF AdmissionType
  <2>2. ParkedIn(a.future) \in Nat
    BY ParkedInFacts DEF Window
  <2>3. Pending(z) = ParkedIn(a.future) /\ Current(z) = 0
    <3>1. CASE z.future = a.future /\ z.candidate = NoFrame
      BY <2>2, <3>1 DEF Pending, Current, future_parked, Opened
    <3>2. CASE z.due \in a.future /\ z.future = a.future \ {z.due}
               /\ z.candidate = IF IsTerminal(z.due) THEN NoFrame ELSE z.due
      <4>1. ParkedIn(z.future) = ParkedIn(a.future) - (IF IsTerminal(z.due) THEN 0 ELSE 1)
        BY <3>2, ParkedInFacts DEF Window
      <4>2. z.due # NoFrame
        BY <1>1, <3>2, FrameFacts
      <4> QED
        BY <1>3, <2>2, <3>2, <4>1, <4>2 DEF Pending, Current, future_parked, Opened
    <3> QED
      BY <3>1, <3>2 DEF Opened
  <2>4. Pending(a) = ParkedIn(a.future) /\ Current(a) = 0
    BY <2>2 DEF Pending, Current, future_parked
  <2>5. /\ z.episode = a.episode /\ z.recorded = a.recorded
        /\ z.warmup_occupancy = IF a.cycles = Warmup THEN ParkedIn(a.future)
                                ELSE a.warmup_occupancy
    BY DEF Opened, future_parked
  <2> QED
    BY <1>1, <1>3, <2>1, <2>2, <2>3, <2>4, <2>5, AdmissionAssumption DEF Accounts
<1>11. ASSUME Enclosed(a) PROVE Enclosed(z)
  <2> SUFFICES ASSUME ~z.integrity
               PROVE  /\ \A g \in z.terminal_seen \union {z.newest} :
                            IsTerminal(g) /\ g.tick > z.expected => g \in z.future
                      /\ z.terminals["received_raw"] > 0 =>
                            \/ z.latch # NoFrame \/ (z.open /\ z.terminal_candidate # NoFrame)
                            \/ \E g \in z.future : IsTerminal(g)
    BY DEF Enclosed
  <2>1. ~a.integrity /\ z.terminal_seen = {} /\ z.newest = a.newest
    BY DEF Opened
  <2>2. ASSUME IsTerminal(a.newest), a.newest.tick > e PROVE a.newest \in z.future
    <3>1. a.newest \in MaybeFrame /\ a.newest.tick \in Int
      BY FrameFacts DEF AdmissionType
    <3>2. a.newest \in a.future
      BY <1>1, <1>2, <1>11, <2>1, <2>2, <3>1 DEF Enclosed
    <3> QED
      BY <1>2, <2>2, <3>1, <3>2 DEF Opened
  <2>3. ASSUME z.terminals["received_raw"] > 0
        PROVE  \/ z.latch # NoFrame \/ z.terminal_candidate # NoFrame
               \/ \E g \in z.future : IsTerminal(g)
    <3>1. a.latch # NoFrame \/ \E g \in a.future : IsTerminal(g)
      BY <1>11, <2>1, <2>3 DEF Opened, Enclosed
    <3>2. CASE a.latch # NoFrame
      BY <1>3, <3>2
    <3>3. CASE a.latch = NoFrame
      <4>1. PICK g \in a.future : IsTerminal(g)
        BY <3>1, <3>3
      <4>2. g \in z.future \/ g = z.due
        BY <4>1 DEF Opened
      <4>3. g = z.due => z.terminal_candidate = g
        BY <1>1, <3>3, <4>1, FrameFacts DEF Opened
      <4> QED
        BY <1>1, <4>1, <4>2, <4>3, FrameFacts
    <3> QED
      BY <3>2, <3>3
  <2> QED
    BY <1>3, <2>1, <2>2, <2>3
<1>12. ASSUME Gathered(a, ticks) PROVE Gathered(z, ticks)
  <2>1. z.newest = a.newest /\ z.episode = a.episode /\ (a.integrity => z.integrity)
    BY DEF Opened
  <2>2. \A f \in z.future : Usable(f) => f.tick \in ticks
    BY <1>4, <1>12 DEF Gathered
  <2>3. \A f \in {z.newest, z.due} : Usable(f) /\ f.tick > z.held.tick => f.tick \in ticks
    BY <1>1, <1>3, <1>4, <1>12, <2>1, FrameFacts DEF Gathered
  <2>4. ASSUME ~z.integrity, z.episode["invalid"] = 0, NEW t \in ticks
        PROVE  \/ \E f \in z.future : Usable(f) /\ f.tick = t
               \/ z.open /\ z.candidate # NoFrame /\ t <= z.candidate.tick
    <3>1. PICK f \in a.future : Usable(f) /\ f.tick = t
      BY <1>12, <2>1, <2>4 DEF Gathered
    <3>2. CASE f \in z.future
      BY <3>1, <3>2
    <3>3. CASE f \notin z.future
      <4>1. f = z.due /\ z.candidate = f /\ f # NoFrame /\ f.tick \in Nat
        BY <1>1, <3>1, <3>3, FrameFacts DEF Opened, Usable
      <4> QED
        BY <1>3, <3>1, <4>1
    <3> QED
      BY <3>2, <3>3
  <2> QED
    BY <2>2, <2>3, <2>4 DEF Gathered
<1> QED
  BY <1>6, <1>7, <1>8, <1>9, <1>10, <1>11, <1>12

-----------------------------------------------------------------------------
\* A cycle finished: the candidate is consumed, or counted as invalid.
Closed(a, z) ==
    /\ z \in AdmissionType /\ ~z.open /\ z.cycles = a.cycles + 1 /\ z.expected = a.expected
    /\ z.tick_base = a.tick_base
    /\ z.integrity = a.integrity /\ z.future = a.future /\ z.newest = a.newest /\ z.due = a.due
    /\ z.terminal_candidate = a.terminal_candidate /\ z.terminal_seen = a.terminal_seen
    /\ z.terminal_seen_count = a.terminal_seen_count /\ z.rx_count = a.rx_count
    /\ z.discard_count = a.discard_count /\ z.warmup_occupancy = a.warmup_occupancy
    /\ z.terminals = a.terminals
    /\ z.latch = IF a.latch = NoFrame THEN a.terminal_candidate ELSE a.latch
    /\ Balance(z.counts) = Balance(a.counts) - (IF a.candidate = NoFrame THEN 0 ELSE 1)
    /\ Balance(z.episode) = Balance(a.episode) + Balance(z.counts)
    /\ Balance(z.recorded) =
         IF a.cycles >= Warmup THEN Balance(a.recorded) + Balance(z.counts)
         ELSE Balance(a.recorded)
    /\ z.episode["invalid"] >= a.episode["invalid"]
    /\ \/ a.candidate = NoFrame /\ z.held = a.held
       \/ a.candidate # NoFrame /\ z.held = a.candidate
       \/ a.candidate # NoFrame /\ z.held = a.held /\ z.episode["invalid"] > a.episode["invalid"]

\* The balance of two cycles' counters together is the sum of their balances.
LEMMA AddFacts ==
  ASSUME NEW c \in [CountFields -> Nat], NEW d \in [CountFields -> Nat]
  PROVE  /\ Add(c, d) \in [CountFields -> Nat]
         /\ Balance(Add(c, d)) = Balance(c) + Balance(d)
         /\ Add(c, d)["invalid"] = c["invalid"] + d["invalid"]
<1> DEFINE s == Add(c, d)
<1>1. \A q \in CountFields : c[q] \in Nat /\ d[q] \in Nat /\ s[q] = c[q] + d[q]
  BY DEF Add
<1>2. s \in [CountFields -> Nat]
  BY <1>1 DEF Add
<1> HIDE DEF s
<1>3. Balance(s) = Balance(c) + Balance(d)
  BY <1>1 DEF Balance, Dispositions, CountFields
<1>4. s["invalid"] = c["invalid"] + d["invalid"]
  BY <1>1 DEF CountFields
<1> QED
  BY <1>2, <1>3, <1>4 DEF s

\* finish_cycle of an open cycle closes it.
LEMMA FinishFacts ==
  ASSUME NEW a \in AdmissionType, a.open
  PROVE  Closed(a, finish_cycle(a))
<1> DEFINE fresh == a.candidate # NoFrame /\ a.candidate.use = "valid"
           q == IF fresh THEN "consumed" ELSE "invalid"
           c == IF a.candidate = NoFrame THEN a.counts ELSE [a.counts EXCEPT ![q] = @ + 1]
           h == IF fresh THEN a.candidate ELSE a.held
           l == IF a.latch = NoFrame THEN a.terminal_candidate ELSE a.latch
           e == Add(a.episode, c)
           w == IF a.cycles >= Warmup THEN Add(a.recorded, c) ELSE a.recorded
           n == a.cycles + 1
           z == [a EXCEPT !.open = FALSE, !.cycles = n, !.fresh = fresh, !.counts = c,
                          !.held = h, !.latch = l, !.episode = e, !.recorded = w]
<1>1. finish_cycle(a) = z
  BY DEF finish_cycle
<1>2. /\ a.counts \in [CountFields -> Nat] /\ a.episode \in [CountFields -> Nat]
      /\ a.recorded \in [CountFields -> Nat] /\ a.candidate \in MaybeFrame
      /\ a.held \in MaybeFrame /\ a.latch \in MaybeFrame
      /\ a.terminal_candidate \in MaybeFrame /\ a.cycles \in Nat
  BY DEF AdmissionType
<1>3. q \in CountFields /\ q # "received" /\ q # "malformed"
  BY DEF CountFields
<1> HIDE DEF q
<1>4. /\ c \in [CountFields -> Nat] /\ Balance(c) \in Int
      /\ Balance(c) = Balance(a.counts) - (IF a.candidate = NoFrame THEN 0 ELSE 1)
      /\ a.candidate # NoFrame /\ q = "invalid" => c["invalid"] >= 1
  <2>1. Balance(a.counts) \in Int
    BY <1>2, BalanceType
  <2>2. CASE a.candidate = NoFrame
    BY <1>2, <2>1, <2>2
  <2>3. CASE a.candidate # NoFrame
    <3>1. c = [a.counts EXCEPT ![q] = @ + 1]
      BY <2>3
    <3> HIDE DEF c
    <3>2. c \in [CountFields -> Nat] /\ c[q] = a.counts[q] + 1 /\ a.counts[q] \in Nat
      BY <1>2, <1>3, <3>1
    <3>3. Balance(c) = Balance(a.counts) + (-1)
      BY <1>2, <1>3, <3>1, BalanceFacts
    <3> QED
      BY <2>1, <2>3, <3>2, <3>3
  <2> QED
    BY <2>2, <2>3
<1>5. c["invalid"] \in Nat /\ a.episode["invalid"] \in Nat
  BY <1>2, <1>4 DEF CountFields
<1> HIDE DEF c
<1>6. /\ e \in [CountFields -> Nat] /\ Balance(e) = Balance(a.episode) + Balance(c)
      /\ e["invalid"] = a.episode["invalid"] + c["invalid"]
  BY <1>2, <1>4, AddFacts
<1>7. /\ w \in [CountFields -> Nat]
      /\ Balance(w) = IF a.cycles >= Warmup THEN Balance(a.recorded) + Balance(c)
                      ELSE Balance(a.recorded)
  BY <1>2, <1>4, AddFacts
<1>8. h \in MaybeFrame /\ l \in MaybeFrame /\ n \in Nat /\ fresh \in BOOLEAN
  BY <1>2
<1>9. \/ a.candidate = NoFrame /\ h = a.held
      \/ a.candidate # NoFrame /\ h = a.candidate
      \/ a.candidate # NoFrame /\ h = a.held /\ q = "invalid"
  BY DEF q
<1> HIDE DEF e, w, h, fresh
<1>10. z \in AdmissionType
  BY ZenonT(60), <1>4, <1>6, <1>7, <1>8 DEF AdmissionType
<1>11. /\ ~z.open /\ z.cycles = n /\ z.expected = a.expected /\ z.tick_base = a.tick_base
       /\ z.integrity = a.integrity /\ z.future = a.future /\ z.newest = a.newest
       /\ z.due = a.due /\ z.terminal_candidate = a.terminal_candidate
       /\ z.terminal_seen = a.terminal_seen
       /\ z.terminal_seen_count = a.terminal_seen_count /\ z.rx_count = a.rx_count
       /\ z.discard_count = a.discard_count /\ z.warmup_occupancy = a.warmup_occupancy
       /\ z.terminals = a.terminals
       /\ z.latch = l /\ z.counts = c /\ z.episode = e /\ z.recorded = w /\ z.held = h
  BY DEF AdmissionType
<1> HIDE DEF z
<1>12. Closed(a, z)
  BY <1>4, <1>5, <1>6, <1>7, <1>9, <1>10, <1>11 DEF Closed
<1> QED
  BY <1>1, <1>12

\* Finishing a cycle keeps every part of the invariant.
LEMMA FinishInv ==
  ASSUME NEW a \in AdmissionType, NEW ticks \in SUBSET Nat, NEW z,
         a.open, Window(a), Ordered(a), Coherent(a), Filled(a), Accounts(a), Closed(a, z)
  PROVE  /\ Window(z) /\ Ordered(z) /\ Coherent(z) /\ Filled(z) /\ Accounts(z)
         /\ Enclosed(a) => Enclosed(z)
         /\ Gathered(a, ticks) => Gathered(z, {t \in ticks : t > z.held.tick})
<1>1. /\ a.cycles \in Nat /\ z.cycles = a.cycles + 1 /\ z.cycles # 0 /\ a.expected \in Nat
      /\ ~z.open /\ z.expected = a.expected
  BY DEF AdmissionType, Closed, Ordered
<1>2. /\ a.held \in MaybeFrame /\ a.candidate \in MaybeFrame /\ a.latch \in MaybeFrame
      /\ a.terminal_candidate \in MaybeFrame
  BY DEF AdmissionType
<1>3. z.held \in {a.held, a.candidate} /\ z.held.tick \in Int /\ z.held.tick >= a.held.tick
      /\ z.held.tick <= a.expected
  <2>1. CASE z.held = a.held
    BY <1>2, <2>1, FrameFacts DEF Ordered
  <2>2. CASE a.candidate # NoFrame /\ z.held = a.candidate
    BY <1>2, <1>1, <2>2, FrameFacts DEF Ordered
  <2> QED
    BY <2>1, <2>2 DEF Closed
<1>4. Window(z)
  BY <1>1 DEF Window, Closed
<1>5. Ordered(z)
  BY <1>1, <1>3 DEF Ordered, Closed
<1>6. Coherent(z)
  <2>1. Remembered(z) \subseteq Remembered(a) /\ z.newest = a.newest
    BY DEF Remembered, Closed
  <2> QED
    BY <2>1 DEF Coherent
<1>7. Filled(z)
  BY DEF Filled, Closed
<1>8. Accounts(z)
  <2>1. /\ Balance(a.episode) \in Int /\ Balance(a.recorded) \in Int
        /\ Balance(a.counts) \in Int /\ Balance(z.counts) \in Int
        /\ a.warmup_occupancy \in Int
    BY BalanceType DEF AdmissionType, Closed
  <2>2. ParkedIn(a.future) \in Nat
    BY ParkedInFacts DEF Window
  <2>3. Pending(z) = ParkedIn(a.future) /\ Current(z) = 0
    BY <1>1, <2>2 DEF Pending, Current, future_parked, Closed
  <2>4. /\ Pending(a) = ParkedIn(a.future) + (IF a.candidate = NoFrame THEN 0 ELSE 1)
        /\ Current(a) = Balance(a.counts)
    BY DEF Pending, Current, future_parked
  <2>5. /\ Balance(z.counts) = Balance(a.counts) - (IF a.candidate = NoFrame THEN 0 ELSE 1)
        /\ Balance(z.episode) = Balance(a.episode) + Balance(z.counts)
        /\ Balance(z.recorded) =
             IF a.cycles >= Warmup THEN Balance(a.recorded) + Balance(z.counts)
             ELSE Balance(a.recorded)
        /\ z.warmup_occupancy = a.warmup_occupancy
    BY DEF Closed
  <2> QED
    BY <1>1, <2>1, <2>2, <2>3, <2>4, <2>5, AdmissionAssumption DEF Accounts
<1>9. Enclosed(a) => Enclosed(z)
  BY <1>1 DEF Enclosed, Closed
<1>10. ASSUME Gathered(a, ticks) PROVE Gathered(z, {t \in ticks : t > z.held.tick})
  <2> DEFINE left == {t \in ticks : t > z.held.tick}
  <2>1. /\ z.future = a.future /\ z.newest = a.newest /\ z.due = a.due
        /\ z.integrity = a.integrity
    BY DEF Closed
  <2>2. a.future \subseteq Datagrams /\ a.newest \in MaybeFrame /\ a.due \in MaybeFrame
    BY DEF AdmissionType
  <2>3. \A f \in z.future : f.tick > z.held.tick
    BY <1>1, <1>3, <2>1, <2>2, FrameFacts DEF Window
  <2>4. \A f \in z.future : Usable(f) => f.tick \in left
    BY <1>10, <2>1, <2>3 DEF Gathered
  <2>5. \A f \in {z.newest, z.due} : Usable(f) /\ f.tick > z.held.tick => f.tick \in left
    BY <1>2, <1>3, <1>10, <2>1, <2>2, FrameFacts DEF Gathered
  <2>6. ASSUME ~z.integrity, z.episode["invalid"] = 0, NEW t \in left
        PROVE  \E f \in z.future : Usable(f) /\ f.tick = t
    <3>1. a.episode["invalid"] \in Nat
      BY DEF AdmissionType, CountFields
    <3>2. a.episode["invalid"] = 0
      BY <2>6, <3>1 DEF Closed
    <3>3. \/ \E f \in a.future : Usable(f) /\ f.tick = t
          \/ a.candidate # NoFrame /\ t <= a.candidate.tick
      BY <1>10, <2>1, <2>6, <3>2 DEF Gathered
    <3>4. a.candidate # NoFrame => z.held = a.candidate
      BY <2>6, <3>2 DEF Closed
    <3>5. t \in Nat /\ t > z.held.tick
      OBVIOUS
    <3> QED
      BY <1>3, <2>1, <3>3, <3>4, <3>5
  <2> HIDE DEF left
  <2>7. Gathered(z, left)
    BY <2>4, <2>5, <2>6 DEF Gathered
  <2> QED
    BY <2>7 DEF left
<1> QED
  BY <1>4, <1>5, <1>6, <1>7, <1>8, <1>9, <1>10

-----------------------------------------------------------------------------
\* A new Admission satisfies the invariant.
LEMMA InitIInv == AdmissionInit => IInv
<1> SUFFICES ASSUME AdmissionInit PROVE IInv
  OBVIOUS
<1>1. adm = NewAdmission(TickBase) /\ got = {}
  BY DEF AdmissionInit
<1>2. /\ Zero(CountFields) \in [CountFields -> Nat] /\ Balance(Zero(CountFields)) = 0
      /\ Zero(TerminalFields) \in [TerminalFields -> Nat]
      /\ Zero(TerminalFields)["received_raw"] = 0 /\ Zero(CountFields)["invalid"] = 0
  BY DEF Zero, Balance, Dispositions, CountFields, TerminalFields
<1>3. NoFrame \in MaybeFrame /\ (SkewMax > MaxSkew) \in BOOLEAN /\ TickBase \in Nat
  BY CyclesAssumption DEF MaybeFrame
<1>4. adm \in AdmissionType
  BY <1>1, <1>2, <1>3 DEF NewAdmission, AdmissionType
<1>5. /\ adm.cycles = 0 /\ adm.expected = 0 /\ ~adm.open /\ adm.future = {}
      /\ adm.tick_base = TickBase
      /\ adm.newest = NoFrame /\ adm.due = NoFrame /\ adm.candidate = NoFrame
      /\ adm.held = NoFrame /\ adm.latch = NoFrame /\ adm.terminal_candidate = NoFrame
      /\ adm.terminal_seen = {} /\ adm.terminal_seen_count = 0 /\ adm.rx_count = 0
      /\ adm.discard_count = 0 /\ adm.episode = Zero(CountFields)
      /\ adm.recorded = Zero(CountFields) /\ adm.terminals = Zero(TerminalFields)
  BY <1>1 DEF NewAdmission
<1>6. Window(adm)
  BY <1>5, FS_EmptySet DEF Window
<1>7. Ordered(adm)
  BY <1>5, FrameFacts DEF Ordered
<1>8. Coherent(adm) /\ Filled(adm)
  BY <1>5, FrameFacts DEF Coherent, Remembered, Filled
<1>9. Accounts(adm)
  <2>1. Pending(adm) = 0 /\ Current(adm) = 0
    <3>1. {f \in {} : ~IsTerminal(f)} = {}
      OBVIOUS
    <3> QED
      BY <1>5, <3>1, FS_EmptySet DEF Pending, Current, future_parked, ParkedIn
  <2> QED
    BY <1>2, <1>5, <2>1, AdmissionAssumption DEF Accounts
<1>10. Enclosed(adm)
  BY <1>2, <1>5, FrameFacts DEF Enclosed
<1>11. Gathered(adm, got)
  BY <1>1, <1>5, FrameFacts DEF Gathered
<1> QED
  BY <1>1, <1>4, <1>5, <1>6, <1>7, <1>8, <1>9, <1>10, <1>11 DEF IInv

\* Every step of the caller keeps the invariant.
LEMMA NextIInv == IInv /\ [AdmissionNext]_admission_vars => IInv'
<1> SUFFICES ASSUME IInv, [AdmissionNext]_admission_vars PROVE IInv'
  OBVIOUS
<1> USE DEF IInv
<1>1. CASE Begin
  <2> DEFINE z == begin_cycle(adm, NextTick(adm))
  <2>1. adm' = z /\ got' = got /\ ~adm.open
    BY <1>1 DEF Begin, NextTick
  <2>2. z = Fail(adm) \/ Opened(adm, z, NextTick(adm))
    BY <2>1, BeginFacts
  <2> HIDE DEF z
  <2>3. CASE z = Fail(adm)
    <3>1. /\ adm' \in AdmissionType /\ Fixed(adm, adm') /\ SameFrames(adm, adm')
          /\ SameBuffers(adm, adm') /\ SameCounts(adm, adm') /\ adm'.integrity
      BY <2>1, <2>3, FailFacts
    <3>2. Window(adm') /\ Ordered(adm') /\ Filled(adm')
      BY <2>1, <3>1 DEF Window, Ordered, Filled, Fixed, SameFrames, SameBuffers
    <3>3. Coherent(adm')
      BY <3>1 DEF Coherent, Remembered, Fixed, SameFrames
    <3>4. Accounts(adm')
      BY <3>1 DEF Accounts, Pending, Current, future_parked, Fixed, SameFrames, SameCounts
    <3>5. Enclosed(adm') /\ Gathered(adm', got')
      BY <2>1, <3>1 DEF Enclosed, Gathered, Fixed, SameFrames
    <3> QED
      BY <2>1, <3>1, <3>2, <3>3, <3>4, <3>5 DEF Fixed
  <2>4. CASE Opened(adm, z, NextTick(adm))
    <3>1. z \in AdmissionType /\ z.tick_base = adm.tick_base
      BY <2>4 DEF Opened
    <3> QED
      BY <2>1, <2>4, <3>1, BeginInv
  <2> QED
    BY <2>2, <2>3, <2>4
<1>2. CASE Finish
  <2>1. adm.open /\ adm' = finish_cycle(adm) /\ got' = {t \in got : t > adm'.held.tick}
    BY <1>2 DEF Finish
  <2>2. Closed(adm, adm')
    BY <2>1, FinishFacts
  <2>3. adm' \in AdmissionType /\ adm'.tick_base = adm.tick_base
    BY <2>2 DEF Closed
  <2>4. got' \in SUBSET Nat
    BY <2>1
  <2>5. /\ Window(adm') /\ Ordered(adm') /\ Coherent(adm') /\ Filled(adm') /\ Accounts(adm')
        /\ Enclosed(adm') /\ Gathered(adm', {t \in got : t > adm'.held.tick})
    BY <2>1, <2>2, FinishInv
  <2> QED
    BY <2>1, <2>3, <2>4, <2>5
<1>3. ASSUME NEW f \in Datagrams \union {Malformed}, Receive(f)
      PROVE  IInv'
  <2>1. adm.open /\ adm.rx_count < RxLimit(adm) /\ adm' = receive(adm, f)
    BY <1>3 DEF Receive
  <2>2. Outcome(adm, adm', f)
    BY <2>1, ReceiveFacts
  <2>3. got' = IF Usable(f) /\ f.tick > adm.held.tick THEN got \union {f.tick} ELSE got
    BY <1>3 DEF Receive, Usable
  <2>4. Gathered(adm', got') /\ got' \in SUBSET Nat
    BY <2>1, <2>2, <2>3, ReceiveGathered
  <2>5. adm' \in AdmissionType /\ adm'.tick_base = adm.tick_base
    BY <2>2 DEF Outcome, Fixed
  <2>6. Window(adm') /\ Ordered(adm') /\ Coherent(adm')
    BY <2>1, <2>2, ReceiveWindow, ReceiveOrdered, ReceiveCoherent
  <2>7. Filled(adm') /\ Accounts(adm') /\ Enclosed(adm')
    BY <2>1, <2>2, ReceiveFilled, ReceiveAccounts, ReceiveEnclosed
  <2> QED
    BY <2>4, <2>5, <2>6, <2>7
<1>4. CASE UNCHANGED admission_vars
  BY <1>4 DEF admission_vars
<1>5. Frames \subseteq Datagrams
  BY CyclesAssumption DEF Frames, Datagrams
<1> QED
  BY <1>1, <1>2, <1>3, <1>4, <1>5 DEF AdmissionNext, CyclesDone

\* The parts of the invariant hold in every state.
THEOREM AdmissionInvariant == AdmissionSpec => []IInv
  BY InitIInv, NextIInv, PTL DEF AdmissionSpec

\* identities_hold() is true after every finish_cycle: each sample received is
\* counted for one disposal or still parked, in the episode and in the recorded
\* window, for every warm-up length, skew and batch.
THEOREM IdentitiesAlwaysHold == AdmissionSpec => []IdentitiesHold
<1>1. IInv => IdentitiesHold
  <2> SUFFICES ASSUME IInv, ~adm.open PROVE identities_hold(adm)
    BY DEF IdentitiesHold
  <2>1. /\ adm.episode \in [CountFields -> Nat] /\ adm.recorded \in [CountFields -> Nat]
        /\ adm.warmup_occupancy \in Int /\ adm.cycles \in Nat
    BY DEF IInv, AdmissionType
  <2>2. future_parked(adm) \in Nat
    BY ParkedInFacts DEF IInv, Window, future_parked
  <2>3. /\ Balance(adm.episode) = future_parked(adm)
        /\ adm.cycles > Warmup =>
             Balance(adm.recorded) + adm.warmup_occupancy = future_parked(adm)
    BY <2>1, <2>2, BalanceType DEF IInv, Accounts, Pending, Current
  <2>4. /\ adm.episode["received"] \in Nat /\ Dispositions(adm.episode) \in Nat
        /\ adm.recorded["received"] \in Nat /\ Dispositions(adm.recorded) \in Nat
    BY <2>1, BalanceType
  <2> QED
    BY <2>1, <2>2, <2>3, <2>4, AdmissionAssumption DEF identities_hold, Closes, Balance
<1> QED
  BY <1>1, AdmissionInvariant, PTL

\* No fixed buffer of the admission overflows and no slot holds two frames.
THEOREM BuffersAlwaysSuffice == AdmissionSpec => []BuffersSuffice
<1>1. IInv => BuffersSuffice
  BY DEF IInv, BuffersSuffice, Filled, Window, Coherent, Remembered
<1> QED
  BY <1>1, AdmissionInvariant, PTL

\* Between cycles the held sample is the newest usable one whose tick has come,
\* and the newer ones are parked, unless the run is already known to be bad.
THEOREM HeldIsAlwaysNewest == AdmissionSpec => []HeldIsNewest
<1>1. IInv => HeldIsNewest
  <2> SUFFICES ASSUME IInv, ~adm.open, ~adm.integrity, adm.episode["invalid"] = 0
               PROVE  got = {f.tick : f \in {g \in adm.future : ~IsTerminal(g) /\ g.use = "valid"}}
    BY DEF HeldIsNewest
  <2>1. \A t \in got : \E f \in adm.future : Usable(f) /\ f.tick = t
    BY DEF IInv, Gathered
  <2>2. \A f \in adm.future : Usable(f) => f.tick \in got
    BY DEF IInv, Gathered
  <2> QED
    BY <2>1, <2>2 DEF Usable
<1> QED
  BY <1>1, AdmissionInvariant, PTL

\* A terminal envelope received is latched or parked, unless the admission failed.
THEOREM TerminalNeverLost == AdmissionSpec => []TerminalNotLost
<1>1. IInv => TerminalNotLost
  BY DEF IInv, Enclosed, TerminalNotLost
<1> QED
  BY <1>1, AdmissionInvariant, PTL

-----------------------------------------------------------------------------
(* What the free run's proofs need of the admission's counters. *)

\* The frames the simulator sends.
SimFrames ==
    [tick : Nat, use : {"valid"}, reason : {"none"} \union Legal, body : Truths]

IsSample(f) == f # Malformed /\ ~IsTerminal(f)

\* The counters, the latched failure and the newest sample's tick.
SameTally(a, z) ==
    /\ z.counts = a.counts /\ z.terminals = a.terminals /\ z.integrity = a.integrity
    /\ z.last_normal_tick = a.last_normal_tick /\ z.discard_count = a.discard_count

\* Count and CountTerminal change one counter of the tally.
LEMMA CountTally ==
  ASSUME NEW a \in AdmissionType
  PROVE  /\ \A q \in CountFields :
              LET z == Count(a, q) IN
              /\ z.integrity = a.integrity /\ z.last_normal_tick = a.last_normal_tick
              /\ z.discard_count = a.discard_count /\ z.terminals = a.terminals
              /\ z.counts = [a.counts EXCEPT ![q] = @ + 1] /\ z \in AdmissionType
         /\ \A q \in TerminalFields :
              LET z == CountTerminal(a, q) IN
              /\ z.integrity = a.integrity /\ z.last_normal_tick = a.last_normal_tick
              /\ z.discard_count = a.discard_count /\ z.counts = a.counts
              /\ z.terminals = [a.terminals EXCEPT ![q] = @ + 1] /\ z \in AdmissionType
<1>1. ASSUME NEW q \in CountFields
      PROVE  LET z == Count(a, q) IN
              /\ z.integrity = a.integrity /\ z.last_normal_tick = a.last_normal_tick
              /\ z.discard_count = a.discard_count /\ z.terminals = a.terminals
              /\ z.counts = [a.counts EXCEPT ![q] = @ + 1]
  BY DEF Count, AdmissionType
<1>2. ASSUME NEW q \in TerminalFields
      PROVE  LET z == CountTerminal(a, q) IN
              /\ z.integrity = a.integrity /\ z.last_normal_tick = a.last_normal_tick
              /\ z.discard_count = a.discard_count /\ z.counts = a.counts
              /\ z.terminals = [a.terminals EXCEPT ![q] = @ + 1]
  BY DEF CountTerminal, AdmissionType
<1>3. /\ \A q \in CountFields : Count(a, q) \in AdmissionType
      /\ \A q \in TerminalFields : CountTerminal(a, q) \in AdmissionType
  BY CountFacts, CountTerminalFacts
<1> QED
  BY <1>1, <1>2, <1>3

\* remember, See and Park count nothing.
LEMMA QuietFacts ==
  ASSUME NEW a \in AdmissionType, NEW f \in Datagrams
  PROVE  /\ SameTally(a, remember(a, f)) /\ SameTally(a, See(a, f)) /\ SameTally(a, Park(a, f))
         /\ remember(a, f) \in AdmissionType /\ See(a, f) \in AdmissionType
         /\ Park(a, f) \in AdmissionType
<1>1. SameTally(a, remember(a, f))
  BY DEF remember, SameTally, AdmissionType
<1>2. SameTally(a, See(a, f)) /\ SameTally(a, Park(a, f))
  BY DEF See, Park, SameTally, AdmissionType
<1> QED
  BY <1>1, <1>2, RememberFacts, SeeFacts, ParkFacts

\* Fail only latches the failure.
LEMMA FailTally ==
  ASSUME NEW a \in AdmissionType
  PROVE  /\ Fail(a).counts = a.counts /\ Fail(a).terminals = a.terminals /\ Fail(a).integrity
         /\ Fail(a).last_normal_tick = a.last_normal_tick
         /\ Fail(a).discard_count = a.discard_count
  BY DEF Fail, AdmissionType

\* discard has room for the datagrams of a cycle.
LEMMA DiscardTally ==
  ASSUME NEW a \in AdmissionType, a.discard_count <= RxMax
  PROVE  LET z == discard(a) IN
         /\ z.integrity = a.integrity /\ z.last_normal_tick = a.last_normal_tick
         /\ z.counts = a.counts /\ z.terminals = a.terminals
         /\ z.discard_count = a.discard_count + 1 /\ z \in AdmissionType
<1>1. a.discard_count \in Nat /\ a.discard_count # RxMax + 1
  BY AdmissionAssumption DEF AdmissionType
<1>2. discard(a) = [a EXCEPT !.discard_count = @ + 1]
  BY <1>1 DEF discard
<1> QED
  BY <1>1, <1>2 DEF AdmissionType

\* candidate counts the frame it supersedes, if any.
LEMMA CandidateTally ==
  ASSUME NEW a \in AdmissionType, NEW f \in Datagrams, a.discard_count <= RxMax
  PROVE  LET z == candidate(a, f) IN
         /\ z.integrity = a.integrity /\ z.last_normal_tick = a.last_normal_tick
         /\ z.terminals = a.terminals
         /\ \/ z.counts = a.counts /\ z.discard_count = a.discard_count
            \/ /\ z.counts = [a.counts EXCEPT !["superseded"] = @ + 1]
               /\ z.discard_count = a.discard_count + 1
         /\ a.candidate = NoFrame => z.counts = a.counts /\ z.discard_count = a.discard_count
<1>1. CASE a.candidate = NoFrame
  BY <1>1 DEF candidate, AdmissionType
<1>2. CASE a.candidate # NoFrame
  <2> DEFINE c == Count(a, "superseded")
             d == discard(c)
  <2>1. /\ c \in AdmissionType /\ c.discard_count = a.discard_count
        /\ c.integrity = a.integrity /\ c.last_normal_tick = a.last_normal_tick
        /\ c.terminals = a.terminals /\ c.counts = [a.counts EXCEPT !["superseded"] = @ + 1]
    BY CountTally DEF CountFields
  <2> HIDE DEF c
  <2>2. /\ d.integrity = c.integrity /\ d.last_normal_tick = c.last_normal_tick
        /\ d.counts = c.counts /\ d.terminals = c.terminals
        /\ d.discard_count = c.discard_count + 1 /\ d \in AdmissionType
    BY <2>1, DiscardTally
  <2> HIDE DEF d
  <2> DEFINE best == IF f.tick > d.candidate.tick THEN f ELSE d.candidate
  <2>3. candidate(a, f) = [d EXCEPT !.candidate = best]
    BY <1>2 DEF candidate, d, c
  <2> HIDE DEF best
  <2> QED
    BY <1>2, <2>1, <2>2, <2>3 DEF AdmissionType
<1> QED
  BY <1>1, <1>2

\* terminal counts nothing for a legal reason.
LEMMA TerminalTally ==
  ASSUME NEW a \in AdmissionType, NEW f, f.reason \in Legal
  PROVE  SameTally(a, terminal(a, f))
  BY DEF terminal, SameTally, AdmissionType

\* The datagrams of a cycle that were discarded, by their counters.
Spilled(c) == c["old"] + c["superseded"] + c["nonfinite"] + c["skew_excess"]
Excess(a) == a.counts["skew_excess"] + a.terminals["skew_excess"]

\* What one datagram of the simulator, or a malformed one, adds to the tally.
Tallied(a, z, f) ==
    /\ z.last_normal_tick = IF IsSample(f) /\ f.tick > a.last_normal_tick THEN f.tick
                            ELSE a.last_normal_tick
    /\ z.counts["received"] = a.counts["received"] + (IF IsSample(f) THEN 1 ELSE 0)
    /\ z.counts["malformed"] = a.counts["malformed"] + (IF f = Malformed THEN 1 ELSE 0)
    /\ z.terminals["received_raw"] = a.terminals["received_raw"] + (IF IsTerminal(f) THEN 1 ELSE 0)
    /\ \A q \in {"consumed", "conflict", "future_expired", "nonfinite"} :
           z.counts[q] = a.counts[q]
    /\ \A q \in {"conflict", "future_expired", "illegal_reason"} : z.terminals[q] = a.terminals[q]
    /\ z.discard_count - a.discard_count = Spilled(z.counts) - Spilled(a.counts)
    /\ \/ z.integrity = a.integrity /\ Excess(z) = Excess(a) /\ f # Malformed
       \/ z.integrity /\ Excess(z) = Excess(a) /\ f = Malformed
       \/ z.integrity /\ Excess(z) = Excess(a) + 1 /\ f # Malformed

\* The counters of a cycle are natural numbers, each by its name.
LEMMA CountersType ==
  ASSUME NEW c \in [CountFields -> Nat]
  PROVE  /\ c["received"] \in Nat /\ c["consumed"] \in Nat /\ c["old"] \in Nat
         /\ c["superseded"] \in Nat /\ c["nonfinite"] \in Nat /\ c["skew_excess"] \in Nat
         /\ c["duplicate"] \in Nat /\ c["conflict"] \in Nat /\ c["invalid"] \in Nat
         /\ c["future_expired"] \in Nat /\ c["malformed"] \in Nat
  BY DEF CountFields

\* The counters of terminal envelopes are natural numbers, each by its name.
LEMMA TerminalsType ==
  ASSUME NEW c \in [TerminalFields -> Nat]
  PROVE  /\ c["received_raw"] \in Nat /\ c["duplicate"] \in Nat /\ c["conflict"] \in Nat
         /\ c["skew_excess"] \in Nat /\ c["future_expired"] \in Nat
         /\ c["illegal_reason"] \in Nat
  BY DEF TerminalFields

\* receive counts a datagram once, and fails the admission only for a malformed
\* datagram or one too far ahead, provided that frames of one tick are equal.
LEMMA ReceiveTally ==
  ASSUME NEW a \in AdmissionType, NEW f \in SimFrames \union {Malformed},
         a.open, a.rx_count < RxLimit(a), a.discard_count <= a.rx_count,
         f # Malformed => identity(a, f) \in {NoFrame, f}
  PROVE  Tallied(a, receive(a, f), f)
<1> DEFINE taken == [a EXCEPT !.rx_count = @ + 1]
           raw == CountTerminal(taken, "received_raw")
           one == Count(taken, "received")
           last == IF f.tick > a.last_normal_tick THEN f.tick ELSE a.last_normal_tick
           sample == [one EXCEPT !.last_normal_tick = last]
           z == receive(a, f)
<1> SUFFICES Tallied(a, z, f)
  OBVIOUS
<1>1. /\ taken \in AdmissionType /\ SameTally(a, taken) /\ ~(a.rx_count >= RxLimit(a))
      /\ a.last_normal_tick \in Int /\ a.expected \in Int /\ a.held = taken.held
      /\ a.discard_count <= RxMax /\ a.discard_count \in Nat /\ a.rx_count \in Nat
      /\ a.counts \in [CountFields -> Nat] /\ a.terminals \in [TerminalFields -> Nat]
      /\ a.expected = taken.expected
  <2>1. taken \in AdmissionType /\ SameTally(a, taken) /\ a.held = taken.held
        /\ a.expected = taken.expected
    BY DEF AdmissionType, SameTally
  <2>2. /\ a.last_normal_tick \in Int /\ a.expected \in Int /\ a.cycles \in Nat
        /\ a.discard_count \in Nat /\ a.rx_count \in Nat
        /\ a.counts \in [CountFields -> Nat] /\ a.terminals \in [TerminalFields -> Nat]
    BY DEF AdmissionType
  <2>3. RxLimit(a) \in Nat /\ RxLimit(a) <= RxMax + 1
    BY <2>2, AdmissionAssumption DEF RxLimit
  <2>4. ~(a.rx_count >= RxLimit(a)) /\ a.discard_count <= RxMax
    BY <2>2, <2>3, AdmissionAssumption
  <2> QED
    BY <2>1, <2>2, <2>4
<1>0. CountFields # {} /\ {"received", "malformed", "old", "duplicate", "superseded", "skew_excess"} \subseteq CountFields
      /\ {"received_raw", "duplicate", "skew_excess"} \subseteq TerminalFields
  BY DEF CountFields, TerminalFields
<1> HIDE DEF taken
<1>2. CASE f = Malformed
  <2> DEFINE c == Count(taken, "malformed")
  <2>1. z = Fail(c)
    BY <1>1, <1>2 DEF receive, taken
  <2>2. /\ c \in AdmissionType /\ c.counts = [a.counts EXCEPT !["malformed"] = @ + 1]
        /\ c.integrity = a.integrity /\ c.last_normal_tick = a.last_normal_tick
        /\ c.discard_count = a.discard_count /\ c.terminals = a.terminals
    BY <1>0, <1>1, CountTally DEF SameTally
  <2> HIDE DEF c, z
  <2>3. /\ z.counts = [a.counts EXCEPT !["malformed"] = @ + 1] /\ z.integrity
        /\ z.last_normal_tick = a.last_normal_tick
        /\ z.discard_count = a.discard_count /\ z.terminals = a.terminals
    BY <2>1, <2>2, FailTally
  <2>4. ~IsSample(f) /\ ~IsTerminal(f)
    BY <1>2, FrameFacts DEF IsSample
  <2> QED
    BY <1>0, <1>1, <1>2, <2>3, <2>4, CountersType, TerminalsType DEF Tallied, Spilled, Excess, CountFields
<1>3. CASE f # Malformed
  <2>1. /\ f \in SimFrames /\ f \in Datagrams /\ f.tick \in Nat /\ f.use = "valid"
        /\ f.reason \in {"none"} \union Legal
    BY <1>3 DEF SimFrames, Datagrams
  <2>2. CASE IsTerminal(f)
    <3>1. f.reason \in Legal /\ ~IsSample(f)
      BY <2>1, <2>2 DEF IsTerminal, IsSample
    <3>2. /\ raw \in AdmissionType /\ raw.terminals = [a.terminals EXCEPT !["received_raw"] = @ + 1]
          /\ raw.integrity = a.integrity /\ raw.last_normal_tick = a.last_normal_tick
          /\ raw.discard_count = a.discard_count /\ raw.counts = a.counts
      BY <1>0, <1>1, CountTally DEF SameTally
    <3>3. z = IF identity(a, f) # NoFrame THEN Known(raw, f, identity(a, f)) ELSE New(raw, f)
      BY <1>1, <1>3, <2>2 DEF receive, taken
    <3> HIDE DEF raw, z
    <3>4. CASE identity(a, f) # NoFrame
      <4> DEFINE d == CountTerminal(raw, "duplicate")
                 e == See(d, f)
      <4>1. z = IF f.tick <= raw.expected THEN terminal(e, f) ELSE e
        BY <1>3, <2>2, <3>3, <3>4 DEF Known, CountEither
      <4>2. /\ d \in AdmissionType /\ d.terminals = [raw.terminals EXCEPT !["duplicate"] = @ + 1]
            /\ d.integrity = a.integrity /\ d.last_normal_tick = a.last_normal_tick
            /\ d.discard_count = a.discard_count /\ d.counts = a.counts
        BY <1>0, <3>2, CountTally
      <4> HIDE DEF d
      <4>3. e \in AdmissionType /\ SameTally(d, e)
        BY <2>1, <4>2, QuietFacts
      <4> HIDE DEF e
      <4>4. SameTally(e, z)
        BY <3>1, <4>1, <4>3, TerminalTally DEF SameTally
      <4>5. /\ z.terminals = [[a.terminals EXCEPT !["received_raw"] = @ + 1]
                                EXCEPT !["duplicate"] = @ + 1]
            /\ z.integrity = a.integrity /\ z.last_normal_tick = a.last_normal_tick
            /\ z.discard_count = a.discard_count /\ z.counts = a.counts
        BY <3>2, <4>2, <4>3, <4>4 DEF SameTally
      <4> QED
        BY <1>0, <1>1, <1>3, <2>2, <3>1, <4>5, CountersType, TerminalsType
           DEF Tallied, Spilled, Excess, TerminalFields
    <3>5. CASE identity(a, f) = NoFrame
      <4> DEFINE d == See(raw, f)
                 e == remember(d, f)
                 x == CountTerminal(e, "skew_excess")
      <4>1. z = IF f.tick <= raw.expected THEN terminal(e, f)
                ELSE IF f.tick - raw.expected <= SkewMax THEN Park(e, f)
                ELSE Fail(x)
        BY <2>2, <3>3, <3>5 DEF New
      <4>2. d \in AdmissionType /\ SameTally(raw, d)
        BY <2>1, <3>2, QuietFacts
      <4> HIDE DEF d
      <4>3. e \in AdmissionType /\ SameTally(d, e)
        BY <2>1, <4>2, QuietFacts
      <4> HIDE DEF e
      <4>4. /\ x \in AdmissionType /\ x.terminals = [e.terminals EXCEPT !["skew_excess"] = @ + 1]
            /\ x.integrity = e.integrity /\ x.last_normal_tick = e.last_normal_tick
            /\ x.discard_count = e.discard_count /\ x.counts = e.counts
        BY <1>0, <4>3, CountTally, ZenonT(40)
      <4> HIDE DEF x
      <4>5. SameTally(e, terminal(e, f)) /\ SameTally(e, Park(e, f))
        BY <2>1, <3>1, <4>3, TerminalTally, QuietFacts
      <4>6. \/ SameTally(e, z)
            \/ /\ z.terminals = [e.terminals EXCEPT !["skew_excess"] = @ + 1]
               /\ z.integrity /\ z.last_normal_tick = e.last_normal_tick
               /\ z.discard_count = e.discard_count /\ z.counts = e.counts
        BY <4>1, <4>4, <4>5, FailTally
      <4>7. /\ e.terminals = [a.terminals EXCEPT !["received_raw"] = @ + 1]
            /\ e.integrity = a.integrity /\ e.last_normal_tick = a.last_normal_tick
            /\ e.discard_count = a.discard_count /\ e.counts = a.counts
        BY <3>2, <4>2, <4>3 DEF SameTally
      <4>8. CASE SameTally(e, z)
        <5>1. /\ z.terminals = [a.terminals EXCEPT !["received_raw"] = @ + 1]
              /\ z.integrity = a.integrity /\ z.last_normal_tick = a.last_normal_tick
              /\ z.discard_count = a.discard_count /\ z.counts = a.counts
          BY <4>7, <4>8 DEF SameTally
        <5> QED
          BY <1>0, <1>1, <1>3, <2>2, <3>1, <5>1, CountersType, TerminalsType
             DEF Tallied, Spilled, Excess, TerminalFields
      <4>9. CASE ~SameTally(e, z)
        <5>1. /\ z.terminals = [[a.terminals EXCEPT !["received_raw"] = @ + 1]
                                  EXCEPT !["skew_excess"] = @ + 1]
              /\ z.integrity /\ z.last_normal_tick = a.last_normal_tick
              /\ z.discard_count = a.discard_count /\ z.counts = a.counts
          BY <4>6, <4>7, <4>9
        <5>2. /\ \A q \in TerminalFields \ {"received_raw", "skew_excess"} :
                    z.terminals[q] = a.terminals[q]
              /\ z.terminals["received_raw"] = a.terminals["received_raw"] + 1
              /\ z.terminals["skew_excess"] = a.terminals["skew_excess"] + 1
          BY <1>0, <1>1, <5>1
        <5>3. Excess(z) = Excess(a) + 1
          BY <1>1, <5>1, <5>2, CountersType, TerminalsType DEF Excess
        <5>4. /\ z.counts["malformed"] = a.counts["malformed"] + 0
              /\ z.counts["received"] = a.counts["received"] + 0
              /\ \A q \in {"conflict", "future_expired", "illegal_reason"} :
                     z.terminals[q] = a.terminals[q]
              /\ z.discard_count - a.discard_count = Spilled(z.counts) - Spilled(a.counts)
          BY <1>1, <5>1, <5>2, CountersType DEF TerminalFields, Spilled
        <5> QED
          BY <1>3, <2>2, <3>1, <5>1, <5>2, <5>3, <5>4 DEF Tallied
      <4> QED
        BY <4>8, <4>9
    <3> QED
      BY <3>4, <3>5
  <2>3. CASE ~IsTerminal(f)
    <3>1. IsSample(f) /\ last \in Int
      BY <1>1, <1>3, <2>1, <2>3 DEF IsSample
    <3>2. /\ one \in AdmissionType /\ one.counts = [a.counts EXCEPT !["received"] = @ + 1]
          /\ one.integrity = a.integrity /\ one.last_normal_tick = a.last_normal_tick
          /\ one.discard_count = a.discard_count /\ one.terminals = a.terminals
      BY <1>0, <1>1, CountTally DEF SameTally
    <3> HIDE DEF last
    <3>3. /\ sample \in AdmissionType /\ sample.counts = [a.counts EXCEPT !["received"] = @ + 1]
          /\ sample.integrity = a.integrity /\ sample.last_normal_tick = last
          /\ sample.discard_count = a.discard_count /\ sample.terminals = a.terminals
      <4> HIDE DEF one
      <4> QED
        BY <3>1, <3>2 DEF AdmissionType
    <3>4. z = IF identity(a, f) # NoFrame THEN Known(sample, f, identity(a, f)) ELSE New(sample, f)
      <4>1. one.last_normal_tick = a.last_normal_tick
        BY <3>2
      <4> QED
        BY <1>1, <1>3, <2>1, <2>3, <4>1 DEF receive, taken, last, one
    <3>5. a.discard_count <= RxMax
      BY <1>1
    <3>6. last = IF f.tick > a.last_normal_tick THEN f.tick ELSE a.last_normal_tick
      BY DEF last
    <3> HIDE DEF sample, z
    <3>7. CASE identity(a, f) # NoFrame
      <4>1. z = Count(sample, "duplicate")
        BY <1>3, <2>3, <3>4, <3>7 DEF Known, CountEither
      <4>3. /\ z.counts = [sample.counts EXCEPT !["duplicate"] = @ + 1]
            /\ z.integrity = sample.integrity /\ z.last_normal_tick = sample.last_normal_tick
            /\ z.discard_count = sample.discard_count /\ z.terminals = sample.terminals
        BY <1>0, <3>3, <4>1, CountTally, ZenonT(40)
      <4>2. /\ z.counts = [[a.counts EXCEPT !["received"] = @ + 1] EXCEPT !["duplicate"] = @ + 1]
            /\ z.integrity = a.integrity /\ z.last_normal_tick = last
            /\ z.discard_count = a.discard_count /\ z.terminals = a.terminals
        BY <3>3, <4>3
      <4> QED
        BY <1>0, <1>1, <1>3, <2>3, <3>1, <3>6, <4>2, CountersType, TerminalsType
           DEF Tallied, Spilled, Excess, CountFields
    <3>8. CASE identity(a, f) = NoFrame
      <4> DEFINE e == remember(sample, f)
                 o == Count(e, "old")
                 x == Count(e, "skew_excess")
                 y == discard(x)
      <4>1. z = IF f.tick <= sample.held.tick THEN discard(o)
                ELSE IF f.tick <= sample.expected THEN candidate(e, f)
                ELSE IF f.tick - sample.expected <= SkewMax THEN Park(e, f)
                ELSE Fail(y)
        BY <2>3, <3>4, <3>8 DEF New
      <4>2. e \in AdmissionType /\ SameTally(sample, e)
        BY <2>1, <3>3, QuietFacts
      <4> HIDE DEF e
      <4>3. /\ e.counts = [a.counts EXCEPT !["received"] = @ + 1]
            /\ e.integrity = a.integrity /\ e.last_normal_tick = last
            /\ e.discard_count = a.discard_count /\ e.terminals = a.terminals
        BY <3>3, <4>2 DEF SameTally
      <4>4. /\ o \in AdmissionType /\ o.counts = [e.counts EXCEPT !["old"] = @ + 1]
            /\ o.integrity = e.integrity /\ o.last_normal_tick = e.last_normal_tick
            /\ o.discard_count = e.discard_count /\ o.terminals = e.terminals
        BY <1>0, <4>2, CountTally, ZenonT(40)
      <4>5. /\ x \in AdmissionType /\ x.counts = [e.counts EXCEPT !["skew_excess"] = @ + 1]
            /\ x.integrity = e.integrity /\ x.last_normal_tick = e.last_normal_tick
            /\ x.discard_count = e.discard_count /\ x.terminals = e.terminals
        BY <1>0, <4>2, CountTally, ZenonT(40)
      <4> HIDE DEF o, x
      <4>6. CASE f.tick <= sample.held.tick
        <5>1. z = discard(o)
          BY <4>1, <4>6
        <5>2. /\ z.counts = [[a.counts EXCEPT !["received"] = @ + 1] EXCEPT !["old"] = @ + 1]
              /\ z.integrity = a.integrity /\ z.last_normal_tick = last
              /\ z.discard_count = a.discard_count + 1 /\ z.terminals = a.terminals
          BY <3>5, <4>3, <4>4, <5>1, DiscardTally
        <5> QED
          BY <1>0, <1>1, <1>3, <2>3, <3>1, <3>6, <5>2, CountersType, TerminalsType
             DEF Tallied, Spilled, Excess, CountFields
      <4>7. CASE ~(f.tick <= sample.held.tick) /\ f.tick <= sample.expected
        <5>1. z = candidate(e, f)
          BY <4>1, <4>7
        <5>2. /\ z.integrity = a.integrity /\ z.last_normal_tick = last
              /\ z.terminals = a.terminals
              /\ \/ z.counts = e.counts /\ z.discard_count = a.discard_count
                 \/ /\ z.counts = [e.counts EXCEPT !["superseded"] = @ + 1]
                    /\ z.discard_count = a.discard_count + 1
          BY <2>1, <3>5, <4>2, <4>3, <5>1, CandidateTally
        <5>3. CASE z.counts = e.counts /\ z.discard_count = a.discard_count
          <6>1. z.counts = [a.counts EXCEPT !["received"] = @ + 1]
            BY <4>3, <5>3
          <6> QED
            BY <1>0, <1>1, <1>3, <2>3, <3>1, <3>6, <5>2, <5>3, <6>1, CountersType, TerminalsType
               DEF Tallied, Spilled, Excess, CountFields
        <5>4. CASE /\ z.counts = [e.counts EXCEPT !["superseded"] = @ + 1]
                   /\ z.discard_count = a.discard_count + 1
          <6>1. z.counts = [[a.counts EXCEPT !["received"] = @ + 1] EXCEPT !["superseded"] = @ + 1]
            BY <4>3, <5>4
          <6> QED
            BY <1>0, <1>1, <1>3, <2>3, <3>1, <3>6, <5>2, <5>4, <6>1, CountersType, TerminalsType
               DEF Tallied, Spilled, Excess, CountFields
        <5> QED
          BY <5>2, <5>3, <5>4
      <4>8. CASE /\ ~(f.tick <= sample.held.tick) /\ ~(f.tick <= sample.expected)
                 /\ f.tick - sample.expected <= SkewMax
        <5>1. z = Park(e, f)
          BY <4>1, <4>8
        <5>2. /\ z.counts = [a.counts EXCEPT !["received"] = @ + 1]
              /\ z.integrity = a.integrity /\ z.last_normal_tick = last
              /\ z.discard_count = a.discard_count /\ z.terminals = a.terminals
          BY <2>1, <4>2, <4>3, <5>1, QuietFacts DEF SameTally
        <5> QED
          BY <1>0, <1>1, <1>3, <2>3, <3>1, <3>6, <5>2, CountersType, TerminalsType
             DEF Tallied, Spilled, Excess, CountFields
      <4>9. CASE /\ ~(f.tick <= sample.held.tick) /\ ~(f.tick <= sample.expected)
                 /\ ~(f.tick - sample.expected <= SkewMax)
        <5>1. z = Fail(y)
          BY <4>1, <4>9
        <5>2. /\ y.counts = x.counts /\ y.last_normal_tick = last /\ y \in AdmissionType
              /\ y.discard_count = a.discard_count + 1 /\ y.terminals = a.terminals
          BY <3>5, <4>3, <4>5, DiscardTally
        <5> HIDE DEF y
        <5>3. /\ z.counts = [[a.counts EXCEPT !["received"] = @ + 1] EXCEPT !["skew_excess"] = @ + 1]
              /\ z.integrity /\ z.last_normal_tick = last
              /\ z.discard_count = a.discard_count + 1 /\ z.terminals = a.terminals
          BY <4>3, <4>5, <5>1, <5>2, FailTally
        <5>4. /\ \A q \in CountFields \ {"received", "skew_excess"} : z.counts[q] = a.counts[q]
              /\ z.counts["received"] = a.counts["received"] + 1
              /\ z.counts["skew_excess"] = a.counts["skew_excess"] + 1
          BY <1>0, <1>1, <5>3
        <5>5. Excess(z) = Excess(a) + 1
          BY <1>1, <5>3, <5>4, CountersType, TerminalsType DEF Excess
        <5>6. z.discard_count - a.discard_count = Spilled(z.counts) - Spilled(a.counts)
          BY <1>1, <5>3, <5>4, CountersType DEF Spilled, CountFields
        <5>7. /\ z.counts["malformed"] = a.counts["malformed"] + 0
              /\ \A q \in {"consumed", "conflict", "future_expired", "nonfinite"} :
                     z.counts[q] = a.counts[q]
              /\ z.terminals["received_raw"] = a.terminals["received_raw"] + 0
          BY <1>1, <5>3, <5>4, CountersType, TerminalsType DEF CountFields
        <5> QED
          BY <1>3, <2>3, <3>1, <3>6, <5>3, <5>4, <5>5, <5>6, <5>7 DEF Tallied
      <4> QED
        BY <4>6, <4>7, <4>8, <4>9
    <3> QED
      BY <3>7, <3>8
  <2> QED
    BY <2>2, <2>3
<1> QED
  BY <1>2, <1>3

-----------------------------------------------------------------------------
(* The receipt of a batch. *)

\* A nonempty set of natural numbers has a least element: the order of the
\* numbers is well founded.
LEMMA Least ==
    ASSUME NEW T, T \subseteq Nat, T # {}
    PROVE  \E x \in T : \A y \in T : x <= y
<1> DEFINE R == OpToRel(<, Nat)
<1>1. IsWellFoundedOn(R, Nat)
  BY NatLessThanWellFounded, Zenon
<1>2. \A x, y \in Nat : y < x => <<y, x>> \in R
  BY DEF OpToRel
<1> HIDE DEF R
<1>3. PICK x \in T : \A y \in T : ~ (<<y, x>> \in R)
  BY <1>1, WFMin
<1>4. ASSUME NEW y \in T PROVE x <= y
  <2>1. ~ (<<y, x>> \in R) BY <1>3
  <2>2. x \in Nat /\ y \in Nat OBVIOUS
  <2>3. ~ (y < x) BY <1>2, <2>1, <2>2
  <2> QED BY <2>2, <2>3
<1> QED BY <1>4

\* Induction over the natural numbers, for a set in the place of a predicate.
LEMMA SetInduction ==
    ASSUME NEW S, 0 \in S, \A n \in Nat : n \in S => n + 1 \in S
    PROVE  Nat \subseteq S
<1> DEFINE T == Nat \ S
<1> SUFFICES ASSUME T # {} PROVE FALSE
  OBVIOUS
<1>1. PICK x \in T : \A y \in T : x <= y
  BY Least
<1>2. x # 0 /\ x - 1 \in Nat /\ x - 1 \notin T
  BY <1>1
<1> QED BY <1>1, <1>2

\* Induction up to a bound.
LEMMA BoundedInduction ==
    ASSUME NEW n \in Nat, NEW S, 0 \in S,
           \A i \in 0 .. n - 1 : i \in S => i + 1 \in S
    PROVE  0 .. n \subseteq S
<1> DEFINE T == {i \in Nat : i \in S \/ i > n}
<1>1. 0 \in T
  OBVIOUS
<1>2. ASSUME NEW i \in Nat, i \in T PROVE i + 1 \in T
  <2>1. CASE i >= n BY <2>1
  <2>2. CASE i < n
    <3>1. i \in 0 .. n - 1 /\ i \in S BY <2>2, <1>2
    <3> QED BY <3>1
  <2> QED BY <2>1, <2>2
<1> HIDE DEF T
<1>3. Nat \subseteq T
  BY <1>1, <1>2, SetInduction
<1> QED BY <1>3 DEF T

\* What becomes of the admissions of S with the datagram f.
Heirs(S, f) == {receive(a, f) : a \in S}

\* M has the admissions after each of the datagrams of v.
Unfolds(M, o, v) ==
    /\ ReceiveAll(o, v) = M[Len(v)] /\ M[0] = {o}
    /\ \A i \in 1 .. Len(v) : M[i] = Heirs(M[i - 1], v[i])

\* ReceiveAll receives the datagrams one after the other.
LEMMA ReceiveAllRecursion ==
    ASSUME NEW o, NEW v, Len(v) \in Nat
    PROVE  \E M : Unfolds(M, o, v)
<1> DEFINE Grows(s, i) == Heirs(s, v[i])
           Solves(f, n) == f = [i \in 0 .. n |-> IF i = 0 THEN {o} ELSE Grows(f[i - 1], i)]
           S == {n \in Nat : \E f : Solves(f, n)}
           N == Len(v)
           M == CHOOSE f : Solves(f, N)
<1>3. ReceiveAll(o, v) = M[N]
  BY DEF ReceiveAll, Heirs
<1> HIDE DEF Grows
<1>1. 0 \in S
  <2> DEFINE f == [i \in 0 .. 0 |-> {o}]
  <2>1. f = [i \in 0 .. 0 |-> IF i = 0 THEN {o} ELSE Grows(f[i - 1], i)]
    OBVIOUS
  <2> QED BY <2>1
<1>2. ASSUME NEW n \in Nat, n \in S PROVE n + 1 \in S
  <2>1. PICK f : Solves(f, n) BY <1>2
  <2> DEFINE h == [i \in 0 .. n + 1 |-> IF i <= n THEN f[i] ELSE Grows(f[n], n + 1)]
             k0 == [i \in 0 .. n + 1 |-> IF i = 0 THEN {o} ELSE Grows(h[i - 1], i)]
  <2>2. ASSUME NEW i \in 0 .. n + 1 PROVE h[i] = k0[i]
    <3>1. CASE i = 0
      <4>1. h[0] = f[0] OBVIOUS
      <4>2. f[0] = {o} BY <2>1
      <4> QED BY <3>1, <4>1, <4>2
    <3>2. CASE i \in 1 .. n
      <4>1. h[i] = f[i] /\ h[i - 1] = f[i - 1] BY <3>2
      <4>3. i \in 0 .. n /\ i # 0 BY <3>2
      <4>2. f[i] = Grows(f[i - 1], i) BY <2>1, <4>3
      <4> QED BY <3>2, <4>1, <4>2
    <3>3. CASE i = n + 1
      <4>1. h[i] = Grows(f[n], n + 1) /\ h[i - 1] = f[n] BY <3>3
      <4> QED BY <3>3, <4>1
    <3> QED BY <3>1, <3>2, <3>3
  <2>3. h = k0
    BY <2>2
  <2>4. Solves(h, n + 1) BY <2>3
  <2> HIDE DEF h, Solves
  <2> QED BY <2>4
<1>4. N \in S
  <2> HIDE DEF S
  <2> QED BY <1>1, <1>2, SetInduction
<1>5. PICK f : Solves(f, N)
  BY <1>4
<1>6. Solves(M, N)
  <2> HIDE DEF Solves
  <2> QED BY <1>5
<1> HIDE DEF M
<1>7. M[0] = {o}
  BY <1>6
<1>8. ASSUME NEW i \in 1 .. N PROVE M[i] = Heirs(M[i - 1], v[i])
  <2>0. i \in 0 .. N /\ i # 0 OBVIOUS
  <2>1. M[i] = Grows(M[i - 1], i)
    BY <1>6, <2>0
  <2> QED BY <2>1 DEF Grows
<1>9. Unfolds(M, o, v)
  BY <1>3, <1>7, <1>8 DEF Unfolds
<1> QED BY <1>9

\* The frames an admission keeps in one place or another.
Kept(a) == Remembered(a) \union {a.candidate, a.held}

\* At most one frame of a tick.
Agree(S) == \A f, g \in S : f.tick = g.tick => f = g

\* identity finds a kept frame of the datagram's tick, or none.
LEMMA IdentityKept ==
  ASSUME NEW a \in AdmissionType, NEW f \in Datagrams
  PROVE  \/ identity(a, f) = NoFrame
         \/ identity(a, f) \in Kept(a) /\ identity(a, f).tick = f.tick
<1> DEFINE parked == {g \in a.future : g.tick = f.tick}
           seen == {g \in a.terminal_seen : g.tick = f.tick}
           p == CHOOSE g \in parked : TRUE
           e == CHOOSE g \in seen : TRUE
<1>1. parked # {} => p \in parked
  OBVIOUS
<1>2. seen # {} => e \in seen
  OBVIOUS
<1>3. identity(a, f) =
        IF a.newest.tick = f.tick THEN a.newest
        ELSE IF a.due.tick = f.tick THEN a.due
        ELSE IF parked # {} THEN p
        ELSE IF a.terminal_candidate.tick = f.tick THEN a.terminal_candidate
        ELSE IF a.latch.tick = f.tick THEN a.latch
        ELSE IF seen # {} THEN e
        ELSE IF IsTerminal(f) /\ a.candidate.tick = f.tick THEN a.candidate
        ELSE NoFrame
  BY DEF identity
<1> HIDE DEF p, e
<1> QED
  BY <1>1, <1>2, <1>3 DEF Kept, Remembered

\* One datagram adds at most itself to the kept frames.
LEMMA ReceiveKept ==
  ASSUME NEW a \in AdmissionType, NEW f \in Datagrams \union {Malformed}, NEW z, Outcome(a, z, f)
  PROVE  Kept(z) \subseteq Kept(a) \union ({f} \intersect Datagrams)
<1>1. /\ z.due = a.due /\ z.held = a.held /\ z.latch = a.latch
      /\ z.newest \in {a.newest} \union ({f} \intersect Datagrams)
  BY DEF Outcome, Fixed, Remembers
<1>2. /\ z.future \subseteq a.future \union ({f} \intersect Datagrams)
      /\ z.terminal_seen \subseteq a.terminal_seen \union ({f} \intersect Datagrams)
      /\ z.candidate \in {a.candidate} \union ({f} \intersect Datagrams)
      /\ z.terminal_candidate \in {a.terminal_candidate} \union ({f} \intersect Datagrams)
  <2>1. CASE Dropped(a, z, f)
    BY <2>1 DEF Dropped
  <2>2. CASE Enveloped(a, z, f)
    BY <2>2 DEF Enveloped
  <2>3. CASE Taken(a, z, f)
    BY <2>3 DEF Taken
  <2>4. CASE Parked(a, z, f)
    BY <2>4 DEF Parked
  <2> QED
    BY <2>1, <2>2, <2>3, <2>4 DEF Outcome
<1> QED
  BY <1>1, <1>2 DEF Kept, Remembered

\* A cycle opened without a new failure, its counters at zero.
Clear(a, z) ==
    /\ z.counts = Zero(CountFields) /\ z.terminals = a.terminals /\ z.integrity = a.integrity
    /\ z.last_normal_tick = a.last_normal_tick

\* begin_cycle for the next tick opens the cycle, and neither counts nor fails.
LEMMA BeginClear ==
  ASSUME NEW a \in AdmissionType, ~a.open, Window(a), Ordered(a), Coherent(a),
         SkewMax <= MaxSkew, \A f \in a.future : f.reason \in {"none"} \union Legal
  PROVE  LET z == begin_cycle(a, NextTick(a)) IN
         Opened(a, z, NextTick(a)) /\ Clear(a, z)
<1> DEFINE e == NextTick(a)
           z == begin_cycle(a, e)
           gone == Expired(a, e)
           due == IF Due(a, e) = {} THEN NoFrame ELSE CHOOSE f \in Due(a, e) : TRUE
           broken == a.integrity \/ gone # {} \/ (a.cycles # 0 /\ e # a.expected + 1)
           occupancy == IF a.cycles = Warmup THEN future_parked(a) ELSE a.warmup_occupancy
           fields == [Zero(CountFields) EXCEPT !["future_expired"] = ParkedIn(gone)]
           ends == [a.terminals EXCEPT !["future_expired"] = @ + Cardinality({f \in gone : IsTerminal(f)})]
           later == {f \in a.future : f.tick > e} \ gone
           o == [a EXCEPT
                   !.integrity = broken, !.warmup_occupancy = occupancy,
                   !.expected = e, !.open = TRUE, !.fresh = FALSE, !.rx_count = 0,
                   !.discard_count = 0, !.counts = fields, !.terminals = ends,
                   !.candidate = NoFrame, !.due = due, !.terminal_candidate = NoFrame,
                   !.terminal_seen = {}, !.terminal_seen_count = 0, !.future = later]
<1>1. /\ a.cycles \in Nat /\ a.expected \in Nat /\ a.future \subseteq Datagrams
      /\ a.tick_base \in Nat /\ a.terminals \in [TerminalFields -> Nat]
      /\ a.integrity \in BOOLEAN /\ a.warmup_occupancy \in Int
  BY DEF AdmissionType, Ordered
<1>2. e \in Nat /\ MayBegin(a, e) /\ (a.cycles # 0 => e = a.expected + 1)
  BY <1>1 DEF NextTick, MayBegin
<1>3. \A f \in a.future : f.tick \in Nat /\ f.tick >= e /\ f.tick - e <= SkewMax
  BY <1>1, FrameFacts, AdmissionAssumption DEF Window, NextTick
<1>4. gone = {}
  BY <1>2, <1>3, AdmissionAssumption DEF Expired
<1>5. ParkedIn(gone) = 0 /\ Cardinality({f \in gone : IsTerminal(f)}) = 0
  <2>1. {f \in gone : ~IsTerminal(f)} = {} /\ {f \in gone : IsTerminal(f)} = {}
    BY <1>4
  <2> QED
    BY <2>1, FS_EmptySet DEF ParkedIn
<1>6. fields = Zero(CountFields) /\ Zero(CountFields) \in [CountFields -> Nat]
  BY <1>5 DEF Zero
<1>7. ends = a.terminals
  <2> DEFINE n == Cardinality({f \in gone : IsTerminal(f)})
  <2>1. n = 0
    BY <1>5
  <2> HIDE DEF n
  <2>2. [a.terminals EXCEPT !["future_expired"] = @ + n] = a.terminals
    <3>1. \A q \in TerminalFields : a.terminals[q] \in Nat
      BY <1>1
    <3> QED
      BY <1>1, <2>1, <3>1
  <2> QED
    BY <2>2 DEF n
<1>8. broken = a.integrity
  BY <1>1, <1>2, <1>4
<1>9. due = NoFrame \/ (due \in a.future /\ due.tick = e)
  <2>1. CASE Due(a, e) = {}
    BY <2>1
  <2>2. CASE Due(a, e) # {}
    BY <2>2 DEF Due
  <2> QED
    BY <2>1, <2>2
<1>10. occupancy \in Int
  BY <1>1, ParkedInFacts DEF Window, future_parked
<1>11. z = IF due = NoFrame THEN o
           ELSE IF IsTerminal(due) THEN terminal(o, due) ELSE candidate(o, due)
  BY <1>2 DEF begin_cycle
<1>12. z = Fail(a) \/ Opened(a, z, e)
  BY BeginFacts
<1> HIDE DEF e, z, due, broken, occupancy, fields, ends, gone
<1>13. o \in AdmissionType
  <2>1. later \in SUBSET Datagrams /\ due \in MaybeFrame /\ NoFrame \in MaybeFrame /\ e \in Int
    BY <1>1, <1>2, <1>9 DEF MaybeFrame
  <2> HIDE DEF later
  <2> QED
    BY <1>1, <1>6, <1>7, <1>8, <1>10, <2>1, ZenonT(40) DEF AdmissionType, o
<1>14. Clear(a, o) /\ o.open /\ o.discard_count = 0 /\ o.candidate = NoFrame
  BY <1>6, <1>7, <1>8 DEF Clear, AdmissionType
<1> HIDE DEF o
<1>15. z.open /\ Clear(a, z)
  <2>1. CASE due = NoFrame
    BY <1>11, <1>14, <2>1
  <2>2. CASE due # NoFrame /\ IsTerminal(due)
    <3>1. z = terminal(o, due) /\ due \in Datagrams /\ due.reason \in Legal
      BY <1>1, <1>9, <1>11, <2>2 DEF IsTerminal
    <3>2. SameTally(o, z) /\ z.open = o.open
      BY <1>13, <3>1, TerminalTally, TerminalFacts DEF Fixed
    <3> QED
      BY <1>14, <3>2 DEF Clear, SameTally
  <2>3. CASE due # NoFrame /\ ~IsTerminal(due)
    <3>1. z = candidate(o, due) /\ due \in Datagrams /\ o.discard_count <= RxMax
      BY <1>1, <1>9, <1>11, <1>14, <2>3, AdmissionAssumption
    <3>2. /\ z.integrity = o.integrity /\ z.last_normal_tick = o.last_normal_tick
          /\ z.terminals = o.terminals /\ z.counts = o.counts
      BY <1>13, <1>14, <3>1, CandidateTally
    <3>3. z.open = o.open
      BY <1>13, <3>1, CandidateFacts DEF Fixed
    <3> QED
      BY <1>14, <3>2, <3>3 DEF Clear
  <2> QED
    BY <2>1, <2>2, <2>3
<1>16. Fail(a).open = a.open
  BY FailFacts DEF Fixed
<1> QED
  BY <1>12, <1>15, <1>16 DEF e, z

\* Opening a cycle adds nothing to the kept frames.
LEMMA OpenedKept ==
  ASSUME NEW a, NEW z, NEW e, Opened(a, z, e)
  PROVE  Kept(z) \subseteq Kept(a) \union {NoFrame}
  BY DEF Opened, Kept, Remembered

\* finish_cycle, field by field.
Settled(a, z) ==
    /\ z.fresh = (a.candidate # NoFrame /\ a.candidate.use = "valid")
    /\ z.held = IF z.fresh THEN a.candidate ELSE a.held
    /\ z.counts = IF a.candidate = NoFrame THEN a.counts
                  ELSE [a.counts EXCEPT ![IF z.fresh THEN "consumed" ELSE "invalid"] = @ + 1]
    /\ z.episode = Add(a.episode, z.counts)
    /\ z.recorded = IF a.cycles >= Warmup THEN Add(a.recorded, z.counts) ELSE a.recorded
    /\ z.candidate = a.candidate /\ z.last_normal_tick = a.last_normal_tick

\* A finished cycle settles its counters.
LEMMA FinishSettles ==
  ASSUME NEW a \in AdmissionType, a.open
  PROVE  Settled(a, finish_cycle(a))
<1> DEFINE fresh == a.candidate # NoFrame /\ a.candidate.use = "valid"
           c == IF a.candidate = NoFrame THEN a.counts
                ELSE [a.counts EXCEPT ![IF fresh THEN "consumed" ELSE "invalid"] = @ + 1]
           h == IF fresh THEN a.candidate ELSE a.held
           l == IF a.latch = NoFrame THEN a.terminal_candidate ELSE a.latch
           e == Add(a.episode, c)
           w == IF a.cycles >= Warmup THEN Add(a.recorded, c) ELSE a.recorded
           n == a.cycles + 1
           z == [a EXCEPT !.open = FALSE, !.cycles = n, !.fresh = fresh, !.counts = c,
                          !.held = h, !.latch = l, !.episode = e, !.recorded = w]
<1>1. finish_cycle(a) = z
  BY DEF finish_cycle
<1> HIDE DEF fresh, c, h, l, e, w, n
<1>2. /\ z.fresh = fresh /\ z.held = h /\ z.counts = c /\ z.episode = e /\ z.recorded = w
      /\ z.candidate = a.candidate /\ z.last_normal_tick = a.last_normal_tick
  BY DEF AdmissionType
<1> HIDE DEF z
<1>3. /\ h = IF fresh THEN a.candidate ELSE a.held
      /\ e = Add(a.episode, c)
      /\ w = IF a.cycles >= Warmup THEN Add(a.recorded, c) ELSE a.recorded
  BY DEF h, e, w
<1>4. c = IF a.candidate = NoFrame THEN a.counts
          ELSE [a.counts EXCEPT ![IF fresh THEN "consumed" ELSE "invalid"] = @ + 1]
  BY DEF c
<1>5. fresh = (a.candidate # NoFrame /\ a.candidate.use = "valid")
  BY DEF fresh
<1> QED
  BY <1>1, <1>2, <1>3, <1>4, <1>5 DEF Settled

\* Closing a cycle adds nothing to the kept frames.
LEMMA ClosedKept ==
  ASSUME NEW a, NEW z, Closed(a, z), Settled(a, z)
  PROVE  Kept(z) \subseteq Kept(a)
<1>1. /\ z.future = a.future /\ z.newest = a.newest /\ z.due = a.due
      /\ z.terminal_candidate = a.terminal_candidate /\ z.terminal_seen = a.terminal_seen
      /\ z.latch \in {a.terminal_candidate, a.latch}
  BY DEF Closed
<1>2. z.candidate = a.candidate /\ z.held \in {a.candidate, a.held}
  BY DEF Settled
<1> QED
  BY <1>1, <1>2 DEF Kept, Remembered

\* The ticks of the samples among the first i datagrams of v.
Collected(v, i) == {v[j].tick : j \in {n \in 1 .. i : IsSample(v[n])}}

\* The samples of v are in the order of their ticks, all newer than last.
Rising(v, last) ==
    /\ \A i \in DOMAIN v : IsSample(v[i]) => v[i].tick > last
    /\ \A i, j \in DOMAIN v : i < j /\ IsSample(v[i]) /\ IsSample(v[j]) => v[i].tick < v[j].tick

Sound(a) == Window(a) /\ Ordered(a) /\ Coherent(a) /\ Filled(a) /\ Accounts(a)

\* An envelope is kept only if one was received.
Heard(a) == (\E f \in Kept(a) : IsTerminal(f)) => a.terminals["received_raw"] > 0

\* The counters of the cycle opened as o.
Ledger(o, a) ==
    /\ a.rx_count = a.counts["received"] + a.counts["malformed"]
                    + (a.terminals["received_raw"] - o.terminals["received_raw"])
    /\ a.terminals["received_raw"] >= o.terminals["received_raw"]
    /\ a.discard_count = Spilled(a.counts)
    /\ \A q \in {"consumed", "conflict", "future_expired", "nonfinite"} : a.counts[q] = 0
    /\ \A q \in {"conflict", "future_expired", "illegal_reason"} : a.terminals[q] = o.terminals[q]
    /\ Excess(a) >= Excess(o)
    /\ a.integrity <=> (o.integrity \/ a.counts["malformed"] > 0 \/ Excess(a) > Excess(o))

\* The samples of the cycle: as many as their ticks, the last one the newest.
Receipt(o, a, v, i) ==
    /\ IsFiniteSet(Collected(v, i)) /\ a.counts["received"] = Cardinality(Collected(v, i))
    /\ a.last_normal_tick \in {o.last_normal_tick} \union Collected(v, i)
    /\ a.last_normal_tick >= o.last_normal_tick
    /\ \A t \in Collected(v, i) : t <= a.last_normal_tick

\* The cycle opened as o has received the first i datagrams of v; P has every
\* frame that is kept.
Progress(o, a, v, i, P) ==
    /\ a \in AdmissionType /\ Fixed(o, a) /\ a.open /\ a.rx_count = i
    /\ Sound(a) /\ Heard(a) /\ Kept(a) \subseteq P \union {NoFrame}
    /\ Ledger(o, a) /\ Receipt(o, a, v, i)
    /\ a.candidate \in {o.candidate} \union {v[j] : j \in 1 .. i}

\* The counters of an admission are natural numbers.
LEMMA TallyType ==
  ASSUME NEW a \in AdmissionType
  PROVE  /\ Spilled(a.counts) \in Nat /\ Excess(a) \in Nat
         /\ a.counts["received"] \in Nat /\ a.counts["malformed"] \in Nat
         /\ a.terminals["received_raw"] \in Nat
<1>1. a.counts \in [CountFields -> Nat] /\ a.terminals \in [TerminalFields -> Nat]
  BY DEF AdmissionType
<1>2. /\ a.counts["received"] \in Nat /\ a.counts["malformed"] \in Nat
      /\ a.counts["old"] \in Nat /\ a.counts["superseded"] \in Nat
      /\ a.counts["nonfinite"] \in Nat /\ a.counts["skew_excess"] \in Nat
  BY <1>1, CountersType
<1>3. a.terminals["received_raw"] \in Nat /\ a.terminals["skew_excess"] \in Nat
  BY <1>1, TerminalsType
<1>4. Spilled(a.counts) \in Nat
  BY <1>2 DEF Spilled
<1>5. Excess(a) \in Nat
  BY <1>2, <1>3 DEF Excess
<1> QED
  BY <1>2, <1>3, <1>4, <1>5

\* A datagram keeps the counters of the cycle in step.
LEMMA LedgerStep ==
  ASSUME NEW o \in AdmissionType, NEW a \in AdmissionType, NEW z \in AdmissionType, NEW f,
         Ledger(o, a), Tallied(a, z, f), z.rx_count = a.rx_count + 1
  PROVE  Ledger(o, z)
<1> DEFINE ac == a.counts["received"]
           am == a.counts["malformed"]
           at == a.terminals["received_raw"]
           ot == o.terminals["received_raw"]
           rc == z.counts["received"]
           rm == z.counts["malformed"]
           rr == z.terminals["received_raw"]
           as == Spilled(a.counts)
           rs == Spilled(z.counts)
           ae == Excess(a)
           oe == Excess(o)
           re == Excess(z)
           ad == a.discard_count
           rd == z.discard_count
           ax == a.rx_count
           rx == z.rx_count
<1>1. ac \in Nat /\ am \in Nat /\ at \in Nat /\ as \in Nat /\ ae \in Nat
  BY TallyType
<1>2. rc \in Nat /\ rm \in Nat /\ rr \in Nat /\ rs \in Nat /\ re \in Nat
  BY TallyType
<1>3. ot \in Nat /\ oe \in Nat
  BY TallyType
<1>4. ad \in Nat /\ rd \in Nat /\ ax \in Nat /\ rx = ax + 1
  BY DEF AdmissionType
<1>5. ax = ac + am + (at - ot) /\ at >= ot /\ ad = as /\ ae >= oe
  BY DEF Ledger
<1>6. /\ rc = ac + (IF IsSample(f) THEN 1 ELSE 0)
      /\ rm = am + (IF f = Malformed THEN 1 ELSE 0)
      /\ rr = at + (IF IsTerminal(f) THEN 1 ELSE 0)
      /\ rd - ad = rs - as
      /\ re = ae \/ re = ae + 1
  BY DEF Tallied
<1>7. /\ a.integrity <=> (o.integrity \/ am > 0 \/ ae > oe)
  BY DEF Ledger
<1>8. \/ z.integrity = a.integrity /\ re = ae /\ f # Malformed
      \/ z.integrity /\ re = ae /\ f = Malformed
      \/ z.integrity /\ re = ae + 1 /\ f # Malformed
  BY DEF Tallied
<1>9. IsTerminal(f) => f # Malformed /\ ~IsSample(f)
  BY FrameFacts DEF IsSample
<1>10. IsSample(f) => f # Malformed /\ ~IsTerminal(f)
  BY DEF IsSample
<1>11. f = Malformed \/ IsTerminal(f) \/ IsSample(f)
  BY DEF IsSample
<1>12. /\ \A q \in {"consumed", "conflict", "future_expired", "nonfinite"} : z.counts[q] = 0
       /\ \A q \in {"conflict", "future_expired", "illegal_reason"} : z.terminals[q] = o.terminals[q]
  BY DEF Ledger, Tallied
<1> HIDE DEF ac, am, at, ot, rc, rm, rr, as, rs, ae, oe, re, ad, rd, ax, rx
<1>13. rx = rc + rm + (rr - ot) /\ rr >= ot
  <2>1. CASE f = Malformed
    BY <1>1, <1>3, <1>4, <1>5, <1>6, <1>9, <1>10, <2>1
  <2>2. CASE IsTerminal(f)
    BY <1>1, <1>3, <1>4, <1>5, <1>6, <1>9, <2>2
  <2>3. CASE IsSample(f)
    BY <1>1, <1>3, <1>4, <1>5, <1>6, <1>10, <2>3
  <2> QED
    BY <1>11, <2>1, <2>2, <2>3
<1>14. rd = rs
  BY <1>1, <1>2, <1>4, <1>5, <1>6
<1>15. re >= oe
  BY <1>1, <1>2, <1>3, <1>5, <1>6
<1>16. z.integrity <=> (o.integrity \/ rm > 0 \/ re > oe)
  <2>1. CASE z.integrity = a.integrity /\ re = ae /\ f # Malformed
    BY <1>1, <1>6, <1>7, <2>1
  <2>2. CASE z.integrity /\ re = ae /\ f = Malformed
    BY <1>1, <1>6, <2>2
  <2>3. CASE z.integrity /\ re = ae + 1 /\ f # Malformed
    BY <1>1, <1>3, <1>5, <2>3
  <2> QED
    BY <1>8, <2>1, <2>2, <2>3
<1> QED
  BY <1>12, <1>13, <1>14, <1>15, <1>16 DEF Ledger, ac, am, at, ot, rc, rm, rr, as, rs, ae, oe, re, ad, rd, ax, rx

\* One sample more among the collected ticks.
LEMMA CollectedNext ==
  ASSUME NEW v, NEW i \in Nat
  PROVE  /\ Collected(v, 0) = {}
         /\ IsSample(v[i + 1]) => Collected(v, i + 1) = Collected(v, i) \union {v[i + 1].tick}
         /\ ~IsSample(v[i + 1]) => Collected(v, i + 1) = Collected(v, i)
<1>1. 1 .. i + 1 = (1 .. i) \union {i + 1} /\ 1 .. 0 = {}
  OBVIOUS
<1> QED
  BY <1>1 DEF Collected

\* A datagram of the batch makes progress, if frames of one tick are equal and
\* the samples come in order.
LEMMA ProgressStep ==
  ASSUME NEW o \in AdmissionType, NEW a, NEW v \in Seq(SimFrames \union {Malformed}), NEW i \in Nat,
         NEW P \in SUBSET SimFrames, Agree(P), \A j \in DOMAIN v : v[j] # Malformed => v[j] \in P,
         Rising(v, o.last_normal_tick), i < Len(v), Len(v) <= RxLimit(o),
         Progress(o, a, v, i, P)
  PROVE  Progress(o, receive(a, v[i + 1]), v, i + 1, P)
<1> DEFINE f == v[i + 1]
           z == receive(a, f)
<1>1. i + 1 \in DOMAIN v /\ f \in SimFrames \union {Malformed} /\ DOMAIN v = 1 .. Len(v)
  OBVIOUS
<1>2. f \in Datagrams \union {Malformed} /\ (f # Malformed => f \in P /\ f \in Datagrams)
  BY <1>1 DEF SimFrames, Datagrams
<1>3. /\ a \in AdmissionType /\ a.open /\ Fixed(o, a) /\ a.rx_count = i /\ Sound(a) /\ Heard(a)
      /\ Kept(a) \subseteq P \union {NoFrame} /\ Ledger(o, a) /\ Receipt(o, a, v, i)
  BY DEF Progress
<1>4. /\ a.rx_count < RxLimit(a) /\ a.discard_count <= a.rx_count
  <2>1. RxLimit(a) = RxLimit(o)
    BY <1>3 DEF Fixed, RxLimit
  <2>2. RxLimit(o) \in Nat
    BY AdmissionAssumption DEF RxLimit
  <2>3. Len(v) \in Nat
    OBVIOUS
  <2> QED
    BY <1>3, <2>1, <2>2, <2>3 DEF Sound, Filled
<1>5. f # Malformed => identity(a, f) \in {NoFrame, f}
  <2> SUFFICES ASSUME f # Malformed PROVE identity(a, f) \in {NoFrame, f}
    OBVIOUS
  <2>1. identity(a, f) = NoFrame \/ (identity(a, f) \in Kept(a) /\ identity(a, f).tick = f.tick)
    BY <1>2, <1>3, IdentityKept
  <2> QED
    BY <1>2, <1>3, <2>1 DEF Agree
<1>6. Outcome(a, z, f)
  BY <1>2, <1>3, <1>4, ReceiveFacts
<1>7. Tallied(a, z, f)
  BY <1>1, <1>3, <1>4, <1>5, ReceiveTally
<1> HIDE DEF z, f
<1>8. /\ z \in AdmissionType /\ Fixed(a, z) /\ z.rx_count = i + 1
  BY <1>3, <1>6 DEF Outcome
<1>9. Fixed(o, z) /\ z.open
  BY <1>3, <1>8 DEF Fixed
<1>10. Sound(z)
  BY <1>2, <1>3, <1>6, ReceiveWindow, ReceiveOrdered, ReceiveCoherent, ReceiveFilled, ReceiveAccounts
     DEF Sound
<1>11. Kept(z) \subseteq Kept(a) \union ({f} \intersect Datagrams)
  BY <1>2, <1>3, <1>6, ReceiveKept
<1>12. Kept(z) \subseteq P \union {NoFrame}
  BY <1>2, <1>3, <1>11, FrameFacts
<1>13. /\ a.counts \in [CountFields -> Nat] /\ a.terminals \in [TerminalFields -> Nat]
       /\ z.counts \in [CountFields -> Nat] /\ z.terminals \in [TerminalFields -> Nat]
       /\ o.counts \in [CountFields -> Nat] /\ o.terminals \in [TerminalFields -> Nat]
       /\ a.discard_count \in Nat /\ z.discard_count \in Nat
       /\ a.last_normal_tick \in Int /\ o.last_normal_tick \in Int
       /\ a.integrity \in BOOLEAN /\ z.integrity \in BOOLEAN /\ o.integrity \in BOOLEAN
  BY <1>3, <1>8 DEF AdmissionType
<1>14. IsTerminal(f) => f # Malformed /\ ~IsSample(f)
  BY FrameFacts DEF IsSample
<1>15. IsSample(f) => f # Malformed /\ ~IsTerminal(f)
  BY DEF IsSample
<1>16. f = Malformed \/ IsTerminal(f) \/ IsSample(f)
  BY DEF IsSample
<1>17. Heard(z)
  <2> SUFFICES ASSUME NEW g \in Kept(z), IsTerminal(g) PROVE z.terminals["received_raw"] > 0
    BY DEF Heard
  <2>1. a.terminals["received_raw"] \in Nat /\ z.terminals["received_raw"] \in Nat
    BY <1>13 DEF TerminalFields
  <2>2. CASE g \in Kept(a)
    BY <1>3, <1>7, <2>1, <2>2 DEF Heard, Tallied
  <2>3. CASE g = f
    BY <1>7, <2>1, <2>3 DEF Tallied
  <2> QED
    BY <1>11, <2>2, <2>3
<1>18. Ledger(o, z)
  BY <1>3, <1>7, <1>8, LedgerStep
<1>19. Receipt(o, z, v, i + 1)
  <2> DEFINE C == Collected(v, i)
             D == Collected(v, i + 1)
  <2>1. /\ IsFiniteSet(C) /\ a.counts["received"] = Cardinality(C)
        /\ a.last_normal_tick \in {o.last_normal_tick} \union C
        /\ a.last_normal_tick >= o.last_normal_tick
        /\ \A t \in C : t <= a.last_normal_tick
    BY <1>3 DEF Receipt
  <2>2. a.counts["received"] \in Nat
    BY <1>13 DEF CountFields
  <2>3. CASE ~IsSample(f)
    <3>1. D = C
      BY <2>3, CollectedNext DEF f
    <3>2. z.last_normal_tick = a.last_normal_tick /\ z.counts["received"] = a.counts["received"]
      BY <1>7, <2>2, <2>3 DEF Tallied
    <3> HIDE DEF C, D
    <3> QED
      BY <2>1, <3>1, <3>2 DEF Receipt, C, D
  <2>4. CASE IsSample(f)
    <3>1. D = C \union {f.tick}
      BY <2>4, CollectedNext DEF f
    <3>2. f.tick \in Nat
      BY <1>2, <1>15, <2>4, FrameFacts
    <3>3. \A t \in C : t \in Int /\ t < f.tick
      <4> SUFFICES ASSUME NEW t \in C PROVE t \in Int /\ t < f.tick
        OBVIOUS
      <4>1. PICK j \in 1 .. i : IsSample(v[j]) /\ t = v[j].tick
        BY DEF Collected
      <4>2. j \in DOMAIN v /\ j < i + 1 /\ v[j] \in SimFrames
        BY <1>1, <4>1 DEF IsSample
      <4>3. t \in Nat
        BY <4>1, <4>2 DEF SimFrames
      <4>4. t < f.tick
        BY <1>1, <2>4, <4>1, <4>2 DEF Rising, f
      <4> QED
        BY <4>3, <4>4
    <3>4. f.tick > a.last_normal_tick
      <4>1. f.tick > o.last_normal_tick
        BY <1>1, <2>4 DEF Rising, f
      <4> QED
        BY <2>1, <3>3, <4>1
    <3>5. z.last_normal_tick = f.tick /\ z.counts["received"] = a.counts["received"] + 1
      BY <1>7, <2>4, <3>4 DEF Tallied
    <3>6. f.tick \notin C
      BY <3>2, <3>3
    <3> HIDE DEF C, D
    <3>7. IsFiniteSet(D) /\ Cardinality(D) = Cardinality(C) + 1
      BY <2>1, <3>1, <3>6, FS_AddElement
    <3>8. \A t \in D : t <= f.tick
      BY <3>1, <3>2, <3>3
    <3>9. f.tick >= o.last_normal_tick
      BY <1>13, <2>1, <3>2, <3>4
    <3> QED
      BY <2>1, <3>1, <3>5, <3>7, <3>8, <3>9 DEF Receipt, D
  <2> QED
    BY <2>3, <2>4
<1>21. z.candidate \in {o.candidate} \union {v[j] : j \in 1 .. i + 1}
  <2>1. z.candidate \in {a.candidate, f}
    BY <1>6 DEF Outcome, Dropped, Enveloped, Taken, Parked
  <2>2. a.candidate \in {o.candidate} \union {v[j] : j \in 1 .. i}
    BY DEF Progress
  <2>3. 1 .. i \subseteq 1 .. i + 1 /\ i + 1 \in 1 .. i + 1
    OBVIOUS
  <2>4. f \in {v[j] : j \in 1 .. i + 1}
    BY <2>3 DEF f
  <2> QED
    BY <2>1, <2>2, <2>3, <2>4
<1>20. Progress(o, z, v, i + 1, P)
  BY <1>8, <1>9, <1>10, <1>12, <1>17, <1>18, <1>19, <1>21 DEF Progress
<1> QED
  BY <1>20 DEF z, f

\* The batch makes progress as a whole.
LEMMA ProgressAll ==
  ASSUME NEW o \in AdmissionType, NEW v \in Seq(SimFrames \union {Malformed}),
         NEW P \in SUBSET SimFrames, Agree(P), \A j \in DOMAIN v : v[j] # Malformed => v[j] \in P,
         Rising(v, o.last_normal_tick), Len(v) <= RxLimit(o), Progress(o, o, v, 0, P)
  PROVE  \A a \in ReceiveAll(o, v) : Progress(o, a, v, Len(v), P)
<1> DEFINE n == Len(v)
<1>1. n \in Nat
  OBVIOUS
<1>9. PICK M : Unfolds(M, o, v)
  BY <1>1, ReceiveAllRecursion
<1>2. /\ ReceiveAll(o, v) = M[n] /\ M[0] = {o}
      /\ \A i \in 1 .. n : M[i] = Heirs(M[i - 1], v[i])
  BY <1>9 DEF Unfolds
<1> DEFINE S == {i \in 0 .. n : \A a \in M[i] : Progress(o, a, v, i, P)}
<1>3. 0 \in S
  BY <1>1, <1>2
<1>4. ASSUME NEW i \in 0 .. n - 1, i \in S PROVE i + 1 \in S
  <2>1. i \in Nat /\ i < n /\ i + 1 \in 1 .. n /\ i + 1 \in 0 .. n /\ (i + 1) - 1 = i
    BY <1>1
  <2>2. M[i + 1] = {receive(a, v[i + 1]) : a \in M[i]}
    BY <1>2, <2>1 DEF Heirs
  <2>3. ASSUME NEW a \in M[i] PROVE Progress(o, receive(a, v[i + 1]), v, i + 1, P)
    <3>1. Progress(o, a, v, i, P)
      BY <1>4
    <3> QED
      BY <2>1, <3>1, ProgressStep
  <2> QED
    BY <2>1, <2>2, <2>3
<1>5. n \in 0 .. n
  BY <1>1
<1> HIDE DEF S
<1>6. 0 .. n \subseteq S
  BY <1>1, <1>3, <1>4, BoundedInduction
<1>7. n \in S
  BY <1>5, <1>6
<1> QED
  BY <1>2, <1>7 DEF S

-----------------------------------------------------------------------------
(* A whole cycle of the admission. *)

\* The sample held after a cycle: a newer one that was parked or received, or
\* the one held before.
Renewed(a, c, v) ==
    IF c.fresh
    THEN /\ c.held \in a.future \union {v[j] : j \in DOMAIN v} /\ ~IsTerminal(c.held)
         /\ c.held.tick \in a.held.tick + 1 .. c.expected /\ c.held # NoFrame
    ELSE c.held = a.held

\* What a cycle of n datagrams adds to the counters.
Booked(a, c, n) ==
    /\ c.rx_count = n
    /\ n = c.counts["received"] + c.counts["malformed"]
           + (c.terminals["received_raw"] - a.terminals["received_raw"])
    /\ c.terminals["received_raw"] >= a.terminals["received_raw"]
    /\ c.discard_count = Spilled(c.counts)
    /\ c.counts["consumed"] = IF c.fresh THEN 1 ELSE 0
    /\ \A q \in {"conflict", "future_expired", "nonfinite"} : c.counts[q] = 0
    /\ \A q \in {"conflict", "future_expired", "illegal_reason"} : c.terminals[q] = a.terminals[q]
    /\ Excess(c) >= a.terminals["skew_excess"]
    /\ c.integrity <=>
           (a.integrity \/ c.counts["malformed"] > 0 \/ Excess(c) > a.terminals["skew_excess"])
    /\ c.episode = Add(a.episode, c.counts)
    /\ c.recorded = IF a.cycles >= Warmup THEN Add(a.recorded, c.counts) ELSE a.recorded
    /\ c.warmup_occupancy = IF a.cycles = Warmup THEN future_parked(a) ELSE a.warmup_occupancy

\* The closed admission a goes through a cycle with the datagrams v.
Cycled(a, c, v, P) ==
    /\ c \in AdmissionType /\ ~c.open /\ Sound(c) /\ Heard(c) /\ Kept(c) \subseteq P \union {NoFrame}
    /\ c.cycles = a.cycles + 1 /\ c.expected = NextTick(a) /\ c.tick_base = a.tick_base
    /\ a.latch # NoFrame => c.latch = a.latch
    /\ Renewed(a, c, v) /\ Booked(a, c, Len(v)) /\ Receipt(a, c, v, Len(v))

\* begin_cycle starts the progress.
LEMMA ProgressBegins ==
  ASSUME NEW a \in AdmissionType, ~a.open, Sound(a), Heard(a), SkewMax <= MaxSkew,
         NEW P \in SUBSET SimFrames, Kept(a) \subseteq P \union {NoFrame}, NEW v
  PROVE  LET o == begin_cycle(a, NextTick(a)) IN
         /\ Opened(a, o, NextTick(a)) /\ Clear(a, o) /\ Progress(o, o, v, 0, P)
<1> DEFINE o == begin_cycle(a, NextTick(a))
<1>1. \A f \in a.future : f.reason \in {"none"} \union Legal
  <2> SUFFICES ASSUME NEW f \in a.future PROVE f.reason \in {"none"} \union Legal
    OBVIOUS
  <2>1. f \in Datagrams /\ f \in Kept(a)
    BY DEF AdmissionType, Kept, Remembered
  <2>2. f \in SimFrames
    BY <2>1, FrameFacts
  <2> QED
    BY <2>2 DEF SimFrames
<1>2. Opened(a, o, NextTick(a)) /\ Clear(a, o)
  BY <1>1, BeginClear DEF Sound
<1> HIDE DEF o
<1>3. o \in AdmissionType /\ Fixed(o, o) /\ o.open /\ o.rx_count = 0 /\ o.discard_count = 0
  BY <1>2 DEF Opened, Fixed
<1>4. Sound(o)
  <2>1. {} \in SUBSET Nat
    OBVIOUS
  <2> QED
    BY <1>2, <2>1, BeginInv DEF Sound
<1>5. Kept(o) \subseteq Kept(a) \union {NoFrame}
  BY <1>2, OpenedKept
<1>6. Kept(o) \subseteq P \union {NoFrame}
  BY <1>5
<1>7. Heard(o)
  <2>1. o.terminals = a.terminals
    BY <1>2 DEF Clear
  <2> QED
    BY <1>5, <2>1, FrameFacts DEF Heard
<1>8. o.counts = Zero(CountFields)
  BY <1>2 DEF Clear
<1>9. \A q \in CountFields : o.counts[q] = 0
  BY <1>8 DEF Zero
<1>10. /\ o.counts["received"] = 0 /\ o.counts["malformed"] = 0
       /\ \A q \in {"consumed", "conflict", "future_expired", "nonfinite"} : o.counts[q] = 0
       /\ o.counts["old"] = 0 /\ o.counts["superseded"] = 0
       /\ o.counts["nonfinite"] = 0 /\ o.counts["skew_excess"] = 0
  BY <1>9 DEF CountFields
<1>11. Spilled(o.counts) = 0
  BY <1>10 DEF Spilled
<1>12. Ledger(o, o)
  <2> DEFINE t == o.terminals["received_raw"]
             e == Excess(o)
             m == o.counts["malformed"]
             c == o.counts["received"]
  <2>1. t \in Nat /\ e \in Nat /\ m = 0 /\ c = 0 /\ o.integrity \in BOOLEAN
    BY <1>3, <1>10, TallyType DEF AdmissionType
  <2> HIDE DEF t, e, m, c
  <2>2. 0 = c + m + (t - t) /\ t >= t /\ e >= e /\ ~(m > 0) /\ ~(e > e)
    BY <2>1
  <2> QED
    BY <1>3, <1>10, <1>11, <2>2 DEF Ledger, t, e, m, c
<1>13. Receipt(o, o, v, 0)
  <2>1. Collected(v, 0) = {}
    BY CollectedNext
  <2>2. o.last_normal_tick \in Int
    BY <1>3 DEF AdmissionType
  <2> QED
    BY <1>10, <2>1, <2>2, FS_EmptySet DEF Receipt
<1>14. Progress(o, o, v, 0, P)
  BY <1>3, <1>4, <1>6, <1>7, <1>12, <1>13 DEF Progress
<1> QED
  BY <1>2, <1>14 DEF o

\* What a whole cycle, from begin_cycle to finish_cycle, does with any batch.
LEMMA CycleFacts ==
  ASSUME NEW a \in AdmissionType, ~a.open, Sound(a), Heard(a), SkewMax <= MaxSkew,
         NEW P \in SUBSET SimFrames, Kept(a) \subseteq P \union {NoFrame}, Agree(P),
         NEW v \in Seq(SimFrames \union {Malformed}), \A j \in DOMAIN v : v[j] # Malformed => v[j] \in P,
         Rising(v, a.last_normal_tick), Len(v) <= RxLimit(a),
         NEW b \in ReceiveAll(begin_cycle(a, NextTick(a)), v)
  PROVE  Cycled(a, finish_cycle(b), v, P)
<1> DEFINE o == begin_cycle(a, NextTick(a))
           c == finish_cycle(b)
           n == Len(v)
<1>1. Opened(a, o, NextTick(a)) /\ Clear(a, o) /\ Progress(o, o, v, 0, P)
  BY ProgressBegins
<1>2. /\ o \in AdmissionType /\ o.last_normal_tick = a.last_normal_tick /\ o.cycles = a.cycles
      /\ o.expected = NextTick(a) /\ o.tick_base = a.tick_base /\ o.held = a.held
      /\ o.latch = a.latch /\ o.episode = a.episode /\ o.recorded = a.recorded
      /\ o.terminals = a.terminals /\ o.integrity = a.integrity
      /\ o.warmup_occupancy = IF a.cycles = Warmup THEN future_parked(a) ELSE a.warmup_occupancy
      /\ o.counts = Zero(CountFields) /\ o.candidate \in a.future \union {NoFrame}
  BY <1>1 DEF Opened, Clear
<1> HIDE DEF o
<1>3. Progress(o, b, v, n, P)
  <2>1. Rising(v, o.last_normal_tick) /\ Len(v) <= RxLimit(o)
    BY <1>2 DEF RxLimit
  <2>2. \A x \in ReceiveAll(o, v) : Progress(o, x, v, Len(v), P)
    BY <1>1, <1>2, <2>1, ProgressAll
  <2> QED
    BY <2>2 DEF o
<1>4. /\ b \in AdmissionType /\ Fixed(o, b) /\ b.open /\ b.rx_count = n /\ Sound(b) /\ Heard(b)
      /\ Kept(b) \subseteq P \union {NoFrame} /\ Ledger(o, b) /\ Receipt(o, b, v, n)
      /\ b.candidate \in {o.candidate} \union {v[j] : j \in 1 .. n}
  BY <1>3 DEF Progress
<1>5. Closed(b, c) /\ Settled(b, c)
  BY <1>4, FinishFacts, FinishSettles
<1> HIDE DEF c
<1>6. Sound(c)
  <2>1. {} \in SUBSET Nat
    OBVIOUS
  <2> QED
    BY <1>4, <1>5, <2>1, FinishInv DEF Sound
<1>7. Kept(c) \subseteq Kept(b)
  BY <1>5, ClosedKept
<1>8. Heard(c)
  BY <1>4, <1>5, <1>7 DEF Heard, Closed
<1>9. /\ c \in AdmissionType /\ ~c.open /\ c.cycles = a.cycles + 1 /\ c.expected = NextTick(a)
      /\ c.tick_base = a.tick_base /\ (a.latch # NoFrame => c.latch = a.latch)
  BY <1>2, <1>4, <1>5 DEF Closed, Fixed
<1>10. Renewed(a, c, v)
  <2>1. /\ c.fresh = (b.candidate # NoFrame /\ b.candidate.use = "valid")
        /\ c.held = IF c.fresh THEN b.candidate ELSE b.held
    BY <1>5 DEF Settled
  <2>2. b.held = a.held /\ c.expected = b.expected
    BY <1>2, <1>4, <1>5 DEF Fixed, Closed
  <2>3. CASE ~c.fresh
    BY <2>1, <2>2, <2>3 DEF Renewed
  <2>4. CASE c.fresh
    <3>1. b.candidate # NoFrame /\ c.held = b.candidate
      BY <2>1, <2>4
    <3>2. ~IsTerminal(c.held) /\ c.held.tick \in a.held.tick + 1 .. c.expected
      BY <1>4, <2>2, <3>1 DEF Sound, Ordered
    <3>3. DOMAIN v = 1 .. n
      OBVIOUS
    <3>4. c.held \in a.future \union {v[j] : j \in DOMAIN v}
      BY <1>2, <1>4, <3>1, <3>3
    <3> QED
      BY <2>4, <3>1, <3>2, <3>4 DEF Renewed
  <2> QED
    BY <2>3, <2>4
<1>11. /\ c.fresh = (b.candidate # NoFrame)
       /\ c.counts = IF b.candidate = NoFrame THEN b.counts
                     ELSE [b.counts EXCEPT !["consumed"] = @ + 1]
  <2>1. b.candidate # NoFrame => b.candidate.use = "valid"
    <3> SUFFICES ASSUME b.candidate # NoFrame PROVE b.candidate.use = "valid"
      OBVIOUS
    <3>1. b.candidate \in SimFrames
      BY <1>4 DEF Kept
    <3> QED
      BY <3>1 DEF SimFrames
  <2> QED
    BY <1>5, <2>1 DEF Settled
<1>12. /\ b.counts \in [CountFields -> Nat] /\ c.counts \in [CountFields -> Nat]
       /\ {"consumed", "received", "malformed", "conflict", "future_expired", "nonfinite",
           "old", "superseded", "skew_excess"} \subseteq CountFields
  BY <1>4, <1>9 DEF AdmissionType, CountFields
<1>13. \A q \in CountFields \ {"consumed"} : c.counts[q] = b.counts[q]
  BY <1>11, <1>12
<1>14. c.counts["consumed"] = IF c.fresh THEN 1 ELSE 0
  <2>1. b.counts["consumed"] = 0
    BY <1>4 DEF Ledger
  <2>2. CASE b.candidate = NoFrame
    BY <1>11, <2>1, <2>2
  <2>3. CASE b.candidate # NoFrame
    <3>1. c.fresh /\ c.counts = [b.counts EXCEPT !["consumed"] = @ + 1]
      BY <1>11, <2>3
    <3>2. c.counts["consumed"] = b.counts["consumed"] + 1
      BY <1>12, <3>1
    <3> QED
      BY <2>1, <3>1, <3>2
  <2> QED
    BY <2>2, <2>3
<1>15. /\ c.counts["received"] = b.counts["received"] /\ c.counts["malformed"] = b.counts["malformed"]
       /\ \A q \in {"conflict", "future_expired", "nonfinite"} : c.counts[q] = b.counts[q]
       /\ c.counts["skew_excess"] = b.counts["skew_excess"]
       /\ Spilled(c.counts) = Spilled(b.counts)
  <2>1. \A q \in {"received", "malformed", "conflict", "future_expired", "nonfinite",
                  "old", "superseded", "skew_excess"} : c.counts[q] = b.counts[q]
    BY <1>12, <1>13
  <2>2. /\ c.counts["old"] = b.counts["old"] /\ c.counts["superseded"] = b.counts["superseded"]
        /\ c.counts["nonfinite"] = b.counts["nonfinite"]
        /\ c.counts["skew_excess"] = b.counts["skew_excess"]
        /\ c.counts["received"] = b.counts["received"]
        /\ c.counts["malformed"] = b.counts["malformed"]
    BY <2>1
  <2>3. Spilled(c.counts) = Spilled(b.counts)
    BY <2>2 DEF Spilled
  <2> QED
    BY <2>1, <2>2, <2>3
<1>16. Booked(a, c, n)
  <2>1. /\ c.rx_count = n /\ c.terminals = b.terminals /\ c.discard_count = b.discard_count
        /\ c.integrity = b.integrity /\ c.warmup_occupancy = o.warmup_occupancy
        /\ b.episode = a.episode /\ b.recorded = a.recorded /\ b.cycles = a.cycles
    BY <1>2, <1>4, <1>5 DEF Closed, Fixed
  <2>2. /\ b.rx_count = b.counts["received"] + b.counts["malformed"]
                        + (b.terminals["received_raw"] - a.terminals["received_raw"])
        /\ b.terminals["received_raw"] >= a.terminals["received_raw"]
        /\ b.discard_count = Spilled(b.counts)
        /\ \A q \in {"conflict", "future_expired", "nonfinite"} : b.counts[q] = 0
        /\ \A q \in {"conflict", "future_expired", "illegal_reason"} : b.terminals[q] = a.terminals[q]
        /\ Excess(b) >= Excess(o)
        /\ b.integrity <=> (a.integrity \/ b.counts["malformed"] > 0 \/ Excess(b) > Excess(o))
    BY <1>2, <1>4 DEF Ledger
  <2>3. Excess(c) = Excess(b)
    BY <1>15, <2>1 DEF Excess
  <2>4. Excess(o) = a.terminals["skew_excess"]
    <3>1. o.counts["skew_excess"] = 0
      BY <1>2, <1>12 DEF Zero
    <3>2. a.terminals["skew_excess"] \in Nat
      BY TerminalsType DEF AdmissionType
    <3> QED
      BY <1>2, <3>1, <3>2 DEF Excess
  <2>5. /\ c.episode = Add(a.episode, c.counts)
        /\ c.recorded = IF a.cycles >= Warmup THEN Add(a.recorded, c.counts) ELSE a.recorded
    BY <1>5, <2>1 DEF Settled
  <2>6. /\ n = c.counts["received"] + c.counts["malformed"]
               + (c.terminals["received_raw"] - a.terminals["received_raw"])
        /\ c.terminals["received_raw"] >= a.terminals["received_raw"]
        /\ c.discard_count = Spilled(c.counts)
    BY <1>4, <1>15, <2>1, <2>2
  <2>7. /\ \A q \in {"conflict", "future_expired", "nonfinite"} : c.counts[q] = 0
        /\ \A q \in {"conflict", "future_expired", "illegal_reason"} : c.terminals[q] = a.terminals[q]
    BY <1>15, <2>1, <2>2
  <2>8. /\ Excess(c) >= a.terminals["skew_excess"]
        /\ c.integrity <=>
             (a.integrity \/ c.counts["malformed"] > 0 \/ Excess(c) > a.terminals["skew_excess"])
    BY <1>15, <2>1, <2>2, <2>3, <2>4
  <2> QED
    BY <1>2, <1>14, <2>1, <2>5, <2>6, <2>7, <2>8 DEF Booked
<1>17. Receipt(a, c, v, n)
  BY <1>2, <1>4, <1>5, <1>15 DEF Receipt, Settled
<1> QED
  BY <1>4, <1>6, <1>7, <1>8, <1>9, <1>10, <1>16, <1>17 DEF Cycled, c

-----------------------------------------------------------------------------
(* The values of Freerun's variables. *)

FreeState ==
    [mode : Modes, pid : Int, settle_count : Nat, pending : {NoCommand},
     last_accepted : {NoCommand}, terminal : [reason : Reasons, tick : Nat], auto_arm : BOOLEAN]

ControlType ==
    [tick : Nat, sensor_tick : Int, fresh : BOOLEAN, staleness : Int, rx_count : Nat, old : Nat,
     superseded : Nat, other : Nat, state : Modes, reason : Reasons, sent : BOOLEAN]

Failures == {"NONE", "INTERNAL", "SIGNAL", "PEER_LOST"}

RuntimeType ==
    [tick_base : Nat, admission : AdmissionType, state : FreeState, controls : Seq(ControlType),
     episode_window : [WindowFields -> Nat], recorded_window : [WindowFields -> Nat],
     discarded : Nat, sim_seen : {"none"} \union Legal, terminal_received_recorded : Nat,
     terminal_cycle : Nat, first_terminal_tx_ok : BOOLEAN, term_attempts : Nat, term_sent : Nat,
     term_failed : Nat, failure : Failures]

ModelType ==
    [truth : Truths, reason : {"none", "vehicle", "peer_lost"} \union Legal,
     vehicle_seen : Reasons, source : {"none", "local", "vehicle"}, up : [UpFields -> Nat],
     down : [DownFields -> Nat], term : [TermFields -> Nat], last_received_tick : Int,
     inputs : SUBSET Nat, terminal_logged : BOOLEAN, envelope : SimFrames \union {NoFrame}]

ReplyType == [tick : Int, state : Modes, reason : Reasons, sound : BOOLEAN]

-----------------------------------------------------------------------------
(* The simulator's operations. *)

\* The fields of the model that a drain leaves alone.
SameUplink(m, z) ==
    /\ z.truth = m.truth /\ z.source = m.source /\ z.up = m.up /\ z.inputs = m.inputs
    /\ z.terminal_logged = m.terminal_logged /\ z.envelope = m.envelope

\* Of finitely many integers one is the largest.
LEMMA TopOf ==
  ASSUME NEW f, NEW n \in Nat, n # 0, \A i \in 1 .. n : f[i] \in Int
  PROVE  \E b \in 1 .. n : \A j \in 1 .. n : f[j] <= f[b]
<1> DEFINE T == {i \in 0 .. n : i = 0 \/ \E b \in 1 .. i : \A j \in 1 .. i : f[j] <= f[b]}
<1>1. 0 \in T
  OBVIOUS
<1>2. ASSUME NEW i \in 0 .. n - 1, i \in T PROVE i + 1 \in T
  <2>1. i + 1 \in 0 .. n /\ i + 1 \in 1 .. n /\ 1 .. i + 1 = (1 .. i) \union {i + 1}
    OBVIOUS
  <2>2. \A j \in 1 .. i + 1 : f[j] \in Int
    OBVIOUS
  <2>3. CASE i = 0
    <3>1. 1 .. i + 1 = {i + 1}
      BY <2>3
    <3> QED
      BY <2>1, <2>2, <3>1
  <2>4. CASE i # 0
    <3>1. PICK b \in 1 .. i : \A j \in 1 .. i : f[j] <= f[b]
      BY <1>2, <2>4
    <3>2. \E d \in 1 .. i + 1 : \A j \in 1 .. i + 1 : f[j] <= f[d]
      <4>1. CASE f[i + 1] <= f[b]
        BY <2>1, <3>1, <4>1
      <4>2. CASE ~(f[i + 1] <= f[b])
        <5>1. \A j \in 1 .. i + 1 : f[j] <= f[i + 1]
          BY <2>1, <2>2, <3>1, <4>2
        <5> QED
          BY <2>1, <5>1
      <4> QED
        BY <4>1, <4>2
    <3> QED
      BY <2>1, <3>2
  <2> QED
    BY <2>3, <2>4
<1> HIDE DEF T
<1>3. 0 .. n \subseteq T
  BY <1>1, <1>2, BoundedInduction
<1>4. n \in 0 .. n
  OBVIOUS
<1> QED
  BY <1>3, <1>4 DEF T

\* A finite nonempty set of integers has a largest element.
LEMMA LargestFacts ==
  ASSUME NEW S, IsFiniteSet(S), S # {}, S \subseteq Int
  PROVE  Largest(S) \in S /\ \A y \in S : y <= Largest(S)
<1> DEFINE n == Cardinality(S)
<1>1. n \in Nat /\ ExistsBijection(1 .. n, S)
  BY FS_CardinalityType
<1>2. PICK f : f \in Bijection(1 .. n, S)
  BY <1>1 DEF ExistsBijection
<1>3. (\A i \in 1 .. n : f[i] \in S) /\ (\A x \in S : \E i \in 1 .. n : f[i] = x)
  BY <1>2 DEF Bijection, Injection, Surjection, IsInjective
<1> HIDE DEF n
<1>4. n # 0 /\ \A i \in 1 .. n : f[i] \in Int
  <2>1. PICK x \in S : TRUE
    OBVIOUS
  <2>2. \E i \in 1 .. n : f[i] = x
    BY <1>3, <2>1
  <2>3. n # 0
    BY <1>1, <2>2
  <2> QED
    BY <1>3, <2>3
<1>5. PICK b \in 1 .. n : \A j \in 1 .. n : f[j] <= f[b]
  BY <1>1, <1>4, TopOf
<1>6. f[b] \in S /\ \A y \in S : y <= f[b]
  BY <1>3, <1>5
<1> QED
  BY <1>6 DEF Largest

\* The ordinary and the final replies among the packets p.
Normal(p) == {i \in DOMAIN p : p[i].sound /\ p[i].state # "TERMINATED"}
Final(p) == {i \in DOMAIN p : p[i].sound /\ p[i].state = "TERMINATED"}

\* Replies received and not yet accounted for, ordinary and final ones.
Unsettled(d) ==
    d["received"] - (d["actuator_selected"] + d["intentionally_lost"] + d["superseded"])
Unanswered(t) ==
    t["down_received_raw"] - (t["down_intentionally_lost"] + t["down_survived"])

\* What a drain of the packets p makes of the model m.
Drained(m, z, p) ==
    /\ z \in ModelType /\ SameUplink(m, z)
    /\ z.reason = IF z.vehicle_seen # "NONE" /\ m.reason = "none" THEN "vehicle" ELSE m.reason
    /\ z.down["received"] = m.down["received"] + Cardinality(Normal(p))
    /\ Unsettled(z.down) = Unsettled(m.down) /\ Unanswered(z.term) = Unanswered(m.term)
    /\ \A q \in TermFields \ {"down_received_raw", "down_intentionally_lost", "down_survived"} :
           z.term[q] = m.term[q]
    /\ z.term["down_received_raw"] = m.term["down_received_raw"] + Cardinality(Final(p))
    /\ (\A i \in DOMAIN p : p[i].sound) => z.down["malformed"] = m.down["malformed"]
    /\ \/ z.vehicle_seen = m.vehicle_seen /\ z.term["down_survived"] = m.term["down_survived"]
       \/ /\ z.term["down_survived"] > m.term["down_survived"]
          /\ \E i \in Final(p) : z.vehicle_seen = p[i].reason
    /\ z.last_received_tick \in {m.last_received_tick} \union {p[i].tick : i \in Normal(p)}
    /\ z.last_received_tick >= m.last_received_tick
    /\ \A i \in Normal(p) : p[i].tick <= z.last_received_tick

\* Counters of the model are natural numbers, each by its name.
LEMMA ModelCounters ==
  ASSUME NEW m \in ModelType
  PROVE  /\ m.down["received"] \in Nat /\ m.down["intentionally_lost"] \in Nat
         /\ m.down["actuator_selected"] \in Nat /\ m.down["superseded"] \in Nat
         /\ m.down["malformed"] \in Nat /\ m.term["down_received_raw"] \in Nat
         /\ m.term["down_intentionally_lost"] \in Nat /\ m.term["down_survived"] \in Nat
<1>1. m.down \in [DownFields -> Nat] /\ m.term \in [TermFields -> Nat]
  BY DEF ModelType
<1> QED
  BY <1>1 DEF DownFields, TermFields

\* The image of a finite set of indices of p under the ticks is finite.
LEMMA TicksFinite ==
  ASSUME NEW p, NEW n \in Nat, NEW S \in SUBSET (1 .. n)
  PROVE  IsFiniteSet({p[i].tick : i \in S})
<1> DEFINE Image(i) == {p[j].tick : j \in S \intersect (1 .. i)}
           T == {i \in 0 .. n : IsFiniteSet(Image(i))}
<1>1. 0 \in T
  <2>1. Image(0) = {}
    OBVIOUS
  <2> QED
    BY <2>1, FS_EmptySet
<1>2. ASSUME NEW i \in 0 .. n - 1, i \in T PROVE i + 1 \in T
  <2>1. i + 1 \in 0 .. n /\ 1 .. i + 1 = (1 .. i) \union {i + 1}
    OBVIOUS
  <2>2. CASE i + 1 \in S
    <3>1. Image(i + 1) = Image(i) \union {p[i + 1].tick}
      BY <2>1, <2>2
    <3> HIDE DEF Image
    <3> QED
      BY <1>2, <2>1, <3>1, FS_AddElement
  <2>3. CASE i + 1 \notin S
    <3>1. Image(i + 1) = Image(i)
      BY <2>1, <2>3
    <3> HIDE DEF Image
    <3> QED
      BY <1>2, <2>1, <3>1
  <2> QED
    BY <2>2, <2>3
<1>3. 0 .. n \subseteq T
  <2> HIDE DEF T
  <2> QED
    BY <1>1, <1>2, BoundedInduction
<1>4. n \in 0 .. n /\ S \intersect (1 .. n) = S
  <2>1. n \in 0 .. n
    OBVIOUS
  <2>2. S \intersect (1 .. n) = S
    OBVIOUS
  <2> QED
    BY <2>1, <2>2
<1>5. IsFiniteSet(Image(n))
  BY <1>3, <1>4
<1> QED
  BY <1>4, <1>5

\* receive of sim/freerun.py counts every packet once.
LEMMA SimReceiveFacts ==
  ASSUME NEW m \in ModelType, NEW p \in Seq(ReplyType), NEW drop
  PROVE  Drained(m, SimReceive(m, p, drop), p)
<1> DEFINE sound == {i \in DOMAIN p : p[i].sound}
           ends == {i \in sound : p[i].state = "TERMINATED"}
           normal == sound \ ends
           lost == {i \in sound : drop[i]}
           survivors == Cardinality(normal \ lost)
           seen == IF ends \subseteq lost THEN m.vehicle_seen ELSE p[Largest(ends \ lost)].reason
           selected == IF seen = "NONE" /\ survivors > 0 THEN 1 ELSE 0
           ticks == {p[i].tick : i \in normal} \union {m.last_received_tick}
           why == IF seen # "NONE" /\ m.reason = "none" THEN "vehicle" ELSE m.reason
           last == Largest(ticks)
           e == Cardinality(ends)
           el == Cardinality(ends \intersect lost)
           es == Cardinality(ends \ lost)
           bad == Len(p) - Cardinality(sound)
           n == Cardinality(normal)
           nl == Cardinality(normal \intersect lost)
           over == survivors - selected
           t == [m.term EXCEPT !["down_received_raw"] = @ + e, !["down_intentionally_lost"] = @ + el,
                               !["down_survived"] = @ + es]
           d == [m.down EXCEPT !["malformed"] = @ + bad, !["received"] = @ + n,
                               !["intentionally_lost"] = @ + nl, !["actuator_selected"] = @ + selected,
                               !["superseded"] = @ + over]
           z == SimReceive(m, p, drop)
<1>1. DOMAIN p = 1 .. Len(p) /\ Len(p) \in Nat /\ \A i \in DOMAIN p : p[i] \in ReplyType
  OBVIOUS
<1>2. /\ sound \subseteq DOMAIN p /\ ends = Final(p) /\ normal = Normal(p)
      /\ ends \subseteq sound /\ normal \subseteq sound
  BY DEF Final, Normal
<1>3. IsFiniteSet(DOMAIN p) /\ Cardinality(DOMAIN p) = Len(p)
  <2>1. IsFiniteSet(1 .. Len(p)) /\ Cardinality(1 .. Len(p)) = Len(p)
    BY <1>1, FS_Interval
  <2> QED
    BY <1>1, <2>1
<1>4. z = [m EXCEPT !.vehicle_seen = seen,
                    !.reason = IF seen # "NONE" /\ @ = "none" THEN "vehicle" ELSE @,
                    !.last_received_tick = last,
                    !.term["down_received_raw"] = @ + e,
                    !.term["down_intentionally_lost"] = @ + el,
                    !.term["down_survived"] = @ + es,
                    !.down["malformed"] = @ + bad, !.down["received"] = @ + n,
                    !.down["intentionally_lost"] = @ + nl,
                    !.down["actuator_selected"] = @ + selected,
                    !.down["superseded"] = @ + over]
  BY DEF SimReceive
<1> HIDE DEF z, sound, ends, normal, lost
<1>5. IsFiniteSet(sound) /\ Cardinality(sound) \in Nat /\ Cardinality(sound) <= Len(p)
  BY <1>2, <1>3, FS_Subset, FS_CardinalityType
<1>6. IsFiniteSet(ends) /\ IsFiniteSet(normal)
  BY <1>2, <1>5, FS_Subset
<1>7. /\ e \in Nat /\ el \in Nat /\ es \in Nat /\ e = el + es
      /\ IsFiniteSet(ends \ lost) /\ IsFiniteSet(ends \intersect lost)
  <2>1. IsFiniteSet(ends \ lost) /\ es = e - el
    BY <1>6, FS_Difference
  <2>2. IsFiniteSet(ends \intersect lost)
    BY <1>6, FS_Intersection
  <2>3. e \in Nat /\ el \in Nat /\ es \in Nat
    BY <1>6, <2>1, <2>2, FS_CardinalityType
  <2> HIDE DEF e, el, es
  <2> QED
    BY <2>1, <2>2, <2>3
<1>8. n \in Nat /\ nl \in Nat /\ survivors \in Nat /\ n = nl + survivors
  <2>1. IsFiniteSet(normal \ lost) /\ survivors = n - nl
    BY <1>6, FS_Difference
  <2>2. IsFiniteSet(normal \intersect lost)
    BY <1>6, FS_Intersection
  <2>3. n \in Nat /\ nl \in Nat /\ survivors \in Nat
    BY <1>6, <2>1, <2>2, FS_CardinalityType
  <2> HIDE DEF n, nl, survivors
  <2> QED
    BY <2>1, <2>2, <2>3
<1>9. \/ ends \subseteq lost /\ seen = m.vehicle_seen /\ es = 0
      \/ es > 0 /\ \E i \in ends : seen = p[i].reason
  <2>1. CASE ends \subseteq lost
    <3>1. ends \ lost = {}
      BY <2>1
    <3> QED
      BY <2>1, <3>1, FS_EmptySet
  <2>2. CASE ~(ends \subseteq lost)
    <3>1. ends \ lost # {} /\ ends \ lost \subseteq Int
      BY <1>1, <1>2, <2>2
    <3>2. Largest(ends \ lost) \in ends \ lost
      BY <1>7, <3>1, LargestFacts
    <3>3. es # 0
      BY <1>7, <3>1, FS_EmptySet
    <3>4. es > 0
      BY <1>7, <3>3
    <3> QED
      BY <2>2, <3>2, <3>4
  <2> QED
    BY <2>1, <2>2
<1>10. seen \in Reasons
  BY <1>1, <1>2, <1>9 DEF ModelType, ReplyType
<1>11. /\ last \in ticks /\ \A y \in ticks : y <= last
       /\ ticks \subseteq Int
  <2>1. normal \in SUBSET (1 .. Len(p))
    BY <1>1, <1>2
  <2>2. IsFiniteSet({p[i].tick : i \in normal})
    BY <1>1, <2>1, TicksFinite
  <2>3. IsFiniteSet(ticks)
    BY <2>2, FS_AddElement
  <2>4. ticks # {} /\ ticks \subseteq Int
    BY <1>1, <1>2 DEF ReplyType, ModelType
  <2> HIDE DEF ticks
  <2> QED
    BY <2>3, <2>4, LargestFacts
<1>12. selected \in Nat /\ over \in Nat /\ selected + over = survivors /\ bad \in Nat
  <2> HIDE DEF survivors, seen
  <2> QED
    BY <1>1, <1>5, <1>8
<1> HIDE DEF seen, survivors, selected, ticks, last, e, el, es, bad, n, nl, over
<1>13. m.term \in [TermFields -> Nat] /\ m.down \in [DownFields -> Nat]
  BY DEF ModelType
<1> DEFINE a1 == m.down["received"]
           a2 == m.down["intentionally_lost"]
           a3 == m.down["actuator_selected"]
           a4 == m.down["superseded"]
           a5 == m.down["malformed"]
           b1 == m.term["down_received_raw"]
           b2 == m.term["down_intentionally_lost"]
           b3 == m.term["down_survived"]
<1>31. /\ a1 \in Nat /\ a2 \in Nat /\ a3 \in Nat /\ a4 \in Nat /\ a5 \in Nat
       /\ b1 \in Nat /\ b2 \in Nat /\ b3 \in Nat
  BY ModelCounters
<1>16. /\ t["down_received_raw"] = b1 + e /\ t["down_intentionally_lost"] = b2 + el
       /\ t["down_survived"] = b3 + es
       /\ \A q \in TermFields \ {"down_received_raw", "down_intentionally_lost", "down_survived"} :
              t[q] = m.term[q]
  BY <1>13 DEF TermFields
<1>17. /\ d["malformed"] = a5 + bad /\ d["received"] = a1 + n /\ d["intentionally_lost"] = a2 + nl
       /\ d["actuator_selected"] = a3 + selected /\ d["superseded"] = a4 + over
  BY <1>13 DEF DownFields
<1>32. t = [q \in TermFields |-> t[q]] /\ d = [q \in DownFields |-> d[q]]
  BY <1>13
<1>30. z = [x \in DOMAIN m |-> z[x]]
  <2>1. z \in [DOMAIN m -> {z[x] : x \in DOMAIN m}]
    BY <1>4, Zenon
  <2> QED
    BY <2>1
<1>29. /\ z.vehicle_seen = seen /\ z.reason = why /\ z.last_received_tick = last
       /\ z.term = t /\ z.down = d /\ SameUplink(m, z)
  BY <1>4, <1>13 DEF ModelType, SameUplink
<1> HIDE DEF t, d, a1, a2, a3, a4, a5, b1, b2, b3
<1>14. t \in [TermFields -> Nat]
  <2>1. b1 + e \in Nat /\ b2 + el \in Nat /\ b3 + es \in Nat
    BY <1>7, <1>31
  <2>2. \A q \in TermFields : t[q] \in Nat
    BY <1>13, <1>16, <2>1
  <2> QED
    BY <1>32, <2>2
<1>15. d \in [DownFields -> Nat]
  <2>1. /\ a1 + n \in Nat /\ a2 + nl \in Nat /\ a3 + selected \in Nat /\ a4 + over \in Nat
        /\ a5 + bad \in Nat
    BY <1>8, <1>12, <1>31
  <2>2. \A q \in DownFields : d[q] \in Nat
    BY <1>17, <2>1 DEF DownFields
  <2> QED
    BY <1>32, <2>2
<1>18. /\ z.vehicle_seen = seen /\ z.reason = why /\ z.last_received_tick = last
       /\ z.term = t /\ z.down = d /\ SameUplink(m, z)
  BY <1>29
<1>19. why \in {"none", "vehicle", "peer_lost"} \union Legal
  BY DEF ModelType
<1> HIDE DEF why
<1>20. z \in ModelType
  <2>1. DOMAIN m = {"truth", "reason", "vehicle_seen", "source", "up", "down", "term",
                    "last_received_tick", "inputs", "terminal_logged", "envelope"}
    BY DEF ModelType
  <2>2. z = [truth |-> z.truth, reason |-> z.reason, vehicle_seen |-> z.vehicle_seen,
             source |-> z.source, up |-> z.up, down |-> z.down, term |-> z.term,
             last_received_tick |-> z.last_received_tick, inputs |-> z.inputs,
             terminal_logged |-> z.terminal_logged, envelope |-> z.envelope]
    BY <1>30, <2>1
  <2>3. /\ z.truth \in Truths /\ z.source \in {"none", "local", "vehicle"}
        /\ z.up \in [UpFields -> Nat] /\ z.inputs \in SUBSET Nat
        /\ z.terminal_logged \in BOOLEAN /\ z.envelope \in SimFrames \union {NoFrame}
    BY <1>18 DEF SameUplink, ModelType
  <2>4. z.last_received_tick \in Int
    BY <1>11, <1>18
  <2> QED
    BY <1>10, <1>14, <1>15, <1>18, <1>19, <2>2, <2>3, <2>4 DEF ModelType
<1>21. Unsettled(d) = Unsettled(m.down)
  <2>2. (a1 + n) - ((a3 + selected) + (a2 + nl) + (a4 + over)) = a1 - (a3 + a2 + a4)
    BY <1>8, <1>12, <1>31
  <2> QED
    BY <1>17, <2>2 DEF Unsettled, a1, a2, a3, a4
<1>22. Unanswered(t) = Unanswered(m.term)
  <2>1. (b1 + e) - ((b2 + el) + (b3 + es)) = b1 - (b2 + b3)
    BY <1>7, <1>31
  <2> QED
    BY <1>16, <2>1 DEF Unanswered, b1, b2, b3
<1>23. (\A i \in DOMAIN p : p[i].sound) => d["malformed"] = m.down["malformed"]
  <2> SUFFICES ASSUME \A i \in DOMAIN p : p[i].sound PROVE d["malformed"] = m.down["malformed"]
    OBVIOUS
  <2>1. sound = DOMAIN p
    BY DEF sound
  <2>2. bad = 0
    BY <1>1, <1>3, <2>1 DEF bad
  <2>3. a5 + bad = a5
    BY <1>31, <2>2
  <2> QED
    BY <1>17, <2>3 DEF a5
<1>24. \/ z.vehicle_seen = m.vehicle_seen /\ z.term["down_survived"] = m.term["down_survived"]
       \/ /\ z.term["down_survived"] > m.term["down_survived"]
          /\ \E i \in Final(p) : z.vehicle_seen = p[i].reason
  <2>1. (es = 0 => b3 + es = b3) /\ (es > 0 => b3 + es > b3)
    BY <1>7, <1>31
  <2> QED
    BY <1>2, <1>9, <1>16, <1>18, <2>1 DEF b3
<1>25. /\ last \in {m.last_received_tick} \union {p[i].tick : i \in Normal(p)}
       /\ last >= m.last_received_tick /\ \A i \in Normal(p) : p[i].tick <= last
  BY <1>2, <1>11 DEF ticks
<1>26. z.reason = IF z.vehicle_seen # "NONE" /\ m.reason = "none" THEN "vehicle" ELSE m.reason
  BY <1>18 DEF why
<1>27. n = Cardinality(Normal(p)) /\ e = Cardinality(Final(p))
  BY <1>2 DEF n, e
<1>28. Drained(m, z, p)
  BY <1>16, <1>17, <1>18, <1>20, <1>21, <1>22, <1>23, <1>24, <1>25, <1>26, <1>27
     DEF Drained, a1, b1
<1> QED
  BY <1>28 DEF z

-----------------------------------------------------------------------------
(* The invariant of Freerun, its first part: the datagrams under way, what  *)
(* the admission keeps of them and where the two processes are.             *)

FaultKinds == {"sensor", "kill", "origin", "rt", "sleep", "reply", "record", "lost", "corrupt",
               "signal", "sim_signal", "slow"}

Typed ==
    /\ spc \in {"prologue", "drain", "offer", "done"} /\ model \in ModelType
    /\ k \in Nat /\ offset \in Nat /\ stopped \in BOOLEAN /\ scode \in Int
    /\ vpc \in {"acquire", "wake", "serve", "resend", "after", "exited"} /\ r \in RuntimeType
    /\ carry \in SimFrames \union {NoFrame} /\ acquired \in BOOLEAN /\ rt_ok \in BOOLEAN
    /\ stop \in BOOLEAN /\ vcode \in Int
    /\ uplink \in Seq(SimFrames \union {Malformed}) /\ downlink \in Seq(ReplyType)
    /\ sim_refused \in BOOLEAN /\ veh_refused \in BOOLEAN
    /\ faults \in Seq(FaultKinds)

\* The tick of the sample held when the last record was made.
Last(rt) == IF rt.controls = <<>> THEN NoTick ELSE rt.controls[Len(rt.controls)].sensor_tick

\* A sample newer than the last record's is held, or the same one.
Presented(rt, busy) ==
    IF busy /\ rt.admission.fresh THEN rt.admission.held.tick \in Last(rt) + 1 .. Now(rt)
    ELSE rt.admission.held.tick = Last(rt) /\ (busy => Last(rt) < Now(rt))

\* The integrity fails for what the counters of corruption and skew show only.
Accused(a) ==
    /\ \A q \in {"conflict", "future_expired", "nonfinite"} : a.episode[q] = 0
    /\ \A q \in {"conflict", "future_expired", "illegal_reason"} : a.terminals[q] = 0
    /\ a.integrity <=>
         a.episode["malformed"] + a.episode["skew_excess"] + a.terminals["skew_excess"] > 0

\* The admission between two cycles; busy when the cycle has still to be served.
Admitting(rt, busy) ==
    /\ ~rt.admission.open /\ Sound(rt.admission) /\ Heard(rt.admission)
    /\ rt.admission.tick_base = rt.tick_base
    /\ rt.admission.cycles = Len(rt.controls) + (IF busy THEN 1 ELSE 0)
    /\ rt.admission.cycles = 0 => rt.admission = NewAdmission(rt.tick_base)
    /\ rt.admission.cycles # 0 =>
           rt.admission.expected = rt.admission.tick_base + rt.admission.cycles - 1
    /\ rt.sim_seen = rt.admission.latch.reason
    /\ Presented(rt, busy) /\ Accused(rt.admission)

\* The frames under way, kept, carried or cached.
Around(a, up, c, e) ==
    (Kept(a) \union {up[i] : i \in DOMAIN up} \union {c, e}) \ {NoFrame, Malformed}

\* One frame of a tick; one envelope; no sample newer than n.
KnownToSim(f, e, n) ==
    IF IsTerminal(f) THEN f = e
    ELSE f.tick <= n /\ (f.body \in {"diverged", "nonfinite"} => f.tick = 0)
PoolOk(a, up, c, e, n) ==
    /\ Around(a, up, c, e) \subseteq SimFrames /\ Agree(Around(a, up, c, e))
    /\ \A f \in Around(a, up, c, e) : KnownToSim(f, e, n)
    /\ a.last_normal_tick <= n

LastTick == IF spc = "prologue" THEN -1 ELSE k

\* The carried datagram is yet to be received.
Pend == vpc = "wake" /\ r.controls = <<>>

\* The samples come in the order of their ticks, before any envelope.
InOrder(up, c, pend, last) ==
    /\ Rising(up, IF pend /\ IsSample(c) THEN c.tick ELSE last)
    /\ \A i, j \in DOMAIN up : i < j /\ IsTerminal(up[i]) => ~IsSample(up[j])
    /\ IsTerminal(c) => \A i \in DOMAIN up : ~IsSample(up[i])

\* Where the simulator is, and what it has decided.
Ending(m, n) ==
    /\ m.reason = "none" => m.source = "none"
    /\ (m.reason \in Legal) <=> (m.source = "local")
    /\ m.source = "vehicle" => m.reason = "vehicle"
    /\ m.envelope # NoFrame =>
         /\ IsTerminal(m.envelope) /\ m.envelope.tick = n + 1
         /\ m.envelope.reason = m.reason /\ m.source = "local"
SimOk ==
    /\ spc # "done" => model.vehicle_seen = "NONE"
    /\ spc = "prologue" => k = 0 /\ offset = 0 /\ model = NewModel(model.truth)
    /\ spc = "drain" => IF offset = 0 THEN model.reason = "none" ELSE model.reason \in Legal
    /\ spc = "offer" => /\ model.reason \in {"none"} \union Legal
                        /\ model.reason = "none" =>
                               offset = 0 /\ model.truth \notin {"diverged", "nonfinite"}
    /\ Ending(model, k)

\* Where the vehicle is.
VehOk ==
    /\ vpc = "acquire" => ~acquired /\ rt_ok
    /\ vpc \in {"wake", "serve", "resend"} => acquired
    /\ vpc \in {"acquire", "wake", "serve"} => ~Over(r)
    /\ IF acquired THEN carry \in SimFrames /\ r.tick_base = carry.tick /\ rt_ok
       ELSE carry = NoFrame /\ r = [NewRuntime EXCEPT !.failure = r.failure]

Core ==
    /\ Typed /\ Admitting(r, vpc = "serve")
    /\ PoolOk(r.admission, uplink, carry, model.envelope, LastTick)
    /\ InOrder(uplink, carry, Pend, r.admission.last_normal_tick)
    /\ SimOk /\ VehOk

-----------------------------------------------------------------------------
(* Sequences. *)

\* recv_batch and drain take the first datagrams and leave the others.
LEMMA BatchFacts ==
  ASSUME NEW S, NEW u \in Seq(S), RxMax \in Nat
  PROVE  /\ Batch(u) \in Seq(S) /\ Rest(u) \in Seq(S) /\ Len(Batch(u)) \in Nat
         /\ Len(Batch(u)) <= Len(u) /\ Len(Batch(u)) <= RxMax
         /\ Len(Rest(u)) = Len(u) - Len(Batch(u))
         /\ \A i \in 1 .. Len(Batch(u)) : Batch(u)[i] = u[i]
         /\ \A i \in 1 .. Len(Rest(u)) : Rest(u)[i] = u[Len(Batch(u)) + i]
<1> DEFINE n == IF Len(u) < RxMax THEN Len(u) ELSE RxMax
<1>1. n \in Nat /\ n <= Len(u) /\ n <= RxMax /\ Len(u) \in Nat
  OBVIOUS
<1>2. Batch(u) = SubSeq(u, 1, n)
  BY DEF Batch
<1> HIDE DEF n
<1>3. /\ Batch(u) \in Seq(S) /\ Len(Batch(u)) = n
      /\ \A i \in 1 .. n : Batch(u)[i] = u[i]
  BY <1>1, <1>2
<1>4. Rest(u) = SubSeq(u, n + 1, Len(u))
  BY <1>3 DEF Rest
<1>5. /\ Rest(u) \in Seq(S) /\ Len(Rest(u)) = Len(u) - n
      /\ \A i \in 1 .. Len(u) - n : Rest(u)[i] = u[n + i]
  BY <1>1, <1>4
<1> QED
  BY <1>1, <1>3, <1>5

\* w is what is left of u after losses and corruption, in the order of u.
Thins(h, w, u) ==
    /\ \A i \in DOMAIN w : h[i] \in DOMAIN u /\ w[i] \in {u[h[i]], Malformed}
    /\ \A i, j \in DOMAIN w : i < j => h[i] < h[j]
Thinned(w, u) == \E h : Thins(h, w, u)

\* Datagram n of u is not in w any more.
Spares(w, u, n) == \A i \in DOMAIN w : w[i] = Malformed \/ \E m \in DOMAIN u \ {n} : w[i] = u[m]

\* What a batch leaves in the socket is left of it, in order.
LEMMA RestThins ==
  ASSUME NEW S, NEW u \in Seq(S), RxMax \in Nat
  PROVE  Thinned(Rest(u), u)
<1> DEFINE n == Len(Batch(u))
           h == [i \in DOMAIN Rest(u) |-> n + i]
<1>1. /\ n \in Nat /\ Len(u) \in Nat /\ Rest(u) \in Seq(S) /\ Len(Rest(u)) = Len(u) - n
      /\ \A i \in 1 .. Len(Rest(u)) : Rest(u)[i] = u[n + i]
  BY BatchFacts
<1>2. DOMAIN Rest(u) = 1 .. Len(u) - n /\ DOMAIN u = 1 .. Len(u)
  BY <1>1
<1> HIDE DEF n
<1>3. \A i \in DOMAIN Rest(u) : h[i] = n + i /\ h[i] \in DOMAIN u /\ Rest(u)[i] = u[h[i]]
  BY <1>1, <1>2
<1>4. \A i, j \in DOMAIN Rest(u) : i < j => h[i] < h[j]
  BY <1>1, <1>2
<1> HIDE DEF h
<1> QED
  BY <1>3, <1>4 DEF Thins, Thinned

\* So is the queue behind its first datagram.
LEMMA TailThins ==
  ASSUME NEW S, NEW u \in Seq(S), u # <<>>
  PROVE  Tail(u) \in Seq(S) /\ Thinned(Tail(u), u)
<1> DEFINE w == Tail(u)
           h == [i \in DOMAIN w |-> i + 1]
<1>1. Len(u) \in Nat /\ Len(u) # 0 /\ DOMAIN u = 1 .. Len(u)
  OBVIOUS
<1>2. w \in Seq(S) /\ DOMAIN w = 1 .. Len(u) - 1 /\ \A i \in 1 .. Len(u) - 1 : w[i] = u[i + 1]
  BY <1>1
<1> HIDE DEF w
<1>3. \A i \in DOMAIN w : h[i] = i + 1 /\ h[i] \in DOMAIN u /\ w[i] = u[h[i]]
  BY <1>1, <1>2
<1>4. \A i, j \in DOMAIN w : i < j => h[i] < h[j]
  BY <1>1, <1>2
<1> HIDE DEF h
<1>5. Thinned(w, u)
  BY <1>3, <1>4 DEF Thins, Thinned
<1> QED
  BY <1>2, <1>5 DEF w

\* So is the queue that lost a datagram.
LEMMA WithoutThins ==
  ASSUME NEW S, NEW u \in Seq(S), NEW n \in DOMAIN u
  PROVE  Without(u, n) \in Seq(S) /\ Thinned(Without(u, n), u) /\ Spares(Without(u, n), u, n)
<1> DEFINE w == Without(u, n)
           h == [i \in DOMAIN w |-> IF i < n THEN i ELSE i + 1]
           x == SubSeq(u, 1, n - 1)
           y == SubSeq(u, n + 1, Len(u))
<1>1. Len(u) \in Nat /\ DOMAIN u = 1 .. Len(u) /\ n \in 1 .. Len(u)
  OBVIOUS
<1>2. x \in Seq(S) /\ Len(x) = n - 1 /\ \A i \in 1 .. n - 1 : x[i] = u[i]
  BY <1>1
<1>3. y \in Seq(S) /\ Len(y) = Len(u) - n /\ \A i \in 1 .. Len(u) - n : y[i] = u[n + i]
  BY <1>1
<1>4. w = x \o y
  BY DEF Without
<1> HIDE DEF x, y, w
<1>5. w \in Seq(S) /\ Len(w) = Len(u) - 1 /\ DOMAIN w = 1 .. Len(u) - 1
  <2>0. x \in Seq(S) /\ y \in Seq(S)
    BY <1>2, <1>3
  <2>3. x \o y \in Seq(S) /\ Len(x \o y) = Len(x) + Len(y)
    BY <2>0
  <2>1. w \in Seq(S) /\ Len(w) = Len(x) + Len(y)
    BY <1>4, <2>3
  <2>2. (n - 1) + (Len(u) - n) = Len(u) - 1
    BY <1>1
  <2> QED
    BY <1>2, <1>3, <2>1, <2>2
<1>6. ASSUME NEW i \in DOMAIN w
      PROVE  h[i] = (IF i < n THEN i ELSE i + 1) /\ h[i] \in DOMAIN u /\ w[i] = u[h[i]]
  <2>1. i \in Nat /\ i \in 1 .. Len(u) - 1
    BY <1>1, <1>5
  <2>2. CASE i < n
    <3>1. i \in 1 .. n - 1 /\ i \in 1 .. Len(x) /\ i \in 1 .. Len(u)
      BY <1>1, <1>2, <2>1, <2>2
    <3>2. w[i] = x[i]
      BY <1>2, <1>3, <1>4, <3>1
    <3>3. h[i] = i
      BY <1>5, <2>1, <2>2
    <3> QED
      BY <1>1, <1>2, <2>2, <3>1, <3>2, <3>3
  <2>3. CASE ~(i < n)
    <3>1. i \in (Len(x) + 1) .. (Len(x) + Len(y)) /\ i + 1 \in 1 .. Len(u)
      BY <1>1, <1>2, <1>3, <2>1, <2>3
    <3>2. w[i] = y[i - Len(x)]
      BY <1>2, <1>3, <1>4, <3>1, SMTT(30)
    <3>3. i - Len(x) = i - n + 1 /\ i - n + 1 \in 1 .. Len(u) - n /\ n + (i - n + 1) = i + 1
      BY <1>1, <1>2, <2>1, <2>3
    <3>4. w[i] = u[i + 1]
      BY <1>3, <3>2, <3>3
    <3>5. h[i] = i + 1
      BY <1>5, <2>1, <2>3
    <3> QED
      BY <1>1, <2>3, <3>1, <3>4, <3>5
  <2> QED
    BY <2>2, <2>3
<1>7. \A i, j \in DOMAIN w : i < j => h[i] < h[j]
  <2> SUFFICES ASSUME NEW i \in DOMAIN w, NEW j \in DOMAIN w, i < j PROVE h[i] < h[j]
    OBVIOUS
  <2>1. i \in Nat /\ j \in Nat /\ n \in Nat
    BY <1>1, <1>5
  <2>2. h[i] = (IF i < n THEN i ELSE i + 1) /\ h[j] = (IF j < n THEN j ELSE j + 1)
    BY <1>6
  <2> HIDE DEF h
  <2> QED
    BY <2>1, <2>2
<1>9. Spares(w, u, n)
  <2> SUFFICES ASSUME NEW i \in DOMAIN w PROVE \E m \in DOMAIN u \ {n} : w[i] = u[m]
    BY DEF Spares
  <2>1. h[i] = (IF i < n THEN i ELSE i + 1) /\ h[i] \in DOMAIN u /\ w[i] = u[h[i]]
    BY <1>6
  <2>2. i \in Nat /\ n \in Nat
    BY <1>1, <1>5
  <2> HIDE DEF h
  <2>3. h[i] # n
    BY <2>1, <2>2
  <2> QED
    BY <2>1, <2>3
<1> HIDE DEF h
<1>8. Thinned(w, u)
  BY <1>6, <1>7 DEF Thins, Thinned
<1> QED
  BY <1>5, <1>8, <1>9 DEF w

\* So is the queue with a datagram corrupted.
LEMMA CorruptThins ==
  ASSUME NEW S, NEW u \in Seq(S \union {Malformed}), NEW n \in DOMAIN u
  PROVE  LET w == [u EXCEPT ![n] = Malformed] IN
         w \in Seq(S \union {Malformed}) /\ Thinned(w, u) /\ Spares(w, u, n)
<1> DEFINE w == [u EXCEPT ![n] = Malformed]
           h == [i \in DOMAIN w |-> i]
<1>1. /\ w \in Seq(S \union {Malformed}) /\ DOMAIN w = DOMAIN u /\ DOMAIN u \subseteq Nat
      /\ \A i \in DOMAIN w : w[i] \in {u[i], Malformed} /\ (i = n => w[i] = Malformed)
  OBVIOUS
<1> HIDE DEF w
<1>2. \A i \in DOMAIN w : h[i] = i
  OBVIOUS
<1> HIDE DEF h
<1>3. Thinned(w, u)
  BY <1>1, <1>2 DEF Thins, Thinned
<1>4. Spares(w, u, n)
  BY <1>1 DEF Spares
<1> QED
  BY <1>1, <1>3, <1>4 DEF w

\* The whole queue and the empty one are left of it, too.
LEMMA SameThins ==
  ASSUME NEW S, NEW u \in Seq(S)
  PROVE  Thinned(u, u) /\ Thinned(<<>>, u)
<1> DEFINE h == [i \in DOMAIN u |-> i]
<1>1. \A i \in DOMAIN u : h[i] = i /\ i \in Nat
  OBVIOUS
<1>2. DOMAIN <<>> = {}
  OBVIOUS
<1> HIDE DEF h
<1>3. Thins(h, u, u) /\ Thins(h, <<>>, u)
  BY <1>1, <1>2 DEF Thins
<1> QED
  BY <1>3 DEF Thinned

\* What is left keeps the order.
LEMMA ThinnedInOrder ==
  ASSUME NEW w, NEW u, Thinned(w, u), NEW c, NEW pend, NEW last, InOrder(u, c, pend, last)
  PROVE  InOrder(w, c, pend, last)
<1>1. PICK h : Thins(h, w, u)
  BY DEF Thinned
<1>2. ~IsSample(Malformed) /\ ~IsTerminal(Malformed)
  BY DEF IsSample, IsTerminal, Malformed, NoFrame
<1>3. \A i \in DOMAIN w : /\ IsSample(w[i]) => w[i] = u[h[i]] /\ h[i] \in DOMAIN u
                          /\ IsTerminal(w[i]) => w[i] = u[h[i]] /\ h[i] \in DOMAIN u
  BY <1>1, <1>2 DEF Thins
<1>4. \A i, j \in DOMAIN w : i < j => h[i] < h[j]
  BY <1>1 DEF Thins
<1>5. Rising(w, IF pend /\ IsSample(c) THEN c.tick ELSE last)
  BY <1>3, <1>4 DEF InOrder, Rising
<1>6. \A i, j \in DOMAIN w : i < j /\ IsTerminal(w[i]) => ~IsSample(w[j])
  BY <1>3, <1>4 DEF InOrder
<1>7. IsTerminal(c) => \A i \in DOMAIN w : ~IsSample(w[i])
  BY <1>3 DEF InOrder
<1> QED
  BY <1>5, <1>6, <1>7 DEF InOrder

\* The pool may shrink, and the limit grow.
LEMMA PoolShrinks ==
  ASSUME NEW a, NEW u, NEW c, NEW e, NEW n \in Int, PoolOk(a, u, c, e, n),
         NEW b, NEW w, NEW d, NEW l \in Int, n <= l,
         Around(b, w, d, e) \subseteq Around(a, u, c, e),
         b.last_normal_tick \in Int, b.last_normal_tick <= l
  PROVE  PoolOk(b, w, d, e, l)
<1> DEFINE P == Around(a, u, c, e)
           Q == Around(b, w, d, e)
<1>1. P \subseteq SimFrames /\ Agree(P) /\ \A f \in P : KnownToSim(f, e, n)
  BY DEF PoolOk
<1>2. Q \subseteq P
  OBVIOUS
<1> HIDE DEF P, Q
<1>3. Agree(Q)
  BY <1>1, <1>2 DEF Agree
<1>4. ASSUME NEW f \in Q PROVE KnownToSim(f, e, l)
  <2>1. KnownToSim(f, e, n) /\ f.tick \in Nat
    BY <1>1, <1>2 DEF SimFrames
  <2>2. f.tick <= n => f.tick <= l
    BY <2>1
  <2> QED
    BY <2>1, <2>2 DEF KnownToSim
<1>5. Q \subseteq SimFrames
  BY <1>1, <1>2
<1> QED
  BY <1>3, <1>4, <1>5 DEF PoolOk, Q

\* Losses and corruption bring no new frame.
LEMMA ThinnedAround ==
  ASSUME NEW a, NEW u, NEW w, Thinned(w, u), NEW c, NEW e
  PROVE  Around(a, w, c, e) \subseteq Around(a, u, c, e)
<1>1. PICK h : Thins(h, w, u)
  BY DEF Thinned
<1>2. \A i \in DOMAIN w : w[i] \in {u[h[i]], Malformed} /\ h[i] \in DOMAIN u
  BY <1>1 DEF Thins
<1> QED
  BY <1>2 DEF Around

-----------------------------------------------------------------------------
(* The vehicle's operations. *)

\* The policy's answer in free-run: it ends the episode for StopReason, and
\* otherwise no terminal state is left.
Decided(s, in, z) ==
    LET why == StopReason(SettleCount(s.settle_count, in.held), in)
    IN  /\ (z.mode = "TERMINATED") <=> (why # "NONE")
        /\ z.terminal.reason = why
        /\ why = "NONE" => z.terminal = NoTerminal
        /\ why # "NONE" => z.terminal.tick = in.tick

\* Inputs of the policy in free-run.
FreeInput ==
    [tick : Nat, held : [tick : Int, class : {"none"} \union Truths], fresh : BOOLEAN, staleness : Int,
     command : {NoCommand}, horizon_reached : BOOLEAN, sim_reason : {"none"} \union Legal,
     stop_reason : {"NONE", "SIGNAL"}]

\* step without commands.
LEMMA StepFacts ==
  ASSUME NEW s \in FreeState, NEW in \in FreeInput, s.mode # "TERMINATED"
  PROVE  step(s, in).state \in FreeState /\ Decided(s, in, step(s, in).state)
<1> DEFINE count == SettleCount(s.settle_count, in.held)
           next == [s EXCEPT !.settle_count = count]
           why == StopReason(count, in)
           open == [next EXCEPT !.terminal = NoTerminal]
           z == step(s, in).state
<1>1. count \in Nat
  BY EpisodeAssumption DEF FreeState, FreeInput, SettleCount
<1>2. why \in Reasons
  BY DEF StopReason, Reasons, FreeInput
<1>3. in.command = NoCommand /\ in.tick \in Nat /\ in.held.tick \in Int /\ in.fresh \in BOOLEAN
  BY DEF FreeInput
<1> HIDE DEF count
<1>4. next \in FreeState /\ next.mode # "TERMINATED" /\ next.pending = NoCommand
  BY <1>1 DEF FreeState
<1>5. NoTerminal \in [reason : Reasons, tick : Nat]
  BY DEF NoTerminal, Reasons
<1> HIDE DEF why
<1>6. CASE why # "NONE"
  <2>1. z = [next EXCEPT !.mode = "TERMINATED", !.pending = NoCommand,
                         !.terminal = [reason |-> why, tick |-> in.tick]]
    BY <1>6 DEF step, Terminate, count, why
  <2> HIDE DEF z, next
  <2>2. z.mode = "TERMINATED" /\ z.terminal.reason = why /\ z.terminal.tick = in.tick
    BY <1>4, <2>1 DEF FreeState
  <2>3. z \in FreeState
    BY <1>2, <1>3, <1>4, <2>1 DEF FreeState, Modes
  <2>4. Decided(s, in, z)
    BY <1>6, <2>2 DEF Decided, count, why
  <2> QED
    BY <2>3, <2>4 DEF z
<1>7. CASE why = "NONE"
  <2>1. open \in FreeState /\ open.terminal = NoTerminal /\ open.pending = NoCommand
        /\ open.mode # "TERMINATED"
    BY <1>4, <1>5 DEF FreeState
  <2>2. z = Fly(ApplyDue(Arrive(open, in), in).state, in).state
    BY <1>7 DEF step, count, why
  <2> HIDE DEF z, open, next
  <2>3. Arrive(open, in).state = open
    BY <1>3 DEF Arrive
  <2>4. ApplyDue(Arrive(open, in), in).state = open
    BY <2>1, <2>3 DEF ApplyDue
  <2>5. z = Fly(open, in).state
    BY <2>2, <2>4
  <2>6. z \in FreeState /\ z.terminal = NoTerminal /\ z.mode # "TERMINATED"
    BY <1>3, <2>1, <2>5 DEF Fly, FreeState, Modes
  <2>7. z.terminal.reason = "NONE"
    BY <2>6 DEF NoTerminal
  <2>8. Decided(s, in, z)
    BY <1>7, <2>6, <2>7 DEF Decided, count, why
  <2> QED
    BY <2>6, <2>8 DEF z
<1> QED
  BY <1>6, <1>7

\* The policy is given inputs of its types.
LEMMA InputFacts ==
  ASSUME NEW rt \in RuntimeType, NEW term \in BOOLEAN,
         rt.admission.held \in SimFrames \union {NoFrame}, Ordered(rt.admission)
  PROVE  /\ PolicyInput(rt, term) \in FreeInput
         /\ PolicyInput(rt, term).tick = Now(rt) /\ PolicyInput(rt, term).fresh = rt.admission.fresh
         /\ PolicyInput(rt, term).held = Held(rt) /\ Held(rt).tick = rt.admission.held.tick
         /\ PolicyInput(rt, term).sim_reason = rt.sim_seen
         /\ PolicyInput(rt, term).stop_reason = IF term THEN "SIGNAL" ELSE "NONE"
         /\ staleness(rt.admission) \in Int /\ Now(rt) \in Nat
<1>1. /\ rt.admission \in AdmissionType /\ rt.tick_base \in Nat
      /\ rt.controls \in Seq(ControlType) /\ rt.sim_seen \in {"none"} \union Legal
  BY DEF RuntimeType
<1>2. Now(rt) \in Nat
  BY <1>1 DEF Now
<1>3. Held(rt) \in [tick : Int, class : {"none"} \union Truths] /\ Held(rt).tick = rt.admission.held.tick
  BY DEF Held, SimFrames, NoHeld, NoTick, NoFrame
<1>4. rt.admission.cycles \in Nat /\ rt.admission.expected \in Int /\ rt.admission.fresh \in BOOLEAN
  BY <1>1 DEF AdmissionType
<1>5. rt.admission.held.tick \in Int
  BY DEF SimFrames, NoFrame
<1>6. staleness(rt.admission) \in Int
  BY <1>4, <1>5 DEF staleness
<1> QED
  BY <1>1, <1>2, <1>3, <1>4, <1>6 DEF PolicyInput, FreeInput

\* Window::record counts each record in one rung.
LEMMA WindowType ==
  ASSUME NEW w \in [WindowFields -> Nat], NEW rung, NEW over, NEW success, NEW fresh
  PROVE  WindowRecord(w, rung, over, success, fresh) \in [WindowFields -> Nat]
<1> DEFINE z == WindowRecord(w, rung, over, success, fresh)
<1>1. \A q \in WindowFields : z[q] \in {w[q] + 1, w[q] + 0}
  BY DEF WindowRecord
<1>2. z = [q \in WindowFields |-> z[q]]
  BY DEF WindowRecord
<1> HIDE DEF z
<1>3. \A q \in WindowFields : w[q] \in Nat
  OBVIOUS
<1>4. \A q \in WindowFields : z[q] \in Nat
  BY <1>1, <1>3
<1> QED
  BY <1>2, <1>4 DEF z

\* The fields that a cycle of the admission leaves alone.
Unserved(rt, z) ==
    /\ z.tick_base = rt.tick_base /\ z.state = rt.state /\ z.controls = rt.controls
    /\ z.episode_window = rt.episode_window /\ z.recorded_window = rt.recorded_window
    /\ z.discarded = rt.discarded /\ z.terminal_cycle = rt.terminal_cycle
    /\ z.first_terminal_tx_ok = rt.first_terminal_tx_ok /\ z.term_attempts = rt.term_attempts
    /\ z.term_sent = rt.term_sent /\ z.term_failed = rt.term_failed /\ z.failure = rt.failure

\* From the batch to the policy, the runtime.
LEMMA AdmittedFacts ==
  ASSUME NEW rt \in RuntimeType, NEW c \in AdmissionType, c.latch \in SimFrames \union {NoFrame},
         c.terminals["received_raw"] >= rt.admission.terminals["received_raw"]
  PROVE  LET z == Admitted(rt, c)
             n == c.terminals["received_raw"] - rt.admission.terminals["received_raw"]
         IN  /\ z \in RuntimeType /\ Unserved(rt, z) /\ z.admission = c
             /\ z.sim_seen = IF c.latch = NoFrame THEN rt.sim_seen ELSE c.latch.reason
             /\ z.terminal_received_recorded = rt.terminal_received_recorded
                                               + (IF Recording(rt) THEN n ELSE 0)
<1> DEFINE z == Admitted(rt, c)
           x == c.terminals["received_raw"]
           y == rt.admission.terminals["received_raw"]
           t == rt.terminal_received_recorded
           more == IF Recording(rt) THEN t + (x - y) ELSE t
           seen == IF c.latch = NoFrame THEN rt.sim_seen ELSE c.latch.reason
<1>1. z = [rt EXCEPT !.admission = c, !.terminal_received_recorded = more, !.sim_seen = seen]
  BY DEF Admitted
<1>2. x \in Nat
  BY TallyType
<1>3. y \in Nat
  <2>1. rt.admission \in AdmissionType
    BY DEF RuntimeType
  <2> QED
    BY <2>1, TallyType
<1>4. t \in Nat /\ x >= y
  BY DEF RuntimeType
<1>5. seen \in {"none"} \union Legal
  BY DEF RuntimeType, SimFrames, NoFrame
<1> HIDE DEF z, x, y, t, seen
<1>6. more \in Nat /\ more = t + (IF Recording(rt) THEN x - y ELSE 0)
  BY <1>2, <1>3, <1>4
<1> HIDE DEF more
<1>7. z \in RuntimeType
  BY <1>1, <1>5, <1>6 DEF RuntimeType
<1>8. Unserved(rt, z) /\ z.admission = c /\ z.sim_seen = seen /\ z.terminal_received_recorded = more
  BY <1>1 DEF RuntimeType, Unserved
<1> QED
  BY <1>6, <1>7, <1>8 DEF z, x, y, t, seen

\* The record of a cycle.
LEMMA ControlFacts ==
  ASSUME NEW rt \in RuntimeType, rt.admission.held \in SimFrames \union {NoFrame},
         Ordered(rt.admission), NEW state \in FreeState, NEW success \in BOOLEAN
  PROVE  LET z == Control(rt, state, success)
             a == rt.admission
         IN  /\ z \in ControlType /\ z.tick = Now(rt) /\ z.sensor_tick = a.held.tick
             /\ z.fresh = a.fresh /\ z.staleness = staleness(a) /\ z.rx_count = a.rx_count
             /\ z.old = a.counts["old"] /\ z.superseded = a.counts["superseded"]
             /\ z.other = a.counts["nonfinite"] + a.counts["skew_excess"]
             /\ z.state = state.mode /\ z.reason = state.terminal.reason /\ z.sent = success
<1> DEFINE a == rt.admission
           z == Control(rt, state, success)
           x == a.counts["nonfinite"]
           y == a.counts["skew_excess"]
<1>1. a \in AdmissionType
  BY DEF RuntimeType
<1>2. a.counts \in [CountFields -> Nat] /\ a.rx_count \in Nat /\ a.fresh \in BOOLEAN
  BY <1>1 DEF AdmissionType
<1>3. x \in Nat /\ y \in Nat /\ a.counts["old"] \in Nat /\ a.counts["superseded"] \in Nat
  BY <1>2, CountersType
<1>4. staleness(a) \in Int /\ Now(rt) \in Nat
  <2>1. TRUE \in BOOLEAN
    OBVIOUS
  <2> QED
    BY <2>1, InputFacts
<1>5. a.held.tick \in Int
  BY DEF SimFrames, NoFrame
<1>6. z = [tick |-> Now(rt), sensor_tick |-> a.held.tick, fresh |-> a.fresh,
           staleness |-> staleness(a), rx_count |-> a.rx_count, old |-> a.counts["old"],
           superseded |-> a.counts["superseded"], other |-> x + y,
           state |-> state.mode, reason |-> state.terminal.reason, sent |-> success]
  BY DEF Control
<1>7. state.mode \in Modes /\ state.terminal.reason \in Reasons
  BY DEF FreeState
<1> HIDE DEF a, z, x, y
<1>8. x + y \in Nat
  BY <1>3
<1>9. z \in ControlType
  BY <1>2, <1>3, <1>4, <1>5, <1>6, <1>7, <1>8 DEF ControlType
<1> QED
  BY <1>6, <1>9 DEF a, z, x, y

\* What a cycle served leaves of the runtime rt.
CycleServed(rt, z, state, success) ==
    LET a == rt.admission
        over == state.mode = "TERMINATED"
        one == IF over THEN 1 ELSE 0
        Record(w) == WindowRecord(w, Rung(a.fresh, staleness(a)), over, success, a.fresh)
    IN  /\ z.tick_base = rt.tick_base /\ z.admission = a /\ z.state = state
        /\ z.controls = Append(rt.controls, Control(rt, state, success))
        /\ z.sim_seen = rt.sim_seen /\ z.failure = rt.failure
        /\ z.terminal_received_recorded = rt.terminal_received_recorded
        /\ z.episode_window = Record(rt.episode_window)
        /\ z.recorded_window = IF Recording(rt) THEN Record(rt.recorded_window)
                               ELSE rt.recorded_window
        /\ z.discarded = rt.discarded + (IF Recording(rt) THEN a.discard_count ELSE 0)
        /\ z.terminal_cycle = one /\ z.term_attempts = one
        /\ z.first_terminal_tx_ok = (over /\ success)
        /\ z.term_sent = (IF success THEN one ELSE 0) /\ z.term_failed = (IF success THEN 0 ELSE one)

\* Served, the record of a cycle, books what CycleServed says of it.
LEMMA ServedFacts ==
  ASSUME NEW rt \in RuntimeType, rt.admission.held \in SimFrames \union {NoFrame},
         Ordered(rt.admission), NEW state \in FreeState, NEW success \in BOOLEAN
  PROVE  /\ Served(rt, state, success) \in RuntimeType
         /\ CycleServed(rt, Served(rt, state, success), state, success)
<1> DEFINE a == rt.admission
           z == Served(rt, state, success)
           over == state.mode = "TERMINATED"
           one == IF over THEN 1 ELSE 0
           rung == Rung(a.fresh, staleness(a))
           w == WindowRecord(rt.episode_window, rung, over, success, a.fresh)
           x == IF Recording(rt) THEN WindowRecord(rt.recorded_window, rung, over, success, a.fresh)
                ELSE rt.recorded_window
           row == Control(rt, state, success)
           d == IF Recording(rt) THEN rt.discarded + a.discard_count ELSE rt.discarded
           sent == IF success THEN one ELSE 0
           failed == IF success THEN 0 ELSE one
           first == over /\ success
<1>1. z = [rt EXCEPT
            !.state = state, !.controls = Append(rt.controls, row), !.episode_window = w,
            !.recorded_window = x, !.discarded = d, !.terminal_cycle = one,
            !.term_attempts = one, !.first_terminal_tx_ok = first,
            !.term_sent = sent, !.term_failed = failed]
  BY DEF Served
<1>2. row \in ControlType
  BY ControlFacts
<1>3. Append(rt.controls, row) \in Seq(ControlType)
  BY <1>2 DEF RuntimeType
<1>4. w \in [WindowFields -> Nat] /\ x \in [WindowFields -> Nat]
  BY WindowType DEF RuntimeType
<1>5. d \in Nat /\ d = rt.discarded + (IF Recording(rt) THEN a.discard_count ELSE 0)
  <2>1. rt.discarded \in Nat /\ a \in AdmissionType
    BY DEF RuntimeType
  <2>2. a.discard_count \in Nat
    BY <2>1 DEF AdmissionType
  <2> QED
    BY <2>1, <2>2
<1>6. one \in Nat /\ sent \in Nat /\ failed \in Nat /\ first \in BOOLEAN
  OBVIOUS
<1> HIDE DEF a, z, row, w, x, d, one, sent, failed, first
<1>7. z \in RuntimeType
  BY <1>1, <1>3, <1>4, <1>5, <1>6 DEF RuntimeType
<1>8. /\ z.tick_base = rt.tick_base /\ z.admission = rt.admission /\ z.state = state
      /\ z.controls = Append(rt.controls, row)
      /\ z.sim_seen = rt.sim_seen /\ z.failure = rt.failure
      /\ z.terminal_received_recorded = rt.terminal_received_recorded
  BY <1>1 DEF RuntimeType
<1>9. /\ z.episode_window = w /\ z.recorded_window = x /\ z.discarded = d /\ z.terminal_cycle = one
      /\ z.term_attempts = one /\ z.first_terminal_tx_ok = first
      /\ z.term_sent = sent /\ z.term_failed = failed
  BY <1>1 DEF RuntimeType
<1>10. CycleServed(rt, z, state, success)
  BY <1>5, <1>8, <1>9 DEF CycleServed, a, row, w, x, one, sent, failed, first
<1> QED
  BY <1>7, <1>10 DEF z

\* The fields that a pass of resend_terminal leaves alone.
CopySent(rt, z, success) ==
    /\ z.tick_base = rt.tick_base /\ z.state = rt.state /\ z.controls = rt.controls
    /\ z.admission = rt.admission /\ z.sim_seen = rt.sim_seen
    /\ z.terminal_received_recorded = rt.terminal_received_recorded
    /\ z.episode_window = rt.episode_window /\ z.recorded_window = rt.recorded_window
    /\ z.discarded = rt.discarded /\ z.terminal_cycle = rt.terminal_cycle
    /\ z.first_terminal_tx_ok = rt.first_terminal_tx_ok /\ z.failure = rt.failure
    /\ z.term_attempts = rt.term_attempts + 1
    /\ z.term_sent = rt.term_sent + (IF success THEN 1 ELSE 0)
    /\ z.term_failed = rt.term_failed + (IF success THEN 0 ELSE 1)

\* resend_terminal counts the copies.
LEMMA ResentFacts ==
  ASSUME NEW rt \in RuntimeType, NEW success \in BOOLEAN
  PROVE  Resent(rt, success) \in RuntimeType /\ CopySent(rt, Resent(rt, success), success)
<1> DEFINE z == Resent(rt, success)
           x == rt.term_attempts + 1
           y == rt.term_sent + (IF success THEN 1 ELSE 0)
           w == rt.term_failed + (IF success THEN 0 ELSE 1)
<1>1. z = [rt EXCEPT !.term_attempts = x, !.term_sent = y, !.term_failed = w]
  BY DEF Resent
<1>2. rt.term_attempts \in Nat /\ rt.term_sent \in Nat /\ rt.term_failed \in Nat
  BY DEF RuntimeType
<1>3. x \in Nat /\ y \in Nat /\ w \in Nat
  BY <1>2
<1> HIDE DEF z, x, y, w
<1>4. z \in RuntimeType
  BY <1>1, <1>3 DEF RuntimeType
<1>5. CopySent(rt, z, success)
  BY <1>1 DEF RuntimeType, CopySent, x, y, w
<1> QED
  BY <1>4, <1>5 DEF z

\* A new failure is all that changes.
Broken(rt, z, why) ==
    /\ z.tick_base = rt.tick_base /\ z.state = rt.state /\ z.controls = rt.controls
    /\ z.admission = rt.admission /\ z.sim_seen = rt.sim_seen
    /\ z.terminal_received_recorded = rt.terminal_received_recorded
    /\ z.episode_window = rt.episode_window /\ z.recorded_window = rt.recorded_window
    /\ z.discarded = rt.discarded /\ z.terminal_cycle = rt.terminal_cycle
    /\ z.first_terminal_tx_ok = rt.first_terminal_tx_ok /\ z.failure = why
    /\ z.term_attempts = rt.term_attempts /\ z.term_sent = rt.term_sent
    /\ z.term_failed = rt.term_failed

\* The failure that run reports is set, and nothing else.
LEMMA BrokenFacts ==
  ASSUME NEW rt \in RuntimeType, NEW why \in Failures
  PROVE  LET z == [rt EXCEPT !.failure = why] IN z \in RuntimeType /\ Broken(rt, z, why)
BY DEF RuntimeType, Broken

-----------------------------------------------------------------------------
(* The admission's part of the invariant. *)

\* It speaks of four fields of the runtime.
LEMMA AdmittingSame ==
  ASSUME NEW rt, NEW z, NEW busy, Admitting(rt, busy), z.tick_base = rt.tick_base,
         z.admission = rt.admission, z.controls = rt.controls, z.sim_seen = rt.sim_seen
  PROVE  Admitting(z, busy)
<1>1. Last(z) = Last(rt) /\ Now(z) = Now(rt)
  BY DEF Last, Now
<1>2. Presented(z, busy)
  BY <1>1 DEF Presented, Admitting
<1> QED
  BY <1>2 DEF Admitting

\* A new admission.
LEMMA NewAdmissionFacts ==
  ASSUME NEW t \in Nat, SkewMax <= MaxSkew
  PROVE  LET a == NewAdmission(t) IN
         /\ a \in AdmissionType /\ ~a.open /\ Sound(a) /\ Heard(a) /\ Accused(a)
         /\ a.cycles = 0 /\ a.tick_base = t /\ a.held = NoFrame /\ a.latch = NoFrame
         /\ Kept(a) = {NoFrame} /\ a.last_normal_tick = -1
         /\ a.terminals["received_raw"] = 0
         /\ a.episode = Zero(CountFields) /\ a.recorded = Zero(CountFields)
         /\ a.warmup_occupancy = -1 /\ ~a.integrity
<1> DEFINE a == NewAdmission(t)
<1>1. a = [tick_base |-> t, cycles |-> 0, expected |-> 0, open |-> FALSE,
           integrity |-> SkewMax > MaxSkew, future |-> {}, last_normal_tick |-> -1,
           newest |-> NoFrame, due |-> NoFrame, candidate |-> NoFrame, held |-> NoFrame,
           latch |-> NoFrame, terminal_candidate |-> NoFrame, terminal_seen |-> {},
           terminal_seen_count |-> 0, rx_count |-> 0, discard_count |-> 0, fresh |-> FALSE,
           counts |-> Zero(CountFields), episode |-> Zero(CountFields),
           recorded |-> Zero(CountFields), terminals |-> Zero(TerminalFields),
           warmup_occupancy |-> -1]
  BY DEF NewAdmission
<1>2. Zero(CountFields) \in [CountFields -> Nat] /\ Zero(TerminalFields) \in [TerminalFields -> Nat]
  BY DEF Zero
<1>3. (\A q \in CountFields : Zero(CountFields)[q] = 0)
      /\ (\A q \in TerminalFields : Zero(TerminalFields)[q] = 0)
  BY DEF Zero
<1>4. NoFrame.tick = -1 /\ ~IsTerminal(NoFrame) /\ ~(SkewMax > MaxSkew)
  BY AdmissionAssumption DEF NoFrame, IsTerminal
<1> HIDE DEF a
<1>5. a \in AdmissionType
  BY <1>1, <1>2 DEF AdmissionType, MaybeFrame
<1>6. /\ ~a.open /\ a.cycles = 0 /\ a.tick_base = t /\ a.held = NoFrame /\ a.latch = NoFrame
      /\ a.last_normal_tick = -1 /\ a.future = {} /\ a.expected = 0 /\ a.due = NoFrame
      /\ a.terminal_candidate = NoFrame /\ a.terminal_seen = {} /\ a.newest = NoFrame
      /\ a.candidate = NoFrame /\ a.discard_count = 0 /\ a.rx_count = 0
      /\ a.terminal_seen_count = 0 /\ a.episode = Zero(CountFields)
      /\ a.recorded = Zero(CountFields) /\ a.terminals = Zero(TerminalFields)
      /\ a.warmup_occupancy = -1 /\ ~a.integrity
  BY <1>1, <1>4
<1>7. Kept(a) = {NoFrame} /\ Remembered(a) = {NoFrame}
  BY <1>6 DEF Kept, Remembered
<1>8. Window(a)
  BY <1>6, FS_EmptySet DEF Window
<1>9. Ordered(a)
  BY <1>4, <1>6 DEF Ordered
<1>10. Coherent(a)
  BY <1>4, <1>6, <1>7 DEF Coherent
<1>11. Filled(a)
  BY <1>6 DEF Filled
<1>12. Balance(Zero(CountFields)) = 0
  BY <1>3 DEF Balance, Dispositions, CountFields
<1>13. Pending(a) = 0 /\ Current(a) = 0
  <2>1. {f \in a.future : ~IsTerminal(f)} = {}
    BY <1>6
  <2>2. future_parked(a) = 0
    BY <2>1, FS_EmptySet DEF future_parked, ParkedIn
  <2> QED
    BY <1>6, <2>2 DEF Pending, Current
<1>14. Accounts(a)
  <2>1. ~(a.cycles > Warmup) /\ ~a.open
    BY <1>6, AdmissionAssumption
  <2> QED
    BY <1>6, <1>12, <1>13, <2>1 DEF Accounts
<1>15. Heard(a)
  BY <1>4, <1>7 DEF Heard
<1>16. Accused(a)
  BY <1>3, <1>6 DEF Accused, CountFields, TerminalFields
<1>17. a.terminals["received_raw"] = 0
  BY <1>3, <1>6 DEF TerminalFields
<1> QED
  BY <1>5, <1>6, <1>7, <1>8, <1>9, <1>10, <1>11, <1>14, <1>15, <1>16, <1>17 DEF Sound, a

\* A runtime with a new admission and no records.
LEMMA AdmittingBegins ==
  ASSUME NEW rt, NEW t \in Nat, SkewMax <= MaxSkew, rt.tick_base = t,
         rt.admission = NewAdmission(t), rt.controls = <<>>, rt.sim_seen = "none"
  PROVE  Admitting(rt, FALSE)
<1> DEFINE a == NewAdmission(t)
<1>1. /\ a \in AdmissionType /\ ~a.open /\ Sound(a) /\ Heard(a) /\ Accused(a)
      /\ a.cycles = 0 /\ a.tick_base = t /\ a.held = NoFrame /\ a.latch = NoFrame
  BY NewAdmissionFacts
<1> HIDE DEF a
<1>2. rt.admission = a
  BY DEF a
<1>3. NoFrame.tick = -1 /\ NoFrame.reason = "none"
  BY DEF NoFrame
<1>4. Last(rt) = -1
  BY DEF Last, NoTick
<1>5. Presented(rt, FALSE)
  BY <1>1, <1>2, <1>3, <1>4 DEF Presented
<1>6. Len(rt.controls) = 0
  OBVIOUS
<1> QED
  <2>1. rt.admission.cycles = Len(rt.controls) + 0 /\ rt.admission = NewAdmission(rt.tick_base)
    BY <1>1, <1>2, <1>6 DEF a
  <2>2. /\ ~rt.admission.open /\ Sound(rt.admission) /\ Heard(rt.admission)
        /\ rt.admission.tick_base = rt.tick_base /\ Accused(rt.admission)
        /\ rt.admission.cycles = 0 /\ rt.sim_seen = rt.admission.latch.reason
    BY <1>1, <1>2, <1>3
  <2> QED
    BY <1>5, <2>1, <2>2 DEF Admitting

\* After the cycle is served, its record is the last one.
LEMMA ServeAdmits ==
  ASSUME NEW rt \in RuntimeType, Admitting(rt, TRUE), rt.admission.held \in SimFrames \union {NoFrame},
         NEW state \in FreeState, NEW success \in BOOLEAN, NEW z,
         CycleServed(rt, z, state, success)
  PROVE  Admitting(z, FALSE)
<1> DEFINE row == Control(rt, state, success)
           n == Len(rt.controls)
<1>1. rt.controls \in Seq(ControlType) /\ n \in Nat
  BY DEF RuntimeType
<1>2. row \in ControlType /\ row.sensor_tick = rt.admission.held.tick
  BY ControlFacts DEF Admitting, Sound
<1>3. z.controls = Append(rt.controls, row) /\ z.admission = rt.admission
      /\ z.tick_base = rt.tick_base /\ z.sim_seen = rt.sim_seen
  BY DEF CycleServed
<1> HIDE DEF row
<1>4. Len(z.controls) = n + 1 /\ z.controls # <<>> /\ z.controls[n + 1] = row
  BY <1>1, <1>2, <1>3
<1>5. Last(z) = rt.admission.held.tick
  BY <1>2, <1>4 DEF Last
<1>6. Presented(z, FALSE)
  BY <1>3, <1>5 DEF Presented
<1>7. rt.admission.cycles = n + 1
  BY DEF Admitting
<1>8. z.admission.cycles = Len(z.controls)
  BY <1>3, <1>4, <1>7
<1>9. z.admission.cycles = Len(z.controls) + 0
  BY <1>1, <1>4, <1>8
<1> HIDE DEF n
<1> QED
  BY <1>3, <1>6, <1>9 DEF Admitting

\* What recv_batch took of u, or nothing when an error took its place.
Drawn(u, refused) == IF refused THEN <<>> ELSE Batch(u)
Left(u, refused) == IF refused THEN u ELSE Rest(u)

\* b is the first n datagrams of u and w the others.
Splits(b, w, u, n) ==
    /\ n \in Nat /\ n <= Len(u) /\ n <= RxMax /\ Len(b) = n /\ Len(w) = Len(u) - n
    /\ \A i \in 1 .. n : b[i] = u[i]
    /\ \A i \in 1 .. Len(u) - n : w[i] = u[n + i]

\* A batch splits the queue.
LEMMA DrawnFacts ==
  ASSUME NEW S, NEW u \in Seq(S), NEW refused \in BOOLEAN
  PROVE  /\ Drawn(u, refused) \in Seq(S) /\ Left(u, refused) \in Seq(S)
         /\ Splits(Drawn(u, refused), Left(u, refused), u, Len(Drawn(u, refused)))
         /\ Thinned(Left(u, refused), u)
<1>1. RxMax \in Nat
  BY AdmissionAssumption
<1>2. CASE refused
  <2>1. Drawn(u, refused) = <<>> /\ Left(u, refused) = u
    BY <1>2 DEF Drawn, Left
  <2>2. Len(Drawn(u, refused)) = 0 /\ Drawn(u, refused) \in Seq(S)
    BY <2>1
  <2>3. Len(u) \in Nat /\ \A i \in 1 .. Len(u) - 0 : u[i] = u[0 + i]
    OBVIOUS
  <2>4. Splits(<<>>, u, u, 0)
    BY <1>1, <2>3 DEF Splits
  <2> QED
    BY <2>1, <2>2, <2>4, SameThins
<1>3. CASE ~refused
  <2>1. Drawn(u, refused) = Batch(u) /\ Left(u, refused) = Rest(u)
    BY <1>3 DEF Drawn, Left
  <2>2. Splits(Batch(u), Rest(u), u, Len(Batch(u))) /\ Batch(u) \in Seq(S) /\ Rest(u) \in Seq(S)
    BY <1>1, BatchFacts DEF Splits
  <2>3. Thinned(Rest(u), u)
    BY <1>1, RestThins
  <2> QED
    BY <2>1, <2>2, <2>3
<1> QED
  BY <1>2, <1>3

\* The datagrams of a cycle: the carried one first, in cycle zero.
Cargo(c, first, b) == (IF first THEN <<c>> ELSE <<>>) \o b

\* v has m times c, at most once, and then b.
Laden(v, c, m, b) ==
    /\ Len(v) = m + Len(b) /\ Len(v) \in Nat
    /\ \A j \in 1 .. Len(v) : IF j <= m THEN v[j] = c ELSE v[j] = b[j - m]

\* Its datagrams, one by one.
LEMMA CargoFacts ==
  ASSUME NEW S, NEW c \in S, NEW first \in BOOLEAN, NEW b \in Seq(S)
  PROVE  /\ Cargo(c, first, b) \in Seq(S)
         /\ Laden(Cargo(c, first, b), c, IF first THEN 1 ELSE 0, b)
<1> DEFINE v == Cargo(c, first, b)
<1>1. CASE first
  <2>1. v = <<c>> \o b /\ <<c>> \in Seq(S) /\ Len(<<c>>) = 1
    BY <1>1 DEF Cargo
  <2>2. v \in Seq(S) /\ Len(v) = 1 + Len(b) /\ Len(b) \in Nat /\ Len(v) \in Nat
    BY <2>1
  <2>3. ASSUME NEW j \in 1 .. Len(v) PROVE IF j <= 1 THEN v[j] = c ELSE v[j] = b[j - 1]
    BY <2>1, <2>2
  <2> HIDE DEF v
  <2>4. Laden(v, c, 1, b)
    BY <2>2, <2>3 DEF Laden
  <2> QED
    BY <1>1, <2>2, <2>4 DEF v
<1>2. CASE ~first
  <2>1. v = <<>> \o b /\ <<>> \in Seq(S) /\ Len(<<>>) = 0
    BY <1>2 DEF Cargo
  <2>2. v \in Seq(S) /\ Len(v) = 0 + Len(b) /\ Len(b) \in Nat /\ Len(v) \in Nat
    BY <2>1
  <2>3. v = b
    BY <2>1
  <2>4. \A j \in 1 .. Len(v) : ~(j <= 0) /\ v[j] = b[j - 0]
    BY <2>2, <2>3
  <2> HIDE DEF v
  <2>5. Laden(v, c, 0, b)
    BY <2>2, <2>4 DEF Laden
  <2> QED
    BY <1>2, <2>2, <2>5 DEF v
<1> QED
  BY <1>1, <1>2

\* The datagrams that a cycle takes come in order, and those left behind them.
LEMMA CargoInOrder ==
  ASSUME NEW u \in Seq(SimFrames \union {Malformed}), NEW c \in SimFrames \union {Malformed},
         NEW first \in BOOLEAN, NEW last \in Int, InOrder(u, c, first, last),
         first => last = -1 /\ c \in SimFrames, NEW b \in Seq(SimFrames \union {Malformed}),
         NEW w \in Seq(SimFrames \union {Malformed}), NEW n, Splits(b, w, u, n), NEW x \in Int,
         x \in {last} \union Collected(Cargo(c, first, b), Len(Cargo(c, first, b)))
  PROVE  Rising(Cargo(c, first, b), last) /\ InOrder(w, c, FALSE, x)
<1> DEFINE v == Cargo(c, first, b)
           m == IF first THEN 1 ELSE 0
           base == IF first /\ IsSample(c) THEN c.tick ELSE last
<1>1. /\ v \in Seq(SimFrames \union {Malformed}) /\ Len(v) = m + Len(b) /\ Len(v) \in Nat
      /\ \A j \in 1 .. Len(v) : IF j <= m THEN v[j] = c ELSE v[j] = b[j - m]
  <2>1. v \in Seq(SimFrames \union {Malformed}) /\ Laden(v, c, m, b)
    BY CargoFacts
  <2> HIDE DEF v, m
  <2> QED
    BY <2>1 DEF Laden
<1>2. /\ n \in Nat /\ Len(u) \in Nat /\ n <= Len(u) /\ Len(b) = n /\ Len(w) = Len(u) - n
      /\ (\A i \in 1 .. n : b[i] = u[i]) /\ (\A i \in 1 .. Len(u) - n : w[i] = u[n + i])
  <2>1. Len(u) \in Nat
    OBVIOUS
  <2> QED
    BY <2>1, Zenon DEF Splits
<1>3. /\ DOMAIN v = 1 .. m + n /\ DOMAIN w = 1 .. Len(u) - n /\ DOMAIN u = 1 .. Len(u)
      /\ m \in Nat
  BY <1>1, <1>2
<1>4. /\ \A i \in DOMAIN u : IsSample(u[i]) => u[i].tick > base
      /\ \A i, j \in DOMAIN u : i < j /\ IsSample(u[i]) /\ IsSample(u[j]) => u[i].tick < u[j].tick
  BY DEF InOrder, Rising
<1>5. base \in Int /\ last \in Int /\ base >= last
  <2>1. c \in SimFrames => c.tick \in Nat
    BY DEF SimFrames
  <2> QED
    BY <2>1
<1>6. \A i \in DOMAIN u : IsSample(u[i]) => u[i].tick \in Int
  BY DEF SimFrames, IsSample
<1>7. \A j \in DOMAIN v : IF j <= m THEN first /\ v[j] = c /\ j = 1
                          ELSE j - m \in DOMAIN u /\ j - m <= n /\ v[j] = u[j - m]
  <2> SUFFICES ASSUME NEW j \in DOMAIN v
               PROVE  IF j <= m THEN first /\ v[j] = c /\ j = 1
                      ELSE j - m \in DOMAIN u /\ j - m <= n /\ v[j] = u[j - m]
    OBVIOUS
  <2>1. j \in 1 .. Len(v) /\ j \in Nat /\ j <= m + n
    BY <1>1, <1>2, <1>3
  <2>2. CASE j <= m
    BY <1>1, <2>1, <2>2
  <2>3. CASE ~(j <= m)
    <3>1. v[j] = b[j - m]
      BY <1>1, <2>1, <2>3
    <3> HIDE DEF v, m
    <3>2. j - m \in 1 .. n /\ j - m \in DOMAIN u /\ j - m <= n
      BY <1>2, <1>3, <2>1, <2>3
    <3> QED
      BY <1>2, <2>3, <3>1, <3>2
  <2> QED
    BY <2>2, <2>3
<1>8. first /\ IsSample(c) => c.tick = base /\ c.tick > last
  <2>1. c \in SimFrames => c.tick \in Nat
    BY DEF SimFrames
  <2> QED
    BY <2>1
<1> HIDE DEF v, m, base
<1>9. \A j \in DOMAIN v : IsSample(v[j]) => v[j].tick > last /\ v[j].tick \in Int
  <2> SUFFICES ASSUME NEW j \in DOMAIN v, IsSample(v[j]) PROVE v[j].tick > last /\ v[j].tick \in Int
    OBVIOUS
  <2>1. CASE j <= m
    BY <1>5, <1>7, <1>8, <2>1
  <2>2. CASE ~(j <= m)
    <3>1. j - m \in DOMAIN u /\ v[j] = u[j - m]
      BY <1>7, <2>2
    <3>2. v[j].tick > base /\ v[j].tick \in Int
      BY <1>4, <1>6, <3>1
    <3> QED
      BY <1>5, <3>2
  <2> QED
    BY <2>1, <2>2
<1>10. ASSUME NEW i \in DOMAIN v, NEW j \in DOMAIN v, i < j, IsSample(v[i]), IsSample(v[j])
       PROVE  v[i].tick < v[j].tick
  <2>0. i \in Nat /\ j \in Nat
    BY <1>2, <1>3
  <2>1. ~(j <= m)
    BY <1>7, <1>10, <2>0, <1>3
  <2>2. j - m \in DOMAIN u /\ v[j] = u[j - m]
    BY <1>7, <2>1
  <2>3. CASE i <= m
    <3>1. v[i].tick = base
      BY <1>7, <1>8, <1>10, <2>3
    <3> QED
      BY <1>4, <1>5, <1>6, <1>10, <2>2, <3>1
  <2>4. CASE ~(i <= m)
    <3>1. i - m \in DOMAIN u /\ v[i] = u[i - m] /\ i - m < j - m
      BY <1>3, <1>7, <1>10, <2>0, <2>4
    <3> QED
      BY <1>4, <1>10, <2>2, <3>1
  <2> QED
    BY <2>3, <2>4
<1>11. Rising(v, last)
  BY <1>9, <1>10 DEF Rising
<1>12. \A i \in DOMAIN w : n + i \in DOMAIN u /\ w[i] = u[n + i]
  BY <1>2, <1>3
<1>13. ASSUME NEW i \in DOMAIN w, IsSample(w[i]) PROVE w[i].tick > x
  <2>1. n + i \in DOMAIN u /\ w[i] = u[n + i] /\ w[i].tick \in Int /\ w[i].tick > base
    BY <1>4, <1>6, <1>12, <1>13
  <2>2. CASE x = last
    BY <1>5, <2>1, <2>2
  <2>3. CASE x # last
    <3>1. PICK j \in 1 .. Len(v) : IsSample(v[j]) /\ x = v[j].tick
      BY <2>3 DEF Collected, v
    <3>2. j \in DOMAIN v
      BY <1>1, <1>2, <1>3, <3>1
    <3>3. CASE j <= m
      <4>1. x = base
        BY <1>7, <1>8, <3>1, <3>2, <3>3
      <4> QED
        BY <2>1, <4>1
    <3>4. CASE ~(j <= m)
      <4>1. j - m \in DOMAIN u /\ v[j] = u[j - m] /\ j - m <= n
        BY <1>7, <3>2, <3>4
      <4>2. j - m \in Nat /\ i \in Nat /\ i > 0
        BY <1>2, <1>3, <4>1
      <4>3. j - m < n + i
        BY <1>2, <4>1, <4>2
      <4>4. IsSample(u[j - m]) /\ IsSample(u[n + i])
        BY <1>13, <2>1, <3>1, <4>1
      <4>5. u[j - m].tick < u[n + i].tick
        BY <1>4, <2>1, <4>1, <4>3, <4>4
      <4> QED
        BY <2>1, <3>1, <4>1, <4>5
    <3> QED
      BY <3>3, <3>4
  <2> QED
    BY <2>2, <2>3
<1>14. \A i, j \in DOMAIN w : i < j => n + i < n + j
  BY <1>2, <1>3
<1>15. Rising(w, x)
  BY <1>4, <1>12, <1>13, <1>14 DEF Rising
<1>16. \A i, j \in DOMAIN w : i < j /\ IsTerminal(w[i]) => ~IsSample(w[j])
  BY <1>12, <1>14 DEF InOrder
<1>17. IsTerminal(c) => \A i \in DOMAIN w : ~IsSample(w[i])
  BY <1>12 DEF InOrder
<1>18. InOrder(w, c, FALSE, x)
  BY <1>15, <1>16, <1>17 DEF InOrder
<1> QED
  BY <1>11, <1>18 DEF v

\* The tick of the next cycle.
LEMMA NowIsNext ==
  ASSUME NEW rt \in RuntimeType, Admitting(rt, FALSE)
  PROVE  NextTick(rt.admission) = Now(rt) /\ Now(rt) \in Nat
<1> DEFINE a == rt.admission
           n == Len(rt.controls)
           t == rt.tick_base
           e == a.expected
<1>1. t \in Nat /\ n \in Nat /\ a \in AdmissionType
  BY DEF RuntimeType
<1>2. a.cycles = n + 0 /\ a.tick_base = t
  BY DEF Admitting
<1>3. a.cycles # 0 => e = a.tick_base + a.cycles - 1
  BY DEF Admitting
<1>4. a.cycles \in Nat /\ e \in Int
  BY <1>1 DEF AdmissionType
<1> HIDE DEF n, t, e
<1>5. a.cycles = n
  BY <1>1, <1>2
<1>6. (n = 0 => t = t + n) /\ (n # 0 => (t + n - 1) + 1 = t + n) /\ t + n \in Nat
  BY <1>1
<1>7. NextTick(a) = IF n = 0 THEN t ELSE e + 1
  BY <1>2, <1>5 DEF NextTick, e
<1>8. NextTick(a) = t + n
  BY <1>2, <1>3, <1>5, <1>6, <1>7
<1> QED
  BY <1>6, <1>8 DEF Now, t, n

\* What the counters show after the cycle.
LEMMA AccusedNext ==
  ASSUME NEW a \in AdmissionType, NEW c \in AdmissionType, NEW n, Booked(a, c, n), Accused(a)
  PROVE  Accused(c)
<1> DEFINE em == a.episode["malformed"]
           es == a.episode["skew_excess"]
           ts == a.terminals["skew_excess"]
           cm == c.counts["malformed"]
           cs == c.counts["skew_excess"]
           us == c.terminals["skew_excess"]
           x == Excess(c)
<1>1. em \in Nat /\ es \in Nat
  <2>1. a.episode \in [CountFields -> Nat]
    BY DEF AdmissionType
  <2> QED
    BY <2>1, CountersType
<1>2. ts \in Nat
  <2>1. a.terminals \in [TerminalFields -> Nat]
    BY DEF AdmissionType
  <2> QED
    BY <2>1, TerminalsType
<1>3. cm \in Nat /\ cs \in Nat
  <2>1. c.counts \in [CountFields -> Nat]
    BY DEF AdmissionType
  <2> QED
    BY <2>1, CountersType
<1>4. us \in Nat
  <2>1. c.terminals \in [TerminalFields -> Nat]
    BY DEF AdmissionType
  <2> QED
    BY <2>1, TerminalsType
<1>5. x = cs + us /\ x >= ts
  BY DEF Excess, Booked
<1>6. c.episode = [q \in CountFields |-> a.episode[q] + c.counts[q]]
  <2>1. DOMAIN a.episode = CountFields
    BY DEF AdmissionType
  <2> QED
    BY <2>1 DEF Booked, Add
<1>7. c.episode["malformed"] = em + cm /\ c.episode["skew_excess"] = es + cs
  BY <1>6 DEF CountFields
<1>8. c.integrity <=> (a.integrity \/ cm > 0 \/ x > ts)
  BY DEF Booked
<1>9. a.integrity <=> em + es + ts > 0
  BY DEF Accused
<1>10. \A q \in {"conflict", "future_expired", "nonfinite"} : c.episode[q] = 0
  <2> SUFFICES ASSUME NEW q \in {"conflict", "future_expired", "nonfinite"} PROVE c.episode[q] = 0
    OBVIOUS
  <2>1. q \in CountFields /\ a.episode[q] = 0 /\ c.counts[q] = 0
    BY DEF CountFields, Accused, Booked
  <2> QED
    BY <1>6, <2>1
<1>11. \A q \in {"conflict", "future_expired", "illegal_reason"} : c.terminals[q] = 0
  BY DEF Accused, Booked
<1> HIDE DEF em, es, ts, cm, cs, us, x
<1>12. (em + es + ts > 0 \/ cm > 0 \/ x > ts) <=> (em + cm) + (es + cs) + us > 0
  BY <1>1, <1>2, <1>3, <1>4, <1>5
<1> QED
  BY <1>7, <1>8, <1>9, <1>10, <1>11, <1>12 DEF Accused, us

\* A cycle of the admission, before it is served.
LEMMA WakeAdmits ==
  ASSUME NEW rt \in RuntimeType, Admitting(rt, FALSE), NEW P \in SUBSET SimFrames, NEW v, NEW c,
         Cycled(rt.admission, c, v, P)
  PROVE  LET z == Admitted(rt, c) IN
         /\ z \in RuntimeType /\ Unserved(rt, z) /\ z.admission = c /\ Admitting(z, TRUE)
         /\ c.terminals["received_raw"] >= rt.admission.terminals["received_raw"]
         /\ z.terminal_received_recorded = rt.terminal_received_recorded
              + (IF Recording(rt)
                 THEN c.terminals["received_raw"] - rt.admission.terminals["received_raw"] ELSE 0)
<1> DEFINE a == rt.admission
           z == Admitted(rt, c)
<1>1. a \in AdmissionType /\ rt.controls \in Seq(ControlType) /\ Len(rt.controls) \in Nat
      /\ rt.tick_base \in Nat
  BY DEF RuntimeType
<1>2. /\ c \in AdmissionType /\ ~c.open /\ Sound(c) /\ Heard(c) /\ Kept(c) \subseteq P \union {NoFrame}
      /\ c.cycles = a.cycles + 1 /\ c.expected = NextTick(a) /\ c.tick_base = a.tick_base
      /\ a.latch # NoFrame => c.latch = a.latch
      /\ Renewed(a, c, v) /\ Booked(a, c, Len(v))
  BY DEF Cycled
<1>3. c.latch \in SimFrames \union {NoFrame}
  BY <1>2 DEF Kept, Remembered
<1>4. c.terminals["received_raw"] >= a.terminals["received_raw"]
  BY <1>2 DEF Booked
<1>5. /\ z \in RuntimeType /\ Unserved(rt, z) /\ z.admission = c
      /\ z.sim_seen = IF c.latch = NoFrame THEN rt.sim_seen ELSE c.latch.reason
      /\ z.terminal_received_recorded = rt.terminal_received_recorded
           + (IF Recording(rt) THEN c.terminals["received_raw"] - a.terminals["received_raw"] ELSE 0)
  BY <1>2, <1>3, <1>4, AdmittedFacts
<1> HIDE DEF z
<1>6. z.tick_base = rt.tick_base /\ z.controls = rt.controls
  BY <1>5 DEF Unserved
<1>7. NextTick(a) = Now(rt) /\ Now(rt) \in Nat
  BY NowIsNext
<1>8. Last(z) = Last(rt) /\ Now(z) = Now(rt)
  BY <1>6 DEF Last, Now
<1>9. a.cycles = Len(rt.controls) + 0 /\ a.tick_base = rt.tick_base /\ Ordered(a)
      /\ a.held.tick = Last(rt) /\ rt.sim_seen = a.latch.reason /\ Accused(a)
      /\ (a.cycles # 0 => a.expected = a.tick_base + a.cycles - 1)
      /\ (a.cycles = 0 => a = NewAdmission(rt.tick_base))
  BY DEF Admitting, Presented, Sound
<1>10. a.held.tick \in Int /\ a.held.tick < Now(rt)
  <2>1. a.held.tick \in Int
    BY <1>1, FrameFacts DEF AdmissionType
  <2>2. CASE a.cycles = 0
    <3>1. a.held = NoFrame
      BY <1>9, <2>2 DEF NewAdmission
    <3>2. a.held.tick = -1
      BY <3>1 DEF NoFrame
    <3> QED
      BY <1>7, <2>1, <3>2
  <2>3. CASE a.cycles # 0
    <3>1. a.held.tick <= a.expected /\ a.expected \in Int /\ NextTick(a) = a.expected + 1
      BY <1>9, <2>3 DEF Ordered, NextTick
    <3> QED
      BY <1>7, <2>1, <3>1
  <2> QED
    BY <2>2, <2>3
<1>11. Presented(z, TRUE)
  <2>1. CASE c.fresh
    <3>1. c.held.tick \in Last(rt) + 1 .. Now(rt)
      BY <1>2, <1>7, <1>9, <2>1 DEF Renewed
    <3> QED
      BY <1>5, <1>8, <2>1, <3>1 DEF Presented
  <2>2. CASE ~c.fresh
    <3>1. c.held.tick = Last(rt)
      BY <1>2, <1>9, <2>2 DEF Renewed
    <3> QED
      BY <1>5, <1>8, <1>9, <1>10, <2>2, <3>1 DEF Presented
  <2> QED
    BY <2>1, <2>2
<1>12. Accused(c)
  BY <1>1, <1>2, <1>9, AccusedNext
<1>13. z.sim_seen = c.latch.reason
  <2>1. CASE c.latch = NoFrame
    <3>1. a.latch = NoFrame
      BY <1>2, <2>1
    <3> QED
      BY <1>5, <1>9, <2>1, <3>1
  <2>2. CASE c.latch # NoFrame
    BY <1>5, <2>2
  <2> QED
    BY <2>1, <2>2
<1>14. c.cycles = Len(z.controls) + 1 /\ c.cycles # 0 /\ c.tick_base = z.tick_base
  BY <1>1, <1>2, <1>6, <1>9
<1>15. c.expected = c.tick_base + c.cycles - 1
  <2>1. c.expected = rt.tick_base + Len(rt.controls)
    BY <1>2, <1>7 DEF Now
  <2>2. c.cycles = Len(rt.controls) + 1 /\ c.tick_base = rt.tick_base
    BY <1>6, <1>14
  <2> QED
    BY <1>1, <2>1, <2>2
<1>16. Admitting(z, TRUE)
  BY <1>2, <1>5, <1>11, <1>12, <1>13, <1>14, <1>15 DEF Admitting
<1> QED
  BY <1>4, <1>5, <1>16 DEF z

-----------------------------------------------------------------------------
(* The simulator's send. *)

\* offer of the frame, with its result: the model's fields.
Offered(m, z, tick, over, how) ==
    LET f == FrameToOffer(m, tick, over)
        sent == how = "sent"
    IN  /\ z.truth = m.truth /\ z.reason = m.reason /\ z.vehicle_seen = m.vehicle_seen
        /\ z.source = m.source /\ z.down = m.down /\ z.last_received_tick = m.last_received_tick
        /\ z.envelope = (IF over THEN f ELSE m.envelope)
        /\ z.inputs = (IF sent /\ ~over THEN m.inputs \union {tick} ELSE m.inputs)
        /\ z.terminal_logged = (m.terminal_logged \/ (sent /\ over))
        /\ IF over
           THEN /\ z.up = m.up
                /\ z.term = Plus(Plus(m.term, "up_attempts", 1),
                                 [lost |-> "up_intentionally_lost", failed |-> "up_tx_fail",
                                  sent |-> "up_transmitted"][how], 1)
           ELSE /\ z.term = m.term
                /\ z.up = Plus(Plus(m.up, "generated", 1),
                               [lost |-> "intentionally_lost", failed |-> "sensor_tx_fail",
                                sent |-> "transmitted"][how], 1)

\* The frame that is offered is one of the simulator's.
LEMMA FrameOffered ==
  ASSUME NEW m \in ModelType, NEW tick \in Nat, NEW over \in BOOLEAN,
         over => m.reason \in Legal
  PROVE  /\ FrameToOffer(m, tick, over) \in SimFrames
         /\ ~over => /\ FrameToOffer(m, tick, over).tick = tick
                     /\ FrameToOffer(m, tick, over).reason = "none"
                     /\ FrameToOffer(m, tick, over).body = m.truth
         /\ over => IF m.envelope = NoFrame
                    THEN /\ FrameToOffer(m, tick, over).tick = tick
                         /\ FrameToOffer(m, tick, over).reason = m.reason
                    ELSE FrameToOffer(m, tick, over) = m.envelope
BY DEF FrameToOffer, SimFrames, ModelType

\* The send counts the frame once, by its result.
LEMMA OfferFacts ==
  ASSUME NEW m \in ModelType, NEW tick \in Nat, NEW over \in BOOLEAN,
         over => m.reason \in Legal, NEW how \in {"lost", "failed", "sent"}
  PROVE  offer(m, tick, over, how) \in ModelType /\ Offered(m, offer(m, tick, over, how), tick, over, how)
<1> DEFINE z == offer(m, tick, over, how)
           f == FrameToOffer(m, tick, over)
           field == IF over
                    THEN [lost |-> "up_intentionally_lost", failed |-> "up_tx_fail",
                          sent |-> "up_transmitted"][how]
                    ELSE [lost |-> "intentionally_lost", failed |-> "sensor_tx_fail",
                          sent |-> "transmitted"][how]
           t == Plus(Plus(m.term, "up_attempts", 1), field, 1)
           u == Plus(Plus(m.up, "generated", 1), field, 1)
<1>1. f \in SimFrames
  BY FrameOffered
<1>2. m.term \in [TermFields -> Nat] /\ m.up \in [UpFields -> Nat]
  BY DEF ModelType
<1>3. over => t \in [TermFields -> Nat]
  <2> SUFFICES ASSUME over PROVE t \in [TermFields -> Nat]
    OBVIOUS
  <2>1. field \in TermFields
    BY DEF TermFields
  <2> HIDE DEF field
  <2>2. \A c \in [TermFields -> Nat], q \in TermFields : Plus(c, q, 1) \in [TermFields -> Nat]
    BY DEF Plus
  <2>3. "up_attempts" \in TermFields
    BY DEF TermFields
  <2> QED
    BY <1>2, <2>1, <2>2, <2>3
<1>4. ~over => u \in [UpFields -> Nat]
  <2> SUFFICES ASSUME ~over PROVE u \in [UpFields -> Nat]
    OBVIOUS
  <2>1. field \in UpFields
    BY DEF UpFields
  <2> HIDE DEF field
  <2>2. \A c \in [UpFields -> Nat], q \in UpFields : Plus(c, q, 1) \in [UpFields -> Nat]
    BY DEF Plus
  <2>3. "generated" \in UpFields
    BY DEF UpFields
  <2> QED
    BY <1>2, <2>1, <2>2, <2>3
<1>5. z = IF over
          THEN IF how # "sent" THEN [m EXCEPT !.envelope = f, !.term = t]
               ELSE [m EXCEPT !.envelope = f, !.term = t, !.terminal_logged = TRUE]
          ELSE IF how # "sent" THEN [m EXCEPT !.up = u]
               ELSE [m EXCEPT !.up = u, !.inputs = m.inputs \union {tick}]
  BY DEF offer, ModelType
<1> HIDE DEF z, f, t, u, field
<1>6. m.inputs \union {tick} \in SUBSET Nat
  BY DEF ModelType
<1>7. z \in ModelType
  BY <1>1, <1>3, <1>4, <1>5, <1>6 DEF ModelType
<1>8. /\ z.truth = m.truth /\ z.reason = m.reason /\ z.vehicle_seen = m.vehicle_seen
      /\ z.source = m.source /\ z.down = m.down /\ z.last_received_tick = m.last_received_tick
      /\ z.envelope = (IF over THEN f ELSE m.envelope)
      /\ z.inputs = (IF how = "sent" /\ ~over THEN m.inputs \union {tick} ELSE m.inputs)
      /\ z.up = (IF over THEN m.up ELSE u) /\ z.term = (IF over THEN t ELSE m.term)
  BY <1>5 DEF ModelType
<1>9. z.terminal_logged = (m.terminal_logged \/ (how = "sent" /\ over))
  BY <1>5 DEF ModelType
<1>10. Offered(m, z, tick, over, how)
  BY <1>8, <1>9 DEF Offered, f, t, u, field
<1> QED
  BY <1>7, <1>10 DEF z

-----------------------------------------------------------------------------
(* The measurement.  Counts and sums over the records: T is the set of the   *)
(* records that pass a test, g gives what a record counts.                   *)
Picked(rows, T) == {i \in DOMAIN rows : rows[i] \in T}
Spread(rows, g) == UNION {{i} \X (1 .. g[rows[i]]) : i \in DOMAIN rows}
Passed(rows, T, n) == IsFiniteSet(Picked(rows, T)) /\ Cardinality(Picked(rows, T)) = n
Totals(rows, g, n) == IsFiniteSet(Spread(rows, g)) /\ Cardinality(Spread(rows, g)) = n

\* Without records there is nothing to count.
LEMMA NothingCounted ==
  ASSUME NEW T, NEW g
  PROVE  Passed(<<>>, T, 0) /\ Totals(<<>>, g, 0)
<1>1. Picked(<<>>, T) = {} /\ Spread(<<>>, g) = {}
  BY DEF Picked, Spread
<1> QED
  BY <1>1, FS_EmptySet DEF Passed, Totals

\* Facts of Append.
LEMMA Appended ==
  ASSUME NEW S, NEW rows \in Seq(S), NEW x \in S
  PROVE  LET w == Append(rows, x)
             n == Len(rows)
         IN  /\ w \in Seq(S) /\ n \in Nat /\ DOMAIN rows = 1 .. n /\ DOMAIN w = (1 .. n) \union {n + 1}
             /\ Len(w) = n + 1 /\ w[n + 1] = x /\ (\A i \in 1 .. n : w[i] = rows[i] /\ i # n + 1)
OBVIOUS

\* A record that passes the test adds one.
LEMMA PassedNext ==
  ASSUME NEW S, NEW rows \in Seq(S), NEW x \in S, NEW T, NEW n \in Nat, Passed(rows, T, n)
  PROVE  Passed(Append(rows, x), T, n + (IF x \in T THEN 1 ELSE 0))
<1> DEFINE w == Append(rows, x)
           l == Len(rows)
           A == Picked(rows, T)
<1>1. /\ l \in Nat /\ DOMAIN rows = 1 .. l /\ DOMAIN w = (1 .. l) \union {l + 1}
      /\ w[l + 1] = x /\ (\A i \in 1 .. l : w[i] = rows[i] /\ i # l + 1)
  BY Appended
<1>2. IsFiniteSet(A) /\ Cardinality(A) = n /\ l + 1 \notin A
  BY <1>1 DEF Passed, Picked
<1> HIDE DEF w
<1>3. CASE x \in T
  <2>1. Picked(w, T) = A \union {l + 1}
    BY <1>1, <1>3 DEF Picked
  <2> HIDE DEF A, l
  <2>2. Passed(w, T, n + 1)
    BY <1>2, <2>1, FS_AddElement DEF Passed
  <2> QED
    BY <1>3, <2>2 DEF w
<1>4. CASE x \notin T
  <2>1. Picked(w, T) = A
    BY <1>1, <1>4 DEF Picked
  <2>2. Passed(w, T, n + 0)
    BY <1>2, <2>1 DEF Passed
  <2> QED
    BY <1>4, <2>2 DEF w
<1> QED
  BY <1>3, <1>4

\* A record adds what it counts.
LEMMA TotalsNext ==
  ASSUME NEW S, NEW rows \in Seq(S), NEW x \in S, NEW g, g[x] \in Nat, NEW n \in Nat, Totals(rows, g, n)
  PROVE  Totals(Append(rows, x), g, n + g[x])
<1> DEFINE w == Append(rows, x)
           l == Len(rows)
           m == g[x]
           A == Spread(rows, g)
           B == {l + 1} \X (1 .. m)
<1>1. /\ l \in Nat /\ DOMAIN rows = 1 .. l /\ DOMAIN w = (1 .. l) \union {l + 1}
      /\ w[l + 1] = x /\ (\A i \in 1 .. l : w[i] = rows[i] /\ i # l + 1)
  BY Appended
<1>2. IsFiniteSet(A) /\ Cardinality(A) = n
  BY DEF Totals
<1> HIDE DEF w
<1>3. IsFiniteSet(B) /\ Cardinality(B) = m
  <2>1. IsFiniteSet({l + 1}) /\ Cardinality({l + 1}) = 1
    BY FS_Singleton
  <2>0. m \in Nat
    OBVIOUS
  <2> HIDE DEF l, m
  <2>2. IsFiniteSet(1 .. m) /\ Cardinality(1 .. m) = m
    <3>1. 1 \in Int /\ m \in Int /\ m = (IF 1 > m THEN 0 ELSE m - 1 + 1)
      BY <2>0
    <3> QED
      BY <3>1, FS_Interval
  <2>3. IsFiniteSet(B) /\ Cardinality(B) = Cardinality({l + 1}) * Cardinality(1 .. m)
    BY <2>1, <2>2, FS_Product
  <2>4. m \in Nat /\ 1 * m = m
    BY DEF m
  <2> QED
    BY <2>1, <2>2, <2>3, <2>4
<1>4. A \intersect B = {}
  BY <1>1 DEF Spread
<1>5. Spread(w, g) = A \union B
  <2>1. \A i \in 1 .. l : {i} \X (1 .. g[w[i]]) = {i} \X (1 .. g[rows[i]])
    BY <1>1
  <2>2. {l + 1} \X (1 .. g[w[l + 1]]) = B
    BY <1>1
  <2>3. Spread(w, g) = (UNION {{i} \X (1 .. g[w[i]]) : i \in 1 .. l}) \union B
    BY <1>1, <2>2 DEF Spread
  <2>4. UNION {{i} \X (1 .. g[w[i]]) : i \in 1 .. l} = A
    BY <1>1, <2>1 DEF Spread
  <2> QED
    BY <2>3, <2>4
<1> HIDE DEF A, B, m
<1>6. IsFiniteSet(A \union B) /\ Cardinality(A \union B) = n + m
  <2>1. Cardinality(A \intersect B) = 0
    BY <1>4, FS_EmptySet
  <2>2. IsFiniteSet(A \union B) /\ Cardinality(A \union B) = Cardinality(A) + Cardinality(B) - Cardinality(A \intersect B)
    BY <1>2, <1>3, FS_Union
  <2>3. m \in Nat
    BY DEF m
  <2> QED
    BY <1>2, <1>3, <2>1, <2>2, <2>3
<1> QED
  BY <1>5, <1>6 DEF Totals, w, m

\* The records by the rung they were on, and by what they sent.
OnRung(q) == {x \in ControlType : Rung(x.fresh, x.staleness) = q}
FreshRows == {x \in ControlType : x.fresh}
ServedRows == {x \in ControlType : x.fresh /\ x.sent}
SentRows == {x \in ControlType : x.state # "TERMINATED" /\ x.sent}
FailedRows == {x \in ControlType : x.state # "TERMINATED" /\ ~x.sent}

\* What a record counts.
OldOf == [x \in ControlType |-> x.old]
SupersededOf == [x \in ControlType |-> x.superseded]
OtherOf == [x \in ControlType |-> x.other]
RxOf == [x \in ControlType |-> x.rx_count]

\* What a cycle that is not yet recorded has added to the counters.
NoCharge == [consumed |-> 0, old |-> 0, superseded |-> 0, other |-> 0, rx |-> 0]
Charge(a) ==
    [consumed |-> a.counts["consumed"], old |-> a.counts["old"],
     superseded |-> a.counts["superseded"],
     other |-> a.counts["nonfinite"] + a.counts["skew_excess"], rx |-> a.rx_count]

\* The window w, and the counters c with e envelopes less the charge d, are
\* counts and sums over the records.
Outputs(w, rows) ==
    /\ \A q \in Rungs : Passed(rows, OnRung(q), w[q])
    /\ Passed(rows, ServedRows, w["served"]) /\ Passed(rows, SentRows, w["sent"])
    /\ Passed(rows, FailedRows, w["failed"])
Inputs(c, d, e, rows) ==
    /\ Passed(rows, FreshRows, c["consumed"] - d.consumed)
    /\ Totals(rows, OldOf, c["old"] - d.old)
    /\ Totals(rows, SupersededOf, c["superseded"] - d.superseded)
    /\ Totals(rows, OtherOf, c["nonfinite"] + c["skew_excess"] - d.other)
    /\ Totals(rows, RxOf, c["received"] + c["malformed"] + e - d.rx)

\* Without a charge these are the sums that latency.py computes.
LEMMA WindowBooked ==
  ASSUME NEW rows \in Seq(ControlType), NEW c \in [CountFields -> Nat], NEW w, NEW e \in Int,
         Outputs(w, rows), Inputs(c, NoCharge, e, rows)
  PROVE  WindowMatches(c, w, e, rows)
<1>1. \A i \in DOMAIN rows : rows[i] \in ControlType
  OBVIOUS
<1>2. ASSUME NEW q \in Rungs
      PROVE  w[q] = CountOf(rows, LAMBDA x : Rung(x.fresh, x.staleness) = q)
  <2>1. Picked(rows, OnRung(q)) = {i \in DOMAIN rows : Rung(rows[i].fresh, rows[i].staleness) = q}
    BY <1>1 DEF Picked, OnRung
  <2> QED
    BY <2>1 DEF CountOf, Outputs, Passed
<1>3. w["served"] = CountOf(rows, LAMBDA x : x.fresh /\ x.sent)
  <2>1. Picked(rows, ServedRows) = {i \in DOMAIN rows : rows[i].fresh /\ rows[i].sent}
    BY <1>1 DEF Picked, ServedRows
  <2> QED
    BY <2>1 DEF CountOf, Outputs, Passed
<1>4. w["sent"] = CountOf(rows, LAMBDA x : x.state # "TERMINATED" /\ x.sent)
  <2>1. Picked(rows, SentRows) = {i \in DOMAIN rows : rows[i].state # "TERMINATED" /\ rows[i].sent}
    BY <1>1 DEF Picked, SentRows
  <2> QED
    BY <2>1 DEF CountOf, Outputs, Passed
<1>5. w["failed"] = CountOf(rows, LAMBDA x : x.state # "TERMINATED" /\ ~x.sent)
  <2>1. Picked(rows, FailedRows) = {i \in DOMAIN rows : rows[i].state # "TERMINATED" /\ ~rows[i].sent}
    BY <1>1 DEF Picked, FailedRows
  <2> QED
    BY <2>1 DEF CountOf, Outputs, Passed
<1>6. /\ c["consumed"] \in Nat /\ c["old"] \in Nat /\ c["superseded"] \in Nat /\ c["nonfinite"] \in Nat
      /\ c["skew_excess"] \in Nat /\ c["received"] \in Nat /\ c["malformed"] \in Nat
  BY DEF CountFields
<1>7. /\ Passed(rows, FreshRows, c["consumed"]) /\ Totals(rows, OldOf, c["old"])
      /\ Totals(rows, SupersededOf, c["superseded"])
      /\ Totals(rows, OtherOf, c["nonfinite"] + c["skew_excess"])
      /\ Totals(rows, RxOf, c["received"] + c["malformed"] + e)
  <2>1. /\ c["consumed"] - 0 = c["consumed"] /\ c["old"] - 0 = c["old"]
        /\ c["superseded"] - 0 = c["superseded"]
        /\ c["nonfinite"] + c["skew_excess"] - 0 = c["nonfinite"] + c["skew_excess"]
        /\ c["received"] + c["malformed"] + e - 0 = c["received"] + c["malformed"] + e
    BY <1>6
  <2>2. /\ NoCharge.consumed = 0 /\ NoCharge.old = 0 /\ NoCharge.superseded = 0 /\ NoCharge.other = 0
        /\ NoCharge.rx = 0
    BY DEF NoCharge
  <2> QED
    BY <2>1, <2>2 DEF Inputs
<1>8. c["consumed"] = CountOf(rows, LAMBDA x : x.fresh)
  <2>1. Picked(rows, FreshRows) = {i \in DOMAIN rows : rows[i].fresh}
    BY <1>1 DEF Picked, FreshRows
  <2> QED
    BY <1>7, <2>1 DEF CountOf, Passed
<1>9. c["old"] = SumOver(rows, LAMBDA x : x.old)
  <2>1. \A i \in DOMAIN rows : OldOf[rows[i]] = rows[i].old
    BY <1>1 DEF OldOf
  <2>2. Spread(rows, OldOf) = UNION {{i} \X (1 .. rows[i].old) : i \in DOMAIN rows}
    BY <2>1 DEF Spread
  <2> QED
    BY <1>7, <2>2 DEF SumOver, Totals
<1>10. c["superseded"] = SumOver(rows, LAMBDA x : x.superseded)
  <2>1. \A i \in DOMAIN rows : SupersededOf[rows[i]] = rows[i].superseded
    BY <1>1 DEF SupersededOf
  <2>2. Spread(rows, SupersededOf) = UNION {{i} \X (1 .. rows[i].superseded) : i \in DOMAIN rows}
    BY <2>1 DEF Spread
  <2> QED
    BY <1>7, <2>2 DEF SumOver, Totals
<1>11. c["nonfinite"] + c["skew_excess"] = SumOver(rows, LAMBDA x : x.other)
  <2>1. \A i \in DOMAIN rows : OtherOf[rows[i]] = rows[i].other
    BY <1>1 DEF OtherOf
  <2>2. Spread(rows, OtherOf) = UNION {{i} \X (1 .. rows[i].other) : i \in DOMAIN rows}
    BY <2>1 DEF Spread
  <2> QED
    BY <1>7, <2>2 DEF SumOver, Totals
<1>12. SumOver(rows, LAMBDA x : x.rx_count) = c["received"] + c["malformed"] + e
  <2>1. \A i \in DOMAIN rows : RxOf[rows[i]] = rows[i].rx_count
    BY <1>1 DEF RxOf
  <2>2. Spread(rows, RxOf) = UNION {{i} \X (1 .. rows[i].rx_count) : i \in DOMAIN rows}
    BY <2>1 DEF Spread
  <2> QED
    BY <1>7, <2>2 DEF SumOver, Totals
<1> QED
  BY <1>2, <1>3, <1>4, <1>5, <1>8, <1>9, <1>10, <1>11, <1>12 DEF WindowMatches

\* The counters that the windows compare are natural numbers.
LEMMA BookType ==
  ASSUME NEW c \in [CountFields -> Nat]
  PROVE  /\ c["consumed"] \in Nat /\ c["old"] \in Nat /\ c["superseded"] \in Nat
         /\ c["nonfinite"] \in Nat /\ c["skew_excess"] \in Nat /\ c["received"] \in Nat
         /\ c["malformed"] \in Nat
BY DEF CountFields

\* A count and a sum are natural numbers.
LEMMA CountedType ==
  ASSUME NEW rows, NEW T, NEW n, Passed(rows, T, n) \/ Totals(rows, T, n)
  PROVE  n \in Nat
<1>1. CASE Passed(rows, T, n)
  BY <1>1, FS_CardinalityType DEF Passed
<1>2. CASE Totals(rows, T, n)
  BY <1>2, FS_CardinalityType DEF Totals
<1> QED
  BY <1>1, <1>2

\* The record of the cycle is counted by the window.
LEMMA OutputsNext ==
  ASSUME NEW rows \in Seq(ControlType), NEW w \in [WindowFields -> Nat], Outputs(w, rows),
         NEW x \in ControlType, NEW rung, NEW over \in BOOLEAN, NEW success \in BOOLEAN,
         NEW fresh \in BOOLEAN, rung = Rung(x.fresh, x.staleness),
         (x.state = "TERMINATED") <=> over, x.sent <=> success, x.fresh <=> fresh
  PROVE  Outputs(WindowRecord(w, rung, over, success, fresh), Append(rows, x))
<1> DEFINE z == WindowRecord(w, rung, over, success, fresh)
           v == Append(rows, x)
<1>1. /\ \A q \in Rungs : q \in WindowFields /\ q # "sent" /\ q # "failed" /\ q # "served" /\ w[q] \in Nat
      /\ "sent" \in WindowFields /\ "failed" \in WindowFields /\ "served" \in WindowFields
      /\ w["sent"] \in Nat /\ w["failed"] \in Nat /\ w["served"] \in Nat
  BY DEF Rungs, WindowFields
<1>2. rung # "sent" /\ rung # "failed" /\ rung # "served"
  BY DEF Rung
<1>3. ASSUME NEW q \in Rungs PROVE Passed(v, OnRung(q), z[q])
  <2>1. z[q] = w[q] + (IF x \in OnRung(q) THEN 1 ELSE 0)
    <3>1. z[q] = w[q] + (IF q = rung THEN 1 ELSE 0)
      BY <1>1, <1>3 DEF WindowRecord
    <3>2. x \in OnRung(q) <=> q = rung
      BY DEF OnRung
    <3> QED
      BY <3>1, <3>2
  <2>2. Passed(rows, OnRung(q), w[q]) /\ w[q] \in Nat
    BY <1>1, <1>3 DEF Outputs
  <2> QED
    BY <2>1, <2>2, PassedNext
<1>4. Passed(v, ServedRows, z["served"])
  <2>1. z["served"] = w["served"] + (IF x \in ServedRows THEN 1 ELSE 0)
    <3>1. z["served"] = w["served"] + (IF fresh /\ success THEN 1 ELSE 0)
      BY <1>1, <1>2 DEF WindowRecord
    <3>2. x \in ServedRows <=> fresh /\ success
      BY DEF ServedRows
    <3> QED
      BY <3>1, <3>2
  <2>2. Passed(rows, ServedRows, w["served"]) /\ w["served"] \in Nat
    BY <1>1 DEF Outputs
  <2> QED
    BY <2>1, <2>2, PassedNext
<1>5. Passed(v, SentRows, z["sent"])
  <2>1. z["sent"] = w["sent"] + (IF x \in SentRows THEN 1 ELSE 0)
    <3>1. z["sent"] = w["sent"] + (IF ~over /\ success THEN 1 ELSE 0)
      BY <1>1, <1>2 DEF WindowRecord
    <3>2. x \in SentRows <=> ~over /\ success
      BY DEF SentRows
    <3> QED
      BY <3>1, <3>2
  <2>2. Passed(rows, SentRows, w["sent"]) /\ w["sent"] \in Nat
    BY <1>1 DEF Outputs
  <2> QED
    BY <2>1, <2>2, PassedNext
<1>6. Passed(v, FailedRows, z["failed"])
  <2>1. z["failed"] = w["failed"] + (IF x \in FailedRows THEN 1 ELSE 0)
    <3>1. z["failed"] = w["failed"] + (IF ~over /\ ~success THEN 1 ELSE 0)
      BY <1>1, <1>2 DEF WindowRecord
    <3>2. x \in FailedRows <=> ~over /\ ~success
      BY DEF FailedRows
    <3> QED
      BY <3>1, <3>2
  <2>2. Passed(rows, FailedRows, w["failed"]) /\ w["failed"] \in Nat
    BY <1>1 DEF Outputs
  <2> QED
    BY <2>1, <2>2, PassedNext
<1> QED
  BY <1>3, <1>4, <1>5, <1>6 DEF Outputs

\* A cycle's counts are a charge until its record is written.
LEMMA InputsCharged ==
  ASSUME NEW rows, NEW c \in [CountFields -> Nat], NEW e \in Int, Inputs(c, NoCharge, e, rows),
         NEW a \in AdmissionType, NEW n \in Int,
         a.rx_count = a.counts["received"] + a.counts["malformed"] + n
  PROVE  Inputs(Add(c, a.counts), Charge(a), e + n, rows)
<1> DEFINE d == a.counts
           z == Add(c, d)
<1>1. d \in [CountFields -> Nat] /\ a.rx_count \in Nat
  BY DEF AdmissionType
<1>2. \A q \in CountFields : z[q] = c[q] + d[q]
  BY DEF Add
<1>3. /\ z["consumed"] = c["consumed"] + d["consumed"] /\ z["old"] = c["old"] + d["old"]
      /\ z["superseded"] = c["superseded"] + d["superseded"]
      /\ z["nonfinite"] = c["nonfinite"] + d["nonfinite"]
      /\ z["skew_excess"] = c["skew_excess"] + d["skew_excess"]
      /\ z["received"] = c["received"] + d["received"] /\ z["malformed"] = c["malformed"] + d["malformed"]
  BY <1>2 DEF CountFields
<1> HIDE DEF z
<1> DEFINE c1 == c["consumed"] d1 == d["consumed"] c2 == c["old"] d2 == d["old"]
           c3 == c["superseded"] d3 == d["superseded"] c4 == c["nonfinite"] d4 == d["nonfinite"]
           c5 == c["skew_excess"] d5 == d["skew_excess"] c6 == c["received"] d6 == d["received"]
           c7 == c["malformed"] d7 == d["malformed"] x == a.rx_count
<1>4. /\ c1 \in Nat /\ c2 \in Nat /\ c3 \in Nat /\ c4 \in Nat /\ c5 \in Nat /\ c6 \in Nat /\ c7 \in Nat
      /\ d1 \in Nat /\ d2 \in Nat /\ d3 \in Nat /\ d4 \in Nat /\ d5 \in Nat /\ d6 \in Nat /\ d7 \in Nat
      /\ x \in Nat /\ x = d6 + d7 + n
  BY <1>1, BookType
<1>5. /\ Charge(a).consumed = d1 /\ Charge(a).old = d2 /\ Charge(a).superseded = d3
      /\ Charge(a).other = d4 + d5 /\ Charge(a).rx = x
      /\ NoCharge.consumed = 0 /\ NoCharge.old = 0 /\ NoCharge.superseded = 0 /\ NoCharge.other = 0
      /\ NoCharge.rx = 0
  BY DEF Charge, NoCharge
<1>6. /\ Passed(rows, FreshRows, c1 - 0) /\ Totals(rows, OldOf, c2 - 0)
      /\ Totals(rows, SupersededOf, c3 - 0) /\ Totals(rows, OtherOf, c4 + c5 - 0)
      /\ Totals(rows, RxOf, c6 + c7 + e - 0)
  BY <1>5 DEF Inputs
<1>7. /\ z["consumed"] = c1 + d1 /\ z["old"] = c2 + d2 /\ z["superseded"] = c3 + d3
      /\ z["nonfinite"] = c4 + d4 /\ z["skew_excess"] = c5 + d5
      /\ z["received"] = c6 + d6 /\ z["malformed"] = c7 + d7
  BY <1>3
<1> HIDE DEF d, c1, c2, c3, c4, c5, c6, c7, d1, d2, d3, d4, d5, d6, d7, x
<1>8. /\ z["consumed"] - Charge(a).consumed = c1 - 0 /\ z["old"] - Charge(a).old = c2 - 0
      /\ z["superseded"] - Charge(a).superseded = c3 - 0
      /\ z["nonfinite"] + z["skew_excess"] - Charge(a).other = c4 + c5 - 0
      /\ z["received"] + z["malformed"] + (e + n) - Charge(a).rx = c6 + c7 + e - 0
  <2> DEFINE p1 == Charge(a).consumed p2 == Charge(a).old p3 == Charge(a).superseded
             p4 == Charge(a).other p5 == Charge(a).rx
             z1 == z["consumed"] z2 == z["old"] z3 == z["superseded"] z4 == z["nonfinite"]
             z5 == z["skew_excess"] z6 == z["received"] z7 == z["malformed"]
  <2>1. /\ p1 = d1 /\ p2 = d2 /\ p3 = d3 /\ p4 = d4 + d5 /\ p5 = x
    BY <1>5
  <2>2. /\ z1 = c1 + d1 /\ z2 = c2 + d2 /\ z3 = c3 + d3 /\ z4 = c4 + d4 /\ z5 = c5 + d5
        /\ z6 = c6 + d6 /\ z7 = c7 + d7
    BY <1>7
  <2> HIDE DEF p1, p2, p3, p4, p5, z1, z2, z3, z4, z5, z6, z7
  <2>3. z1 - p1 = c1 - 0 /\ z2 - p2 = c2 - 0 /\ z3 - p3 = c3 - 0
    BY <1>4, <2>1, <2>2
  <2>4. z4 + z5 - p4 = c4 + c5 - 0 /\ z6 + z7 + (e + n) - p5 = c6 + c7 + e - 0
    BY <1>4, <2>1, <2>2
  <2> QED
    BY <2>3, <2>4 DEF p1, p2, p3, p4, p5, z1, z2, z3, z4, z5, z6, z7
<1>9. Inputs(z, Charge(a), e + n, rows)
  BY <1>6, <1>8, Zenon DEF Inputs
<1> QED
  BY <1>9 DEF z, d

\* The record pays the charge.
LEMMA InputsPaid ==
  ASSUME NEW rows \in Seq(ControlType), NEW c \in [CountFields -> Nat], NEW e \in Int,
         NEW a \in AdmissionType, Inputs(c, Charge(a), e, rows), NEW x \in ControlType,
         a.counts["consumed"] = (IF x.fresh THEN 1 ELSE 0), x.rx_count = a.rx_count,
         x.old = a.counts["old"], x.superseded = a.counts["superseded"],
         x.other = a.counts["nonfinite"] + a.counts["skew_excess"]
  PROVE  Inputs(c, NoCharge, e, Append(rows, x))
<1> DEFINE v == Append(rows, x)
<1>1. /\ x.old \in Nat /\ x.superseded \in Nat /\ x.other \in Nat /\ x.rx_count \in Nat
      /\ OldOf[x] = x.old /\ SupersededOf[x] = x.superseded /\ OtherOf[x] = x.other /\ RxOf[x] = x.rx_count
  BY DEF ControlType, OldOf, SupersededOf, OtherOf, RxOf
<1>2. (IF x \in FreshRows THEN 1 ELSE 0) = (IF x.fresh THEN 1 ELSE 0)
  BY DEF FreshRows
<1> DEFINE y1 == (IF x.fresh THEN 1 ELSE 0) y2 == x.old y3 == x.superseded y4 == x.other y5 == x.rx_count
           s1 == c["consumed"] - y1 s2 == c["old"] - y2 s3 == c["superseded"] - y3
           s4 == c["nonfinite"] + c["skew_excess"] - y4
           s5 == c["received"] + c["malformed"] + e - y5
<1>3. /\ Passed(rows, FreshRows, s1) /\ Totals(rows, OldOf, s2) /\ Totals(rows, SupersededOf, s3)
      /\ Totals(rows, OtherOf, s4) /\ Totals(rows, RxOf, s5)
  BY DEF Inputs, Charge
<1>4. s1 \in Nat /\ s2 \in Nat /\ s3 \in Nat /\ s4 \in Nat /\ s5 \in Nat
  <2> HIDE DEF s1, s2, s3, s4, s5
  <2> QED
    BY <1>3, CountedType
<1>5. y1 \in Nat /\ y2 \in Nat /\ y3 \in Nat /\ y4 \in Nat /\ y5 \in Nat
  BY <1>1
<1>6. /\ s1 + y1 = c["consumed"] - 0 /\ s2 + y2 = c["old"] - 0 /\ s3 + y3 = c["superseded"] - 0
      /\ s4 + y4 = c["nonfinite"] + c["skew_excess"] - 0
      /\ s5 + y5 = c["received"] + c["malformed"] + e - 0
  <2>1. /\ c["consumed"] \in Nat /\ c["old"] \in Nat /\ c["superseded"] \in Nat
        /\ c["nonfinite"] \in Nat /\ c["skew_excess"] \in Nat /\ c["received"] \in Nat
        /\ c["malformed"] \in Nat
    BY BookType
  <2> DEFINE b1 == c["consumed"] b2 == c["old"] b3 == c["superseded"] b4 == c["nonfinite"]
             b5 == c["skew_excess"] b6 == c["received"] b7 == c["malformed"]
  <2>2. /\ s1 = b1 - y1 /\ s2 = b2 - y2 /\ s3 = b3 - y3 /\ s4 = b4 + b5 - y4 /\ s5 = b6 + b7 + e - y5
        /\ b1 \in Nat /\ b2 \in Nat /\ b3 \in Nat /\ b4 \in Nat /\ b5 \in Nat /\ b6 \in Nat /\ b7 \in Nat
    BY <2>1
  <2> HIDE DEF s1, s2, s3, s4, s5, y1, y2, y3, y4, y5, b1, b2, b3, b4, b5, b6, b7
  <2>3. /\ s1 + y1 = b1 - 0 /\ s2 + y2 = b2 - 0 /\ s3 + y3 = b3 - 0
        /\ s4 + y4 = b4 + b5 - 0 /\ s5 + y5 = b6 + b7 + e - 0
    BY <1>5, <2>2
  <2> QED
    BY <2>3 DEF b1, b2, b3, b4, b5, b6, b7
<1>7. /\ Passed(v, FreshRows, s1 + y1) /\ Totals(v, OldOf, s2 + y2) /\ Totals(v, SupersededOf, s3 + y3)
      /\ Totals(v, OtherOf, s4 + y4) /\ Totals(v, RxOf, s5 + y5)
  <2>1. /\ OldOf[x] = y2 /\ SupersededOf[x] = y3 /\ OtherOf[x] = y4 /\ RxOf[x] = y5
        /\ (IF x \in FreshRows THEN 1 ELSE 0) = y1
    BY <1>1, <1>2
  <2> HIDE DEF s1, s2, s3, s4, s5, y1, y2, y3, y4, y5
  <2>2. Passed(v, FreshRows, s1 + y1)
    BY <1>3, <1>4, <2>1, PassedNext
  <2>3. Totals(v, OldOf, s2 + y2)
    BY <1>3, <1>4, <1>5, <2>1, TotalsNext
  <2>4. Totals(v, SupersededOf, s3 + y3)
    BY <1>3, <1>4, <1>5, <2>1, TotalsNext
  <2>5. Totals(v, OtherOf, s4 + y4)
    BY <1>3, <1>4, <1>5, <2>1, TotalsNext
  <2>6. Totals(v, RxOf, s5 + y5)
    BY <1>3, <1>4, <1>5, <2>1, TotalsNext
  <2> QED
    BY <2>2, <2>3, <2>4, <2>5, <2>6
<1>8. /\ NoCharge.consumed = 0 /\ NoCharge.old = 0 /\ NoCharge.superseded = 0 /\ NoCharge.other = 0
      /\ NoCharge.rx = 0
  BY DEF NoCharge
<1> HIDE DEF s1, s2, s3, s4, s5, y1, y2, y3, y4, y5, v
<1>9. Inputs(c, NoCharge, e, v)
  BY <1>6, <1>7, <1>8 DEF Inputs
<1> QED
  BY <1>9 DEF v

\* The held sample and its age follow from the record and the one before.
HeldBefore(rows, n) == IF n = 1 THEN -1 ELSE rows[n - 1].sensor_tick
Follows(rows, n) ==
    /\ IF rows[n].fresh THEN rows[n].sensor_tick \in HeldBefore(rows, n) + 1 .. rows[n].tick
       ELSE rows[n].sensor_tick = HeldBefore(rows, n)
    /\ rows[n].staleness = IF rows[n].sensor_tick = -1 THEN n ELSE rows[n].tick - rows[n].sensor_tick
Continuous(rows) == \A n \in DOMAIN rows : Follows(rows, n)

\* They are then the ones that latency.py derives from the whole recording.
LEMMA HistoryFollows ==
  ASSUME NEW rows \in Seq(ControlType), Continuous(rows)
  PROVE  HistoryMatches(rows)
<1> DEFINE N == Len(rows)
           Value(f, n) == IF n = 0 THEN -1 ELSE IF rows[n].fresh THEN rows[n].sensor_tick ELSE f[n - 1]
           Solves(f) == f = [n \in 0 .. N |-> Value(f, n)]
           M == CHOOSE f : Solves(f)
           Expected(n) == IF n = 0 THEN -1 ELSE rows[n].sensor_tick
           h == [n \in 0 .. N |-> Expected(n)]
<1>0. N \in Nat /\ DOMAIN rows = 1 .. N
  OBVIOUS
<1>1. ASSUME NEW n \in 0 .. N PROVE h[n] = Value(h, n)
  <2>1. CASE n = 0
    BY <2>1
  <2>2. CASE n # 0 /\ rows[n].fresh
    BY <2>2
  <2>3. CASE n # 0 /\ ~rows[n].fresh
    <3>1. n \in DOMAIN rows /\ n - 1 \in 0 .. N
      BY <1>0, <2>3
    <3>2. rows[n].sensor_tick = HeldBefore(rows, n)
      BY <2>3, <3>1 DEF Continuous, Follows
    <3>3. HeldBefore(rows, n) = Expected(n - 1)
      BY <1>0, <2>3 DEF HeldBefore
    <3> QED
      BY <2>3, <3>1, <3>2, <3>3
  <2> QED
    BY <2>1, <2>2, <2>3
<1>2. Solves(h)
  BY <1>1
<1>3. Solves(M)
  <2> HIDE DEF Solves, h
  <2> QED
    BY <1>2
<1>4. \A n \in 0 .. N : M[n] = Value(M, n)
  BY <1>3
<1>5. \A n \in 0 .. N : M[n] = Expected(n)
  <2> DEFINE S == {n \in 0 .. N : M[n] = Expected(n)}
  <2> HIDE DEF M
  <2>1. 0 \in S
    BY <1>0, <1>4
  <2>2. ASSUME NEW i \in 0 .. N - 1, i \in S PROVE i + 1 \in S
    <3>1. i + 1 \in 0 .. N /\ i + 1 # 0 /\ i + 1 \in DOMAIN rows /\ (i + 1) - 1 = i
      BY <1>0
    <3>2. M[i] = Expected(i)
      BY <2>2
    <3>3. HeldBefore(rows, i + 1) = Expected(i)
      BY <1>0, <3>1 DEF HeldBefore
    <3>4. M[i + 1] = IF rows[i + 1].fresh THEN rows[i + 1].sensor_tick ELSE M[i]
      BY <1>4, <3>1
    <3>5. ~rows[i + 1].fresh => rows[i + 1].sensor_tick = HeldBefore(rows, i + 1)
      BY <3>1 DEF Continuous, Follows
    <3>6. M[i + 1] = rows[i + 1].sensor_tick
      BY <3>2, <3>3, <3>4, <3>5
    <3> QED
      BY <3>1, <3>6
  <2> HIDE DEF S, N
  <2>3. 0 .. N \subseteq S
    BY <1>0, <2>1, <2>2, BoundedInduction
  <2> QED
    BY <2>3 DEF S
<1>6. HistoryMatches(rows) <=>
        \A n \in DOMAIN rows :
            /\ rows[n].fresh => rows[n].sensor_tick \in M[n - 1] + 1 .. rows[n].tick
            /\ rows[n].sensor_tick = M[n]
            /\ rows[n].staleness = IF M[n] = -1 THEN n ELSE rows[n].tick - M[n]
  BY DEF HistoryMatches
<1> HIDE DEF M
<1>7. ASSUME NEW n \in DOMAIN rows
      PROVE  /\ rows[n].fresh => rows[n].sensor_tick \in M[n - 1] + 1 .. rows[n].tick
             /\ rows[n].sensor_tick = M[n]
             /\ rows[n].staleness = IF M[n] = -1 THEN n ELSE rows[n].tick - M[n]
  <2>1. n \in 0 .. N /\ n - 1 \in 0 .. N /\ n # 0
    BY <1>0
  <2>2. M[n] = rows[n].sensor_tick /\ M[n - 1] = Expected(n - 1)
    BY <1>5, <2>1
  <2>3. Expected(n - 1) = HeldBefore(rows, n)
    BY <1>0, <2>1 DEF HeldBefore
  <2>4. Follows(rows, n)
    BY DEF Continuous
  <2> QED
    BY <2>2, <2>3, <2>4 DEF Follows
<1> QED
  BY <1>6, <1>7
=============================================================================
