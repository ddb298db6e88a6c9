------------------------ MODULE EpisodePolicyProofs ------------------------
(***************************************************************************)
(* The episode policy for every setting of its limits, every modulus of    *)
(* the sequence numbers and every command: what a cycle does to the        *)
(* commands and to the output, and that the vehicle's policy and the       *)
(* simulator's are the same function.                                      *)
(***************************************************************************)
EXTENDS EpisodePolicy, TLAPS

CommandType ==
    [cmd_seq : 0 .. SeqMod - 1, opcode : CmdOpcodes \union {"NONE"}, effective_tick : Int]

StateType ==
    [mode : Modes, pid : Int, settle_count : 0 .. SettleTarget, pending : CommandType,
     last_accepted : CommandType, terminal : [reason : Reasons, tick : Nat],
     auto_arm : BOOLEAN]

HeldType == [tick : Int, class : Classes \union {"none"}]

InputType ==
    [tick : Nat, held : HeldType, fresh : BOOLEAN, staleness : Int, command : CommandType,
     horizon_reached : BOOLEAN, sim_reason : {"none", "horizon", "angle", "nonfinite", "other"},
     stop_reason : Reasons]

\* A pending command is a real one, the last accepted; none survives the end.
Sound(s) ==
    /\ s \in StateType
    /\ s.pending # NoCommand => s.pending.opcode \in Opcodes /\ s.pending = s.last_accepted
    /\ s.mode = "TERMINATED" => s.pending = NoCommand

\* Nothing pending is overdue.
Timely(s, t) == s.pending # NoCommand => s.pending.effective_tick >= t

-----------------------------------------------------------------------------
\* The gap of two sequence numbers is zero only when they are equal.
LEMMA GapFacts ==
  ASSUME NEW x \in 0 .. SeqMod - 1, NEW y \in 0 .. SeqMod - 1
  PROVE  /\ (x - y) % SeqMod \in 0 .. SeqMod - 1
         /\ (x - y) % SeqMod = 0 <=> x = y
<1>1. SeqMod \in Nat /\ SeqMod > 0
  BY EpisodeAssumption
<1>2. (x - y) % SeqMod \in 0 .. SeqMod - 1
  BY <1>1
<1>3. (x - y) % SeqMod = IF x >= y THEN x - y ELSE x - y + SeqMod
  BY <1>1
<1>4. (x - y) % SeqMod = 0 <=> x = y
  BY <1>1, <1>3
<1> QED
  BY <1>2, <1>4

\* The absent command, result and observation have their types.
LEMMA AbsentFacts ==
  /\ NoCommand \in CommandType /\ NoCommand.opcode \notin Opcodes
  /\ NoTerminal \in [reason : Reasons, tick : Nat]
  /\ NoHeld \in HeldType /\ NoHeld.tick = NoTick /\ NoTick = -1
<1>1. SeqMod \in Nat /\ SeqMod > 0
  BY EpisodeAssumption
<1> QED
  BY <1>1 DEF NoCommand, CommandType, Opcodes, NoTerminal, Reasons, NoHeld, HeldType, NoTick

\* A command the prefix lets through has an opcode and a sequence number of its own.
LEMMA PrefixFacts ==
  ASSUME NEW c \in CommandType, NEW last \in CommandType
  PROVE  /\ prefix(c, last) \in {"none", "REJECTED_OPCODE", "DUPLICATE",
                                 "REJECTED_IDENTITY", "REJECTED_STALE"}
         /\ prefix(c, last) = "none" =>
              c.opcode \in Opcodes /\ (last # NoCommand => c.cmd_seq # last.cmd_seq)
<1>1. c.cmd_seq \in 0 .. SeqMod - 1 /\ last.cmd_seq \in 0 .. SeqMod - 1
  BY DEF CommandType
<1>2. (c.cmd_seq - last.cmd_seq) % SeqMod = 0 <=> c.cmd_seq = last.cmd_seq
  BY <1>1, GapFacts
<1> DEFINE gap == (c.cmd_seq - last.cmd_seq) % SeqMod
<1>3. prefix(c, last) =
        IF c.opcode \notin Opcodes THEN "REJECTED_OPCODE"
        ELSE IF last = NoCommand THEN "none"
        ELSE IF gap = 0 THEN IF c = last THEN "DUPLICATE" ELSE "REJECTED_IDENTITY"
        ELSE IF gap >= SeqMod \div 2 THEN "REJECTED_STALE" ELSE "none"
  BY DEF prefix
<1> HIDE DEF gap
<1>4. prefix(c, last) \in {"none", "REJECTED_OPCODE", "DUPLICATE",
                           "REJECTED_IDENTITY", "REJECTED_STALE"}
  BY <1>3
<1>5. prefix(c, last) = "none" => c.opcode \in Opcodes /\ (last # NoCommand => gap # 0)
  BY <1>3
<1> QED
  BY <1>2, <1>4, <1>5 DEF gap

-----------------------------------------------------------------------------
Final == {"APPLIED", "APPLIED_LATE", "REJECTED_STATE", "PREEMPTED"}

\* What two runs of acknowledgements settle and queue, they do together.
LEMMA AckConcat ==
  ASSUME NEW A, NEW s \in Seq(A), NEW t \in Seq(A)
  PROVE  /\ Settled(s \o t) = Settled(s) \union Settled(t)
         /\ Queued(s \o t) = Queued(s) \union Queued(t)
<1>1. /\ DOMAIN (s \o t) = 1 .. Len(s) + Len(t) /\ DOMAIN s = 1 .. Len(s)
      /\ DOMAIN t = 1 .. Len(t) /\ Len(s) \in Nat /\ Len(t) \in Nat
  OBVIOUS
<1>2. \A i \in DOMAIN s : i \in DOMAIN (s \o t) /\ (s \o t)[i] = s[i]
  BY <1>1
<1>3. \A i \in DOMAIN t : i + Len(s) \in DOMAIN (s \o t) /\ (s \o t)[i + Len(s)] = t[i]
  BY <1>1
<1>4. \A i \in DOMAIN (s \o t) : \/ i \in DOMAIN s /\ (s \o t)[i] = s[i]
                                 \/ i - Len(s) \in DOMAIN t /\ (s \o t)[i] = t[i - Len(s)]
  BY <1>1
<1> DEFINE u == s \o t
<1> HIDE DEF u
<1>5. /\ Settled(u) \subseteq Settled(s) \union Settled(t)
      /\ Queued(u) \subseteq Queued(s) \union Queued(t)
  BY <1>4 DEF Settled, Queued, u
<1>6. Settled(s) \subseteq Settled(u) /\ Queued(s) \subseteq Queued(u)
  BY <1>2 DEF Settled, Queued, u
<1>7. Settled(t) \subseteq Settled(u) /\ Queued(t) \subseteq Queued(u)
  BY <1>3 DEF Settled, Queued, u
<1> QED
  BY <1>5, <1>6, <1>7 DEF u

\* At most one acknowledgement.
AtMostOne(s) == s = <<>> \/ \E x : s = <<x>>

\* At most one acknowledgement after at most one other.
LEMMA AckPair ==
  ASSUME NEW s, NEW t, AtMostOne(s), AtMostOne(t)
  PROVE  /\ Settled(s \o t) = Settled(s) \union Settled(t)
         /\ Queued(s \o t) = Queued(s) \union Queued(t)
<1>1. PICK x : s = <<>> \/ s = <<x>>
  BY DEF AtMostOne
<1>2. PICK y : t = <<>> \/ t = <<y>>
  BY DEF AtMostOne
<1> DEFINE A == {x, y}
<1>3. <<x>> \in Seq(A) /\ <<y>> \in Seq(A) /\ <<>> \in Seq(A)
  OBVIOUS
<1> HIDE DEF A
<1>4. s \in Seq(A) /\ t \in Seq(A)
  BY <1>1, <1>2, <1>3
<1> QED
  BY <1>4, AckConcat

\* What no acknowledgement, and one, settles and queues.
LEMMA AckOne ==
  /\ Settled(<<>>) = {} /\ Queued(<<>>) = {}
  /\ \A a : /\ Settled(<<a>>) = IF a.status \in Final THEN {a.cmd_seq} ELSE {}
            /\ Queued(<<a>>) = IF a.status = "QUEUED" THEN {a.cmd_seq} ELSE {}
  BY DEF Settled, Queued, Final

\* An acknowledgement names its command and its status.
LEMMA AckFacts ==
  \A c, status, t, mode, reason : /\ Ack(c, status, t, mode, reason).cmd_seq = c.cmd_seq
                                  /\ Ack(c, status, t, mode, reason).status = status
  BY DEF Ack

-----------------------------------------------------------------------------
\* What a command leaves alone; the episode never goes back to the ground.
Steady(s, r) ==
    /\ r \in StateType /\ r.pid = s.pid /\ r.settle_count = s.settle_count
    /\ r.auto_arm = s.auto_arm
    /\ r.mode \in {"INIT", "ARMED"} => s.mode \in {"INIT", "ARMED"}
    /\ r.mode = "TERMINATED" <=> r.terminal # NoTerminal

Ongoing(s) == s \in StateType /\ s.mode # "TERMINATED" /\ s.terminal = NoTerminal

\* A command applied or refused changes the mode and the result only.
LEMMA ApplyFacts ==
  ASSUME NEW s, Ongoing(s), NEW c, NEW t \in Nat
  PROVE  LET r == apply(s, c, t) IN
         /\ Steady(s, r.state) /\ r.state.pending = s.pending
         /\ r.state.last_accepted = s.last_accepted
         /\ r.ack.cmd_seq = c.cmd_seq
         /\ r.ack.status \in {"APPLIED", "APPLIED_LATE", "REJECTED_STATE"}
<1> DEFINE m == Applied(s.mode, c.opcode)
           res == IF m = "TERMINATED" THEN [reason |-> "GROUND_ABORT", tick |-> t] ELSE s.terminal
           b == [s EXCEPT !.mode = m, !.terminal = res]
           why == IF m = "TERMINATED" THEN "GROUND_ABORT" ELSE "NONE"
           how == IF c.effective_tick = t THEN "APPLIED" ELSE "APPLIED_LATE"
           r == apply(s, c, t)
<1>1. s \in StateType /\ s.mode \in Modes \ {"TERMINATED"} /\ s.terminal = NoTerminal
  BY DEF Ongoing, StateType
<1>2. m \in {"none", "ARMED", "FLYING", "TERMINATED"} /\ (m = "ARMED" => s.mode = "INIT")
  BY DEF Applied
<1>3. r = IF m = "none"
          THEN [state |-> s, ack |-> Ack(c, "REJECTED_STATE", 0, s.mode, "NONE")]
          ELSE [state |-> b, ack |-> Ack(c, how, t, m, why)]
  BY DEF apply
<1>4. /\ res \in [reason : Reasons, tick : Nat]
      /\ (m = "TERMINATED" <=> res # NoTerminal)
  BY <1>1, AbsentFacts DEF Reasons, NoTerminal
<1> HIDE DEF m, res, r
<1>5. CASE m = "none"
  <2>1. r.state = s /\ r.ack = Ack(c, "REJECTED_STATE", 0, s.mode, "NONE")
    BY <1>3, <1>5
  <2> QED
    BY <1>1, <2>1, AckFacts DEF Steady, r
<1>6. CASE m # "none"
  <2>1. r.state = b /\ r.ack = Ack(c, how, t, m, why)
    BY <1>3, <1>6
  <2>2. m \in Modes
    BY <1>2, <1>6 DEF Modes
  <2>3. b \in StateType
    BY <1>1, <1>4, <2>2 DEF StateType
  <2>4. /\ b.pid = s.pid /\ b.settle_count = s.settle_count /\ b.auto_arm = s.auto_arm
        /\ b.mode = m /\ b.terminal = res /\ b.pending = s.pending
        /\ b.last_accepted = s.last_accepted
    BY <1>1 DEF StateType
  <2> HIDE DEF b
  <2>5. Steady(s, b)
    BY <1>2, <1>4, <1>6, <2>3, <2>4 DEF Steady
  <2> QED
    BY <2>1, <2>4, <2>5, AckFacts DEF r
<1> QED
  BY <1>5, <1>6

\* The sequence numbers that wait for their settling acknowledgement.
Waiting(s) == IF s.pending = NoCommand THEN {} ELSE {s.pending.cmd_seq}

\* What a cycle may do with the commands: every one acknowledged is accounted
\* for, nothing overdue is left and only an ABORT displaces.
Obeys(n, r, acks, t) ==
    /\ Waiting(r) = (Waiting(n) \ Settled(acks)) \union Queued(acks)
    /\ r.pending # NoCommand => r.pending.opcode \in Opcodes /\ r.pending = r.last_accepted
    /\ r.mode = "TERMINATED" => r.pending = NoCommand
    /\ Timely(r, t + 1)
    /\ n.pending # NoCommand /\ r.pending # n.pending =>
         \/ r.mode = "TERMINATED" \/ n.pending.effective_tick <= t
         \/ n.pending.opcode # "ABORT" /\ r.last_accepted.opcode = "ABORT"

\* The commands of a cycle that does not end the episode by itself.
LEMMA CommandFacts ==
  ASSUME NEW n, Ongoing(n), Sound(n), NEW in \in InputType, Timely(n, in.tick)
  PROVE  LET r == ApplyDue(Arrive(n, in), in) IN
         Steady(n, r.state) /\ Obeys(n, r.state, r.acks, in.tick)
<1> DEFINE c == in.command
           t == in.tick
           a == Arrive(n, in)
           r == ApplyDue(a, in)
           refused == prefix(c, n.last_accepted)
           status == IF refused = "none" /\ n.pending # NoCommand /\ ~Preempts(c, n.pending)
                     THEN "REJECTED_PENDING" ELSE refused
           displaced == IF n.pending = NoCommand THEN <<>>
                        ELSE <<Ack(n.pending, "PREEMPTED", 0, n.mode, "NONE")>>
           accepted == [n EXCEPT !.pending = NoCommand, !.last_accepted = c]
           now == apply(accepted, c, t)
<1>1. /\ n \in StateType /\ n.pending \in CommandType /\ n.last_accepted \in CommandType
      /\ n.mode # "TERMINATED" /\ n.terminal = NoTerminal
      /\ n.pending.effective_tick \in Int
  BY DEF Ongoing, StateType, CommandType
<1>2. c \in CommandType /\ t \in Nat /\ c.effective_tick \in Int
  BY DEF InputType, CommandType
<1>3. /\ refused \in {"none", "REJECTED_OPCODE", "DUPLICATE", "REJECTED_IDENTITY", "REJECTED_STALE"}
      /\ refused = "none" =>
           c.opcode \in Opcodes /\ (n.last_accepted # NoCommand => c.cmd_seq # n.last_accepted.cmd_seq)
  BY <1>1, <1>2, PrefixFacts
<1>4. a = IF c = NoCommand
          THEN [state |-> n, arrival |-> <<>>, pending |-> <<>>]
          ELSE IF status # "none"
          THEN [state |-> n, pending |-> <<>>,
                arrival |-> <<Ack(c, status, 0, n.mode, "NONE")>>]
          ELSE IF c.effective_tick > t
          THEN [state |-> [accepted EXCEPT !.pending = c], pending |-> displaced,
                arrival |-> <<Ack(c, "QUEUED", 0, n.mode, "NONE")>>]
          ELSE [state |-> now.state, arrival |-> <<now.ack>>, pending |-> displaced]
  BY DEF Arrive
<1>5. r = LET next == a.state
              due == apply([next EXCEPT !.pending = NoCommand], next.pending, t)
          IN  IF next.pending # NoCommand /\ next.pending.effective_tick <= t
              THEN [state |-> due.state, acks |-> a.arrival \o <<due.ack>>]
              ELSE [state |-> next, acks |-> a.arrival \o a.pending]
  BY DEF ApplyDue
<1> HIDE DEF a, r, refused
<1>6. CASE c = NoCommand \/ status # "none"
  <2>1. a.state = n /\ a.pending = <<>>
    BY <1>4, <1>6
  <2> DEFINE k == Ack(c, status, 0, n.mode, "NONE")
  <2>2. a.arrival = <<>> \/ (a.arrival = <<k>> /\ status # "none")
    BY <1>4, <1>6
  <2>3. Settled(a.arrival) = {} /\ Queued(a.arrival) = {} /\ a.arrival \in {<<>>, <<k>>}
    <3>1. k.status = status
      BY AckFacts
    <3>2. status # "none" => status \notin Final /\ status # "QUEUED"
      BY <1>3 DEF Final
    <3> HIDE DEF k, status
    <3> QED
      BY <2>2, <3>1, <3>2, AckOne
  <2> HIDE DEF k
  <2>4. CASE n.pending # NoCommand /\ n.pending.effective_tick <= t
    <3> DEFINE b == [n EXCEPT !.pending = NoCommand]
               due == apply(b, n.pending, t)
    <3>1. r = [state |-> due.state, acks |-> a.arrival \o <<due.ack>>]
      BY <1>5, <2>1, <2>4
    <3>2. /\ Ongoing(b) /\ b.pending = NoCommand /\ b.last_accepted = n.last_accepted
          /\ b.pid = n.pid /\ b.settle_count = n.settle_count /\ b.auto_arm = n.auto_arm
          /\ b.mode = n.mode
      BY <1>1, AbsentFacts DEF StateType, Ongoing
    <3> HIDE DEF b
    <3>3. /\ Steady(b, due.state) /\ due.state.pending = b.pending
          /\ due.state.last_accepted = b.last_accepted
          /\ due.ack.cmd_seq = n.pending.cmd_seq
          /\ due.ack.status \in {"APPLIED", "APPLIED_LATE", "REJECTED_STATE"}
      BY <1>2, <3>2, ApplyFacts
    <3> HIDE DEF due
    <3>4. r.state = due.state /\ r.acks = a.arrival \o <<due.ack>>
      BY <3>1
    <3>5. Steady(n, r.state) /\ r.state.pending = NoCommand
      BY <3>2, <3>3, <3>4 DEF Steady
    <3>6. Settled(r.acks) = {n.pending.cmd_seq} /\ Queued(r.acks) = {}
      <4>1. Settled(<<due.ack>>) = {n.pending.cmd_seq} /\ Queued(<<due.ack>>) = {}
        BY <3>3, AckOne DEF Final
      <4>2. Settled(r.acks) = Settled(a.arrival) \union Settled(<<due.ack>>)
            /\ Queued(r.acks) = Queued(a.arrival) \union Queued(<<due.ack>>)
        <5> DEFINE u == r.acks
                   v == a.arrival
                   w == <<due.ack>>
        <5>1. u = v \o w /\ AtMostOne(v) /\ AtMostOne(w)
          BY <2>2, <3>4 DEF AtMostOne
        <5> HIDE DEF u, v, w
        <5>2. Settled(u) = Settled(v) \union Settled(w)
              /\ Queued(u) = Queued(v) \union Queued(w)
          BY <5>1, AckPair
        <5> QED
          BY <5>2 DEF u, v, w
      <4> QED
        BY <2>3, <4>1, <4>2
    <3>7. Obeys(n, r.state, r.acks, t)
      BY <2>4, <3>5, <3>6 DEF Obeys, Waiting, Timely
    <3> QED
      BY <3>5, <3>7 DEF r, a
  <2>5. CASE ~(n.pending # NoCommand /\ n.pending.effective_tick <= t)
    <3>1. r.state = n /\ r.acks = a.arrival \o <<>>
      BY <1>5, <2>1, <2>5
    <3>2. Settled(r.acks) = {} /\ Queued(r.acks) = {}
      <4>1. a.arrival \o <<>> = a.arrival
        BY <2>3
      <4> QED
        BY <2>3, <3>1, <4>1
    <3>3. Steady(n, r.state)
      BY <1>1, <3>1 DEF Steady
    <3>4. Obeys(n, r.state, r.acks, t)
      BY <1>1, <1>2, <2>5, <3>1, <3>2 DEF Obeys, Waiting, Timely, Sound
    <3> QED
      BY <3>3, <3>4 DEF r, a
  <2> QED
    BY <2>4, <2>5
<1>7. ASSUME c # NoCommand, status = "none"
      PROVE  /\ c.opcode \in Opcodes /\ c \in CommandType
             /\ n.pending # NoCommand =>
                  /\ c.cmd_seq # n.pending.cmd_seq
                  /\ n.pending.opcode # "ABORT" /\ c.opcode = "ABORT"
             /\ Settled(displaced) = Waiting(n) /\ Queued(displaced) = {}
             /\ \/ displaced = <<>>
                \/ displaced = <<Ack(n.pending, "PREEMPTED", 0, n.mode, "NONE")>>
             /\ Ongoing(accepted) /\ accepted.pending = NoCommand /\ accepted.last_accepted = c
             /\ accepted.pid = n.pid /\ accepted.settle_count = n.settle_count
             /\ accepted.auto_arm = n.auto_arm /\ accepted.mode = n.mode
  <2>1. refused = "none" /\ (n.pending # NoCommand => Preempts(c, n.pending))
    BY <1>3, <1>7
  <2>2. n.pending # NoCommand => n.last_accepted = n.pending
    BY DEF Sound
  <2>3. Settled(displaced) = Waiting(n) /\ Queued(displaced) = {}
    <3> DEFINE k == Ack(n.pending, "PREEMPTED", 0, n.mode, "NONE")
    <3>1. k.cmd_seq = n.pending.cmd_seq /\ k.status = "PREEMPTED"
      BY AckFacts
    <3> HIDE DEF k
    <3>2. Settled(<<k>>) = {n.pending.cmd_seq} /\ Queued(<<k>>) = {}
      BY <3>1, AckOne DEF Final
    <3> QED
      BY <3>2, AckOne DEF Waiting, k
  <2>4. /\ Ongoing(accepted) /\ accepted.pending = NoCommand /\ accepted.last_accepted = c
        /\ accepted.pid = n.pid /\ accepted.settle_count = n.settle_count
        /\ accepted.auto_arm = n.auto_arm /\ accepted.mode = n.mode
    BY <1>1, <1>2, AbsentFacts DEF StateType, Ongoing
  <2>5. displaced = <<>> \/ displaced = <<Ack(n.pending, "PREEMPTED", 0, n.mode, "NONE")>>
    OBVIOUS
  <2> QED
    BY <1>2, <1>3, <2>1, <2>2, <2>3, <2>4, <2>5 DEF Preempts
<1>8. CASE c # NoCommand /\ status = "none" /\ c.effective_tick > t
  <2> DEFINE b == [accepted EXCEPT !.pending = c]
             k == Ack(c, "QUEUED", 0, n.mode, "NONE")
             p == Ack(n.pending, "PREEMPTED", 0, n.mode, "NONE")
  <2>1. a.state = b /\ a.arrival = <<k>> /\ a.pending = displaced
    BY <1>4, <1>8
  <2>2. /\ Settled(displaced) = Waiting(n) /\ Queued(displaced) = {}
        /\ displaced = <<>> \/ displaced = <<p>>
    BY <1>7, <1>8
  <2> HIDE DEF displaced, accepted
  <2>3. /\ b \in StateType /\ b.pending = c /\ b.last_accepted = c /\ b.pid = n.pid
        /\ b.settle_count = n.settle_count /\ b.auto_arm = n.auto_arm /\ b.mode = n.mode
        /\ b.terminal = NoTerminal
    BY <1>2, <1>7, <1>8 DEF Ongoing, StateType
  <2> HIDE DEF b
  <2>4. r.state = b /\ r.acks = <<k>> \o displaced
    BY <1>2, <1>5, <1>8, <2>1, <2>3
  <2>5. k.cmd_seq = c.cmd_seq /\ k.status = "QUEUED"
    BY AckFacts
  <2> HIDE DEF k, p
  <2>6. Settled(<<k>>) = {} /\ Queued(<<k>>) = {c.cmd_seq}
    BY <2>5, AckOne DEF Final
  <2>7. Settled(r.acks) = Waiting(n) /\ Queued(r.acks) = {c.cmd_seq}
    <3>1. /\ Settled(r.acks) = Settled(<<k>>) \union Settled(displaced)
          /\ Queued(r.acks) = Queued(<<k>>) \union Queued(displaced)
      <4> DEFINE u == r.acks
                 v == <<k>>
      <4>1. u = v \o displaced /\ AtMostOne(v) /\ AtMostOne(displaced)
        BY <2>2, <2>4 DEF AtMostOne
      <4> HIDE DEF u, v
      <4>2. Settled(u) = Settled(v) \union Settled(displaced)
            /\ Queued(u) = Queued(v) \union Queued(displaced)
        BY <4>1, AckPair
      <4> QED
        BY <4>2 DEF u, v
    <3> QED
      BY <2>2, <2>6, <3>1
  <2>8. Steady(n, r.state)
    BY <1>1, <2>3, <2>4 DEF Steady
  <2>9. Obeys(n, r.state, r.acks, t)
    <3>1. Waiting(r.state) = (Waiting(n) \ Settled(r.acks)) \union Queued(r.acks)
      BY <1>8, <2>3, <2>4, <2>7 DEF Waiting
    <3>2. Timely(r.state, t + 1)
      BY <1>2, <1>8, <2>3, <2>4 DEF Timely
    <3> QED
      BY <1>1, <1>7, <1>8, <2>3, <2>4, <3>1, <3>2 DEF Obeys
  <2> QED
    BY <2>8, <2>9 DEF r, a
<1>9. CASE c # NoCommand /\ status = "none" /\ ~(c.effective_tick > t)
  <2> DEFINE p == Ack(n.pending, "PREEMPTED", 0, n.mode, "NONE")
  <2>1. a.state = now.state /\ a.arrival = <<now.ack>> /\ a.pending = displaced
    BY <1>4, <1>9
  <2>2. /\ Settled(displaced) = Waiting(n) /\ Queued(displaced) = {}
        /\ displaced = <<>> \/ displaced = <<p>>
    BY <1>7, <1>9
  <2>3. /\ Ongoing(accepted) /\ accepted.pending = NoCommand /\ accepted.last_accepted = c
        /\ accepted.pid = n.pid /\ accepted.settle_count = n.settle_count
        /\ accepted.auto_arm = n.auto_arm /\ accepted.mode = n.mode
    BY <1>7, <1>9
  <2> HIDE DEF displaced, accepted
  <2>4. /\ Steady(accepted, now.state) /\ now.state.pending = NoCommand
        /\ now.state.last_accepted = c
        /\ now.ack.status \in {"APPLIED", "APPLIED_LATE", "REJECTED_STATE"}
        /\ now.ack.cmd_seq = c.cmd_seq
    BY <1>2, <2>3, ApplyFacts
  <2> HIDE DEF now
  <2>5. r.state = now.state /\ r.acks = <<now.ack>> \o displaced
    BY <1>5, <2>1, <2>4
  <2>6. Settled(<<now.ack>>) = {c.cmd_seq} /\ Queued(<<now.ack>>) = {}
    BY <2>4, AckOne DEF Final
  <2> HIDE DEF p
  <2>7. Settled(r.acks) = Waiting(n) \union {c.cmd_seq} /\ Queued(r.acks) = {}
    <3>1. /\ Settled(r.acks) = Settled(<<now.ack>>) \union Settled(displaced)
          /\ Queued(r.acks) = Queued(<<now.ack>>) \union Queued(displaced)
      <4> DEFINE u == r.acks
                 v == <<now.ack>>
      <4>1. u = v \o displaced /\ AtMostOne(v) /\ AtMostOne(displaced)
        BY <2>2, <2>5 DEF AtMostOne
      <4> HIDE DEF u, v
      <4>2. Settled(u) = Settled(v) \union Settled(displaced)
            /\ Queued(u) = Queued(v) \union Queued(displaced)
        BY <4>1, AckPair
      <4> QED
        BY <4>2 DEF u, v
    <3> QED
      BY <2>2, <2>6, <3>1
  <2>8. Steady(n, r.state)
    BY <2>3, <2>4, <2>5 DEF Steady
  <2>9. Obeys(n, r.state, r.acks, t)
    <3>1. Waiting(r.state) = {}
      BY <2>4, <2>5 DEF Waiting
    <3>2. Timely(r.state, t + 1)
      BY <2>4, <2>5 DEF Timely
    <3> QED
      BY <1>1, <1>7, <1>9, <2>4, <2>5, <2>7, <3>1, <3>2 DEF Obeys
  <2> QED
    BY <2>8, <2>9 DEF r, a
<1> QED
  BY <1>6, <1>8, <1>9

-----------------------------------------------------------------------------
\* What a cycle does with the output: it stems from the observation just
\* stepped on, or repeats the last one while the observation is young enough.
Steers(n, r, out, in) ==
    /\ r.mode \in {"INIT", "ARMED"} => n.mode \in {"INIT", "ARMED"}
    /\ r.mode = "FLYING" /\ in.fresh => r.pid = in.held.tick
    /\ r.mode # "TERMINATED" /\ ~(r.mode = "FLYING" /\ in.fresh) => r.pid = n.pid
    /\ out # NoTick =>
         /\ r.mode = "FLYING" /\ out = r.pid
         /\ ~in.fresh => in.staleness <= CoastLimit

\* Flying, or not, leaves the commands alone.
LEMMA FlyFacts ==
  ASSUME NEW s \in StateType, NEW in \in InputType,
         s.mode = "TERMINATED" <=> s.terminal # NoTerminal
  PROVE  LET r == Fly(s, in) IN
         /\ r.state \in StateType /\ r.state.pending = s.pending
         /\ r.state.last_accepted = s.last_accepted
         /\ r.state.mode = "TERMINATED" <=> s.mode = "TERMINATED"
         /\ Steers(s, r.state, r.delta, in)
<1> DEFINE m == IF s.auto_arm /\ in.fresh /\ s.mode \in {"INIT", "ARMED"} THEN "FLYING" ELSE s.mode
           f == [s EXCEPT !.mode = m]
           g == [f EXCEPT !.pid = in.held.tick]
           r == Fly(s, in)
<1>1. s.mode \in Modes /\ in.held.tick \in Int /\ in.fresh \in BOOLEAN
  BY DEF StateType, InputType, HeldType
<1>2. /\ m \in Modes /\ (m = "TERMINATED" <=> s.mode = "TERMINATED")
      /\ m \in {"INIT", "ARMED"} => s.mode \in {"INIT", "ARMED"}
  BY <1>1 DEF Modes
<1>3. r = IF s.terminal # NoTerminal THEN [state |-> s, delta |-> NoTick]
          ELSE IF m = "FLYING" /\ in.fresh THEN [state |-> g, delta |-> in.held.tick]
          ELSE IF m = "FLYING" /\ MayCoast(in.staleness) THEN [state |-> f, delta |-> s.pid]
          ELSE [state |-> f, delta |-> NoTick]
  BY DEF Fly
<1> HIDE DEF m, r
<1>4. /\ f \in StateType /\ f.mode = m /\ f.pid = s.pid /\ f.pending = s.pending
      /\ f.last_accepted = s.last_accepted
  BY <1>2 DEF StateType
<1> HIDE DEF f
<1>5. /\ g \in StateType /\ g.mode = m /\ g.pid = in.held.tick /\ g.pending = s.pending
      /\ g.last_accepted = s.last_accepted
  BY <1>1, <1>4 DEF StateType
<1> HIDE DEF g
<1>6. CASE s.terminal # NoTerminal
  <2>1. r.state = s /\ r.delta = NoTick
    BY <1>3, <1>6
  <2> QED
    BY <1>6, <2>1 DEF Steers, r
<1>7. CASE s.terminal = NoTerminal /\ m = "FLYING" /\ in.fresh
  <2>1. r.state = g /\ r.delta = in.held.tick
    BY <1>3, <1>7
  <2> QED
    BY <1>2, <1>5, <1>7, <2>1 DEF Steers, r
<1>8. CASE s.terminal = NoTerminal /\ ~(m = "FLYING" /\ in.fresh)
  <2>1. r.state = f /\ (r.delta = NoTick \/ (m = "FLYING" /\ r.delta = s.pid /\ MayCoast(in.staleness)))
    BY <1>3, <1>8
  <2> QED
    BY <1>1, <1>2, <1>4, <1>8, <2>1 DEF Steers, MayCoast, r
<1> QED
  BY <1>6, <1>7, <1>8

\* The end of the episode settles what waits and leaves nothing waiting.
LEMMA TerminateFacts ==
  ASSUME NEW n, n \in StateType, Sound(n), NEW in \in InputType, NEW why \in Reasons
  PROVE  LET r == Terminate(n, in, why) IN
         /\ r.state \in StateType /\ r.state.mode = "TERMINATED" /\ r.delta = NoTick
         /\ Obeys(n, r.state, r.acks, in.tick)
<1> DEFINE c == in.command
           refused == prefix(c, n.last_accepted)
           status == IF refused = "none" THEN "REJECTED_STATE" ELSE refused
           x == Ack(c, status, 0, "TERMINATED", why)
           y == Ack(n.pending, "REJECTED_STATE", 0, "TERMINATED", why)
           first == IF c = NoCommand THEN <<>> ELSE <<x>>
           second == IF n.pending = NoCommand THEN <<>> ELSE <<y>>
           end == [reason |-> why, tick |-> in.tick]
           b == [n EXCEPT !.mode = "TERMINATED", !.pending = NoCommand, !.terminal = end]
           r == Terminate(n, in, why)
<1>1. /\ c \in CommandType /\ n.last_accepted \in CommandType /\ n.pending \in CommandType
      /\ in.tick \in Nat
  BY DEF InputType, StateType
<1>2. r = [state |-> b, delta |-> NoTick, acks |-> first \o second]
  BY DEF Terminate
<1> HIDE DEF r
<1>3. status \in {"REJECTED_STATE", "REJECTED_OPCODE", "DUPLICATE", "REJECTED_IDENTITY", "REJECTED_STALE"}
  BY <1>1, PrefixFacts
<1> HIDE DEF status
<1>4. /\ x.status = status /\ x.cmd_seq = c.cmd_seq
      /\ y.status = "REJECTED_STATE" /\ y.cmd_seq = n.pending.cmd_seq
  BY AckFacts
<1> HIDE DEF x, y
<1>5. /\ Settled(second) = Waiting(n) /\ Queued(second) = {} /\ AtMostOne(second)
  <2>1. Settled(<<y>>) = {n.pending.cmd_seq} /\ Queued(<<y>>) = {}
    BY <1>4, AckOne DEF Final
  <2> QED
    BY <2>1, AckOne DEF Waiting, AtMostOne
<1>6. Queued(first) = {} /\ AtMostOne(first)
  <2>1. Queued(<<x>>) = {}
    BY <1>3, <1>4, AckOne
  <2> QED
    BY <2>1, AckOne DEF AtMostOne
<1> HIDE DEF first, second
<1>7. Settled(first \o second) = Settled(first) \union Waiting(n) /\ Queued(first \o second) = {}
  BY <1>5, <1>6, AckPair
<1>8. end \in [reason : Reasons, tick : Nat]
  BY <1>1
<1> HIDE DEF end
<1>9. b \in StateType /\ b.mode = "TERMINATED" /\ b.pending = NoCommand
  BY <1>8, AbsentFacts DEF StateType, Modes
<1> HIDE DEF b
<1>10. r.state = b /\ r.delta = NoTick /\ r.acks = first \o second
  BY <1>2
<1>11. Obeys(n, b, first \o second, in.tick)
  BY <1>7, <1>9 DEF Obeys, Waiting, Timely
<1> QED
  BY <1>9, <1>10, <1>11 DEF r

\* The settle count stays within its target.
LEMMA CountFacts ==
  ASSUME NEW n \in 0 .. SettleTarget, NEW h
  PROVE  SettleCount(n, h) \in 0 .. SettleTarget
  BY EpisodeAssumption DEF SettleCount

\* Only a young observation lets the episode go on.
LEMMA ReasonFacts ==
  ASSUME NEW in \in InputType, NEW n
  PROVE  /\ StopReason(n, in) \in Reasons
         /\ StopReason(n, in) = "NONE" => in.staleness < StaleLimit
<1>1. /\ in.stop_reason \in Reasons /\ in.staleness \in Int /\ StaleLimit \in Int
  BY EpisodeAssumption DEF InputType
<1> QED
  BY <1>1 DEF StopReason, Reasons

\* A cycle of an episode that has not ended.
LEMMA StepFacts ==
  ASSUME NEW s, Sound(s), s.mode # "TERMINATED", NEW in \in InputType, Timely(s, in.tick)
  PROVE  LET r == step(s, in) IN
         /\ r.state \in StateType /\ Obeys(s, r.state, r.acks, in.tick)
         /\ r.state.mode # "TERMINATED" => in.staleness < StaleLimit
         /\ Steers(s, r.state, r.delta, in)
<1> DEFINE count == SettleCount(s.settle_count, in.held)
           next == [s EXCEPT !.settle_count = count]
           why == StopReason(count, in)
           n == [next EXCEPT !.terminal = NoTerminal]
           d == ApplyDue(Arrive(n, in), in)
           f == Fly(d.state, in)
           e == Terminate(next, in, why)
           r == step(s, in)
<1>1. r = IF why # "NONE" THEN e
          ELSE [state |-> f.state, delta |-> f.delta, acks |-> d.acks]
  BY DEF step
<1>2. s \in StateType /\ count \in 0 .. SettleTarget /\ why \in Reasons
      /\ (why = "NONE" => in.staleness < StaleLimit)
  BY CountFacts, ReasonFacts DEF Sound, StateType
<1> HIDE DEF r, count, why, e
<1>3. /\ next \in StateType /\ next.pending = s.pending /\ next.last_accepted = s.last_accepted
      /\ next.mode = s.mode /\ next.pid = s.pid
  BY <1>2 DEF StateType
<1> HIDE DEF next
<1>4. Sound(next)
  BY <1>3 DEF Sound
<1>5. CASE why # "NONE"
  <2>1. /\ e.state \in StateType /\ e.state.mode = "TERMINATED" /\ e.delta = NoTick
        /\ Obeys(next, e.state, e.acks, in.tick)
    BY <1>2, <1>3, <1>4, TerminateFacts DEF e
  <2>2. r = e
    BY <1>1, <1>5
  <2>3. Obeys(s, e.state, e.acks, in.tick)
    BY <1>3, <2>1 DEF Obeys, Waiting
  <2>4. Steers(s, e.state, e.delta, in)
    BY <2>1 DEF Steers
  <2> QED
    BY <2>1, <2>2, <2>3, <2>4 DEF r
<1>6. CASE why = "NONE"
  <2>1. /\ n \in StateType /\ n.pending = next.pending /\ n.last_accepted = next.last_accepted
        /\ n.mode = next.mode /\ n.pid = next.pid /\ n.terminal = NoTerminal
    BY <1>3, AbsentFacts DEF StateType
  <2> HIDE DEF n
  <2>2. Ongoing(n) /\ Sound(n) /\ Timely(n, in.tick)
    BY <1>3, <1>4, <2>1 DEF Ongoing, Sound, Timely
  <2>3. Steady(n, d.state) /\ Obeys(n, d.state, d.acks, in.tick)
    BY <2>2, CommandFacts
  <2> HIDE DEF d
  <2>4. /\ f.state \in StateType /\ f.state.pending = d.state.pending
        /\ f.state.last_accepted = d.state.last_accepted
        /\ f.state.mode = "TERMINATED" <=> d.state.mode = "TERMINATED"
        /\ Steers(d.state, f.state, f.delta, in)
    BY <2>3, FlyFacts DEF Steady
  <2> HIDE DEF f
  <2>5. r.state = f.state /\ r.delta = f.delta /\ r.acks = d.acks
    BY <1>1, <1>6
  <2>6. Obeys(s, f.state, d.acks, in.tick)
    BY <1>3, <2>1, <2>3, <2>4 DEF Obeys, Waiting, Timely
  <2>7. Steers(s, f.state, f.delta, in)
    BY <1>3, <2>1, <2>3, <2>4 DEF Steers, Steady
  <2> QED
    BY <1>2, <1>6, <2>4, <2>5, <2>6, <2>7 DEF r
<1> QED
  BY <1>5, <1>6

-----------------------------------------------------------------------------
\* The inductive invariant.  Of the ledger it adds that a pending command is a
\* real one; of the output that the last step of the controller was on the held
\* observation, and that there was none before the flight.
Grounded == state.mode \in {"INIT", "ARMED"} => state.pid = NoTick
Stepped == state.mode # "TERMINATED" => state.pid \in {NoTick, held.tick}
PolicyType ==
    Sound(state) /\ tick \in Nat /\ held \in HeldType /\ held.tick < tick /\ NoTick <= held.tick
PolicyInv == PolicyType /\ CommandLedger /\ Grounded /\ Stepped

\* The inputs of a cycle: a fresh observation is newer than the held one, a
\* stale one is the held one, and the staleness is the age of either.
LEMMA InputFacts ==
  ASSUME PolicyType, NEW in \in Inputs
  PROVE  /\ in \in InputType /\ in.tick = tick /\ in.held.tick < tick + 1
         /\ NoTick <= in.held.tick
         /\ in.fresh => held.tick < in.held.tick
         /\ ~in.fresh => in.held = held
         /\ in.held.tick # NoTick => in.staleness = tick - in.held.tick
<1>1. PICK fo \in {x \in BOOLEAN \X Observations : Observed(x[1], x[2])}, c \in Commands,
           h \in BOOLEAN, sim \in {"none"} \union SimFlags, why \in {"NONE"} \union Stops :
         in = Input(fo[1], fo[2], c, h, sim, why)
  BY DEF Inputs
<1> DEFINE fresh == fo[1]
           obs == fo[2]
           age == IF obs = NoHeld THEN tick + 1 ELSE tick - obs.tick
<1>2. fresh \in BOOLEAN /\ obs \in Observations /\ Observed(fresh, obs)
  BY <1>1
<1>3. in = [tick |-> tick, held |-> obs, fresh |-> fresh, staleness |-> age, command |-> c,
            horizon_reached |-> h, sim_reason |-> sim, stop_reason |-> why]
  BY <1>1 DEF Input
<1> HIDE DEF fresh, obs
<1>4. tick \in Nat /\ held \in HeldType /\ held.tick \in Int /\ held.tick < tick /\ NoTick <= held.tick
  BY DEF PolicyType, HeldType
<1>5. obs \in HeldType /\ obs.tick \in Int
  <2>1. CASE obs = held
    BY <1>4, <2>1
  <2>2. CASE obs \in [tick : 0 .. tick, class : Classes]
    BY <1>4, <2>2 DEF HeldType
  <2> QED
    BY <1>2, <2>1, <2>2 DEF Observations
<1>6. /\ obs.tick < tick + 1 /\ NoTick <= obs.tick
      /\ fresh => held.tick < obs.tick
      /\ ~fresh => obs = held
  BY <1>2, <1>4, <1>5 DEF Observed, NoTick
<1>7. age \in Int /\ (obs.tick # NoTick => age = tick - obs.tick)
  BY <1>4, <1>5 DEF NoHeld
<1>8. c \in CommandType
  <2>1. CASE c = NoCommand
    BY <2>1, AbsentFacts
  <2>2. CASE c # NoCommand
    <3>1. PICK q \in 0 .. SeqMod - 1, o \in CmdOpcodes, l \in Leads :
            c = [cmd_seq |-> q, opcode |-> o, effective_tick |-> tick + l]
      BY <2>2 DEF Commands
    <3>2. tick + l \in Int
      BY <1>4, PolicyAssumption
    <3> QED
      BY <3>1, <3>2 DEF CommandType
  <2> QED
    BY <2>1, <2>2
<1>9. sim \in {"none", "horizon", "angle", "nonfinite", "other"} /\ why \in Reasons
  BY PolicyAssumption DEF Reasons
<1> HIDE DEF age
<1>10. in \in InputType
  BY <1>2, <1>3, <1>4, <1>5, <1>7, <1>8, <1>9 DEF InputType
<1>11. in.tick = tick /\ in.held = obs /\ in.fresh = fresh /\ in.staleness = age
  BY <1>3
<1> QED
  BY <1>6, <1>7, <1>10, <1>11

\* An episode starts on the ground, with nothing pending.
LEMMA PolicyStarts ==
  Init => PolicyInv
<1> SUFFICES ASSUME Init PROVE PolicyInv
  OBVIOUS
<1>1. 0 \in 0 .. SettleTarget /\ NoTick \in Int /\ "INIT" \in Modes
  BY EpisodeAssumption DEF NoTick, Modes
<1>2. /\ state \in StateType /\ state.pending = NoCommand /\ state.mode = "INIT"
      /\ state.pid = NoTick
  BY <1>1, AbsentFacts, PolicyAssumption DEF Init, initial, StateType
<1>3. Sound(state)
  BY <1>2 DEF Sound
<1>4. PolicyType
  BY <1>3, AbsentFacts DEF Init, PolicyType
<1>5. CommandLedger
  BY <1>2 DEF Init, CommandLedger
<1> QED
  BY <1>2, <1>4, <1>5 DEF PolicyInv, Grounded, Stepped

\* What a cycle takes from the lemmas above, in the variables.
Lawful(in) ==
    /\ state.mode = "TERMINATED" =>
         state' = state /\ delta' = NoTick /\ open' = open
    /\ state.mode # "TERMINATED" =>
         /\ state' \in StateType
         /\ open' = Waiting(state')
         /\ state'.pending # NoCommand =>
              state'.pending.opcode \in Opcodes /\ state'.pending = state'.last_accepted
         /\ state'.mode = "TERMINATED" => state'.pending = NoCommand
         /\ Timely(state', tick + 1)
         /\ state.pending # NoCommand /\ state'.pending # state.pending =>
              \/ state'.mode = "TERMINATED" \/ state.pending.effective_tick <= tick
              \/ state.pending.opcode # "ABORT" /\ state'.last_accepted.opcode = "ABORT"
         /\ Steers(state, state', delta', in)
         /\ state'.mode # "TERMINATED" => in.staleness < StaleLimit

\* Every cycle is lawful.
LEMMA CycleFacts ==
  ASSUME PolicyInv, NEW in \in Inputs, Cycle(in)
  PROVE  Lawful(in) /\ held' = in.held /\ tick' = tick + 1
<1> DEFINE r == step(state, in)
<1>1. in \in InputType /\ in.tick = tick
  BY InputFacts DEF PolicyInv
<1>2. /\ state' = r.state /\ delta' = r.delta
      /\ open' = (open \ Settled(r.acks)) \union Queued(r.acks)
      /\ held' = in.held /\ tick' = tick + 1
  BY DEF Cycle
<1>3. Sound(state) /\ Timely(state, tick) /\ open = Waiting(state)
  BY DEF PolicyInv, PolicyType, CommandLedger, Timely, Waiting
<1>4. CASE state.mode = "TERMINATED"
  <2>1. r = [state |-> state, delta |-> NoTick, acks |-> <<>>]
    BY <1>4 DEF step
  <2> HIDE DEF r
  <2>2. r.state = state /\ r.delta = NoTick /\ r.acks = <<>>
    BY <2>1
  <2>3. open' = open
    BY <1>2, <2>2, AckOne
  <2> QED
    BY <1>2, <1>4, <2>2, <2>3 DEF Lawful
<1>5. CASE state.mode # "TERMINATED"
  <2>1. /\ r.state \in StateType /\ Obeys(state, r.state, r.acks, tick)
        /\ r.state.mode # "TERMINATED" => in.staleness < StaleLimit
        /\ Steers(state, r.state, r.delta, in)
    BY <1>1, <1>3, <1>5, StepFacts
  <2> HIDE DEF r
  <2> QED
    BY <1>2, <1>3, <1>5, <2>1 DEF Lawful, Obeys
<1> QED
  BY <1>4, <1>5

\* Every step keeps the invariant.
LEMMA PolicySteps ==
  ASSUME PolicyInv, [Next]_vars
  PROVE  PolicyInv'
<1>1. CASE UNCHANGED vars
  BY <1>1 DEF vars, PolicyInv, PolicyType, CommandLedger, Grounded, Stepped
<1>2. CASE Finished
  BY <1>2 DEF Finished, vars, PolicyInv, PolicyType, CommandLedger, Grounded, Stepped
<1>3. ASSUME NEW in \in Inputs, Cycle(in) PROVE PolicyInv'
  <2>1. Lawful(in) /\ held' = in.held /\ tick' = tick + 1
    BY <1>3, CycleFacts
  <2>2. /\ in \in InputType /\ in.held.tick < tick + 1 /\ NoTick <= in.held.tick
        /\ ~in.fresh => in.held = held
        /\ in.held \in HeldType /\ in.fresh \in BOOLEAN
    BY InputFacts DEF PolicyInv, InputType
  <2>3. /\ Sound(state) /\ tick \in Nat /\ open = Waiting(state) /\ Grounded /\ Stepped
        /\ state.mode \in Modes
    BY DEF PolicyInv, PolicyType, CommandLedger, Waiting, Sound, StateType
  <2>4. Sound(state')
    BY <2>1, <2>3 DEF Lawful, Sound
  <2>5. PolicyType'
    BY <2>1, <2>2, <2>3, <2>4 DEF PolicyType
  <2>6. CommandLedger'
    <3>1. CASE state.mode = "TERMINATED"
      <4>1. state' = state /\ open' = {} /\ state.pending = NoCommand
        BY <2>1, <2>3, <3>1 DEF Lawful, Sound, Waiting
      <4> QED
        BY <4>1 DEF CommandLedger
    <3>2. CASE state.mode # "TERMINATED"
      BY <2>1, <3>2 DEF CommandLedger, Lawful, Waiting, Timely
    <3> QED
      BY <3>1, <3>2
  <2>7. Grounded' /\ Stepped'
    <3>1. CASE state.mode = "TERMINATED"
      BY <2>1, <3>1 DEF Lawful, Grounded, Stepped
    <3>2. CASE state.mode # "TERMINATED"
      <4>1. state'.mode \in Modes
        BY <2>1, <3>2 DEF Lawful, StateType
      <4>2. Steers(state, state', delta', in)
        BY <2>1, <3>2 DEF Lawful
      <4> QED
        BY <2>1, <2>2, <2>3, <3>2, <4>1, <4>2 DEF Steers, Grounded, Stepped, Modes
    <3> QED
      BY <3>1, <3>2
  <2> QED
    BY <2>5, <2>6, <2>7 DEF PolicyInv
<1> QED
  BY <1>1, <1>2, <1>3 DEF Next

\* The invariant holds in every state of every execution.
THEOREM PolicyInvariant == Spec => []PolicyInv
<1>1. Init => PolicyInv
  BY PolicyStarts
<1>2. PolicyInv /\ [Next]_vars => PolicyInv'
  BY PolicySteps
<1> QED
  BY <1>1, <1>2, PTL DEF Spec

\* Every command acknowledged QUEUED is settled by exactly one later
\* acknowledgement, whatever commands arrive, in whatever order and with
\* whatever sequence numbers; none is left overdue, none at the end.
THEOREM EveryCommandSettles == Spec => []CommandLedger
<1>1. PolicyInv => CommandLedger
  BY DEF PolicyInv
<1> QED
  BY <1>1, PolicyInvariant, PTL

\* Only an ABORT displaces a pending command, and nothing displaces a pending ABORT.
THEOREM AbortAlwaysStands == Spec => AbortStands
<1> DEFINE A == state.pending # NoCommand /\ state'.pending # state.pending =>
                  \/ state'.mode = "TERMINATED"
                  \/ state.pending.effective_tick <= tick
                  \/ state.pending.opcode # "ABORT" /\ state'.last_accepted.opcode = "ABORT"
<1>1. ASSUME PolicyInv, [Next]_vars PROVE [A]_vars
  <2>1. CASE UNCHANGED vars
    BY <2>1
  <2>2. CASE Finished
    BY <2>2 DEF Finished
  <2>3. ASSUME NEW in \in Inputs, Cycle(in) PROVE A
    <3>1. Lawful(in)
      BY <1>1, <2>3, CycleFacts
    <3>2. state.mode = "TERMINATED" => state.pending = NoCommand
      BY <1>1 DEF PolicyInv, PolicyType, Sound
    <3> QED
      BY <3>1, <3>2 DEF Lawful
  <2> QED
    BY <1>1, <2>1, <2>2, <2>3 DEF Next
<1>2. PolicyInv /\ [Next]_vars => [A]_vars
  BY <1>1
<1> HIDE DEF A
<1>3. Spec => [][A]_vars
  BY <1>2, PolicyInvariant, PTL DEF Spec
<1> QED
  BY <1>3 DEF AbortStands, A

\* A non-zero output is only requested in flight, from an observation that is
\* young enough; a repeated one is at most CoastLimit ticks old.
THEOREM OutputAlwaysRecent == Spec => OutputIsRecent
<1> DEFINE A == delta' # NoTick =>
                  /\ state'.mode = "FLYING" /\ delta' = held'.tick
                  /\ tick - delta' < StaleLimit
                  /\ held' = held => tick - delta' <= CoastLimit
<1>1. ASSUME PolicyInv, [Next]_vars PROVE [A]_vars
  <2>1. CASE UNCHANGED vars
    BY <2>1
  <2>2. CASE Finished
    BY <2>2 DEF Finished
  <2>3. ASSUME NEW in \in Inputs, Cycle(in) PROVE A
    <3>1. Lawful(in) /\ held' = in.held
      BY <1>1, <2>3, CycleFacts
    <3>2. /\ in.fresh => held.tick < in.held.tick
          /\ ~in.fresh => in.held = held
          /\ in.held.tick # NoTick => in.staleness = tick - in.held.tick
          /\ in.held.tick \in Int /\ held.tick \in Int /\ in.fresh \in BOOLEAN
      BY <1>1, <2>3, InputFacts DEF PolicyInv, PolicyType, InputType, HeldType
    <3>3. Stepped
      BY <1>1 DEF PolicyInv
    <3>4. SUFFICES ASSUME delta' # NoTick
                   PROVE  /\ state'.mode = "FLYING" /\ delta' = held'.tick
                          /\ tick - delta' < StaleLimit
                          /\ held' = held => tick - delta' <= CoastLimit
      OBVIOUS
    <3>5. state.mode # "TERMINATED"
      BY <3>1, <3>4 DEF Lawful
    <3>6. Steers(state, state', delta', in) /\ state'.mode = "FLYING" /\ delta' = state'.pid
          /\ in.staleness < StaleLimit /\ (~in.fresh => in.staleness <= CoastLimit)
      BY <3>1, <3>4, <3>5 DEF Lawful, Steers
    <3>7. delta' = in.held.tick
      BY <3>2, <3>3, <3>4, <3>5, <3>6 DEF Steers, Stepped
    <3> QED
      BY <3>1, <3>2, <3>4, <3>6, <3>7
  <2> QED
    BY <1>1, <2>1, <2>2, <2>3 DEF Next
<1>2. PolicyInv /\ [Next]_vars => [A]_vars
  BY <1>1
<1> HIDE DEF A
<1>3. Spec => [][A]_vars
  BY <1>2, PolicyInvariant, PTL DEF Spec
<1> QED
  BY <1>3 DEF OutputIsRecent, A

-----------------------------------------------------------------------------
\* The two prefixes refuse the same commands for the same reasons: comparing
\* the sequence numbers is comparing their gap with zero.
LEMMA TwinPrefix ==
  ASSUME NEW c \in CommandType, NEW last \in CommandType
  PROVE  prefix(c, last) = _prefix(c, last)
<1> DEFINE gap == (c.cmd_seq - last.cmd_seq) % SeqMod
<1>1. c.cmd_seq \in 0 .. SeqMod - 1 /\ last.cmd_seq \in 0 .. SeqMod - 1
  BY DEF CommandType
<1>2. gap \in 0 .. SeqMod - 1 /\ (gap = 0 <=> c.cmd_seq = last.cmd_seq)
  BY <1>1, GapFacts
<1>3. SeqMod \in Nat /\ SeqMod \div 2 \in Nat
  BY EpisodeAssumption
<1>4. gap # 0 => ((gap >= SeqMod \div 2) <=> ~(1 <= gap /\ gap < SeqMod \div 2))
  BY <1>2, <1>3
<1>5. c.cmd_seq = last.cmd_seq =>
        (c = last <=> c.opcode = last.opcode /\ c.effective_tick = last.effective_tick)
  BY DEF CommandType
<1>6. prefix(c, last) =
        IF c.opcode \notin Opcodes THEN "REJECTED_OPCODE"
        ELSE IF last = NoCommand THEN "none"
        ELSE IF gap = 0 THEN IF c = last THEN "DUPLICATE" ELSE "REJECTED_IDENTITY"
        ELSE IF gap >= SeqMod \div 2 THEN "REJECTED_STALE" ELSE "none"
  BY DEF prefix
<1>7. _prefix(c, last) =
        IF c.opcode \notin Opcodes THEN "REJECTED_OPCODE"
        ELSE IF last = NoCommand THEN "none"
        ELSE IF c.cmd_seq = last.cmd_seq
             THEN IF c.opcode = last.opcode /\ c.effective_tick = last.effective_tick
                  THEN "DUPLICATE" ELSE "REJECTED_IDENTITY"
        ELSE IF ~(1 <= gap /\ gap < SeqMod \div 2) THEN "REJECTED_STALE" ELSE "none"
  BY DEF _prefix, Opcodes
<1> HIDE DEF gap
<1> QED
  BY <1>2, <1>4, <1>5, <1>6, <1>7

\* The two end an episode at the same inputs for the same reason.
LEMMA TwinReason ==
  ASSUME NEW in \in InputType, NEW n
  PROVE  StopReason(n, in) = _reason(n, in)
<1>1. in.sim_reason \in {"none", "horizon", "angle", "nonfinite", "other"}
  BY DEF InputType
<1> QED
  BY <1>1 DEF StopReason, _reason

\* The two settle counts saturate at the same value.
LEMMA TwinCount ==
  ASSUME NEW n \in 0 .. SettleTarget, NEW h
  PROVE  SettleCount(n, h) = IF h.class # "settled" THEN 0
                             ELSE IF n + 1 < SettleTarget THEN n + 1 ELSE SettleTarget
  BY EpisodeAssumption DEF SettleCount

\* A command with an opcode leads both to the same mode, result and acknowledgement.
LEMMA TwinApply ==
  ASSUME NEW s, Ongoing(s), NEW c, c.opcode \in Opcodes, NEW t \in Nat
  PROVE  LET r == apply(s, c, t)
             q == _apply(s.mode, c, t)
         IN  r.state.mode = q.mode /\ r.state.terminal = q.terminal /\ r.ack = q.ack
<1> DEFINE m == Applied(s.mode, c.opcode)
           o == c.opcode
           r == apply(s, c, t)
           q == _apply(s.mode, c, t)
           how == IF c.effective_tick = t THEN "APPLIED" ELSE "APPLIED_LATE"
           why == IF o = "ABORT" THEN "GROUND_ABORT" ELSE "NONE"
           to == [p \in Opcodes |-> CASE p = "ARM" -> "ARMED"
                                      [] p = "LAUNCH" -> "FLYING"
                                      [] p = "ABORT" -> "TERMINATED"]
           from == [p \in Opcodes |-> CASE p = "ARM" -> {"INIT"}
                                        [] p = "LAUNCH" -> {"ARMED"}
                                        [] p = "ABORT" -> {"ARMED", "FLYING"}]
           end == [reason |-> "GROUND_ABORT", tick |-> t]
<1>1. s.mode \in {"INIT", "ARMED", "FLYING"} /\ s.terminal = NoTerminal /\ s \in StateType
  BY DEF Ongoing, StateType, Modes
<1>2. /\ to[o] = CASE o = "ARM" -> "ARMED" [] o = "LAUNCH" -> "FLYING" [] o = "ABORT" -> "TERMINATED"
      /\ from[o] = CASE o = "ARM" -> {"INIT"} [] o = "LAUNCH" -> {"ARMED"}
                     [] o = "ABORT" -> {"ARMED", "FLYING"}
  OBVIOUS
<1>3. q = IF s.mode \notin from[o]
          THEN [mode |-> s.mode, terminal |-> NoTerminal,
                ack |-> Ack(c, "REJECTED_STATE", 0, s.mode, "NONE")]
          ELSE [mode |-> to[o], terminal |-> IF o = "ABORT" THEN [reason |-> why, tick |-> t] ELSE NoTerminal,
                ack |-> Ack(c, how, t, to[o], why)]
  BY DEF _apply
<1> HIDE DEF to, from, q
<1>4. /\ m = "none" <=> s.mode \notin from[o]
      /\ m # "none" => m = to[o]
      /\ (m # "none" /\ o = "ABORT") <=> m = "TERMINATED"
  BY <1>1, <1>2 DEF Applied, Opcodes
<1> DEFINE res == IF m = "TERMINATED" THEN end ELSE s.terminal
           b == [s EXCEPT !.mode = m, !.terminal = res]
           mwhy == IF m = "TERMINATED" THEN "GROUND_ABORT" ELSE "NONE"
<1>5. r = IF m = "none"
          THEN [state |-> s, ack |-> Ack(c, "REJECTED_STATE", 0, s.mode, "NONE")]
          ELSE [state |-> b, ack |-> Ack(c, how, t, m, mwhy)]
  BY DEF apply
<1> HIDE DEF m, r, how, end, res
<1>6. CASE m = "none"
  <2>1. r.state = s /\ r.ack = Ack(c, "REJECTED_STATE", 0, s.mode, "NONE")
    BY <1>5, <1>6
  <2>2. q.mode = s.mode /\ q.terminal = NoTerminal /\ q.ack = Ack(c, "REJECTED_STATE", 0, s.mode, "NONE")
    BY <1>3, <1>4, <1>6
  <2> QED
    BY <1>1, <2>1, <2>2 DEF r, q
<1>7. CASE m # "none"
  <2>1. b.mode = m /\ b.terminal = res
    BY <1>1 DEF StateType
  <2> HIDE DEF b
  <2>2. r.state = b /\ r.ack = Ack(c, how, t, m, mwhy)
    BY <1>5, <1>7
  <2>3. q.mode = m /\ q.ack = Ack(c, how, t, m, why)
        /\ q.terminal = IF o = "ABORT" THEN [reason |-> why, tick |-> t] ELSE NoTerminal
    BY <1>3, <1>4, <1>7
  <2>4. why = mwhy
    BY <1>4, <1>7
  <2>5. q.terminal = res
    BY <1>1, <1>4, <1>7, <2>3 DEF res, end
  <2> QED
    BY <2>1, <2>2, <2>3, <2>4, <2>5 DEF r, q
<1> QED
  BY <1>6, <1>7

\* The simulator's locals l and the vehicle's state x, begun from n, tell the same.
Matches(n, x, l) ==
    /\ x \in StateType /\ x.pid = n.pid /\ x.settle_count = n.settle_count
    /\ x.auto_arm = n.auto_arm
    /\ x.mode = l.mode /\ x.terminal = l.terminal
    /\ x.pending = l.pending /\ x.last_accepted = l.last

\* The locals are a record of these.
Locals(l) ==
    /\ l = [i \in DOMAIN l |-> l[i]]
    /\ DOMAIN l = {"mode", "terminal", "last", "pending", "arrival_ack", "pending_ack"}

One(k) == IF k.status = "none" THEN <<>> ELSE <<k>>

\* After the arriving command: the same state and the same acknowledgements.
Paired(n, a, l) ==
    /\ Matches(n, a.state, l) /\ Locals(l)
    /\ a.arrival = One(l.arrival_ack) /\ a.pending = One(l.pending_ack)
    /\ l.pending # NoCommand => Ongoing(a.state) /\ l.pending.opcode \in Opcodes

\* The arriving command.
LEMMA TwinArrive ==
  ASSUME NEW n, Ongoing(n), Sound(n), NEW in \in InputType, NEW s,
         s.mode = n.mode, s.pending = n.pending, s.last_accepted = n.last_accepted
  PROVE  Paired(n, Arrive(n, in), _arrive(s, in))
<1> DEFINE c == in.command
           t == in.tick
           refused == prefix(c, n.last_accepted)
           status == IF refused = "none" /\ n.pending # NoCommand /\ ~Preempts(c, n.pending)
                     THEN "REJECTED_PENDING" ELSE refused
           p == Ack(n.pending, "PREEMPTED", 0, n.mode, "NONE")
           displaced == IF n.pending = NoCommand THEN <<>> ELSE <<p>>
           accepted == [n EXCEPT !.pending = NoCommand, !.last_accepted = c]
           queued == [accepted EXCEPT !.pending = c]
           now == apply(accepted, c, t)
           a == Arrive(n, in)
           busy == refused = "none" /\ n.pending # NoCommand
           preempts == busy /\ c.opcode = "ABORT" /\ n.pending.opcode # "ABORT"
           rstatus == IF busy /\ ~preempts THEN "REJECTED_PENDING" ELSE refused
           rnow == _apply(n.mode, c, t)
           kept == [mode |-> n.mode, terminal |-> NoTerminal, last |-> n.last_accepted,
                    pending |-> n.pending, arrival_ack |-> _noAck, pending_ack |-> _noAck]
           nopend == IF preempts THEN NoCommand ELSE n.pending
           pack == IF preempts THEN p ELSE _noAck
           taken == [kept EXCEPT !.last = c, !.pending = nopend, !.pending_ack = pack]
           l == _arrive(s, in)
           x == Ack(c, status, 0, n.mode, "NONE")
           y == Ack(c, "QUEUED", 0, n.mode, "NONE")
           l1 == [kept EXCEPT !.arrival_ack = x]
           l2 == [taken EXCEPT !.pending = c, !.arrival_ack = y]
           l3 == [taken EXCEPT !.mode = rnow.mode, !.terminal = rnow.terminal,
                               !.arrival_ack = rnow.ack]
<1>1. /\ n \in StateType /\ n.pending \in CommandType /\ n.last_accepted \in CommandType
      /\ n.mode # "TERMINATED" /\ n.terminal = NoTerminal
      /\ c \in CommandType /\ t \in Nat
  BY DEF Ongoing, StateType, InputType
<1>2. refused = _prefix(c, s.last_accepted)
  BY <1>1, TwinPrefix
<1>3. status = rstatus
  BY DEF Preempts
<1>4. l = IF c = NoCommand THEN kept
          ELSE IF rstatus # "none" THEN [kept EXCEPT !.arrival_ack = Ack(c, rstatus, 0, n.mode, "NONE")]
          ELSE IF c.effective_tick > t THEN l2 ELSE l3
  BY <1>2 DEF _arrive
<1>5. a = IF c = NoCommand
          THEN [state |-> n, arrival |-> <<>>, pending |-> <<>>]
          ELSE IF status # "none"
          THEN [state |-> n, pending |-> <<>>, arrival |-> <<x>>]
          ELSE IF c.effective_tick > t
          THEN [state |-> queued, pending |-> displaced, arrival |-> <<y>>]
          ELSE [state |-> now.state, arrival |-> <<now.ack>>, pending |-> displaced]
  BY DEF Arrive
<1>6. _noAck.status = "none" /\ x.status = status /\ y.status = "QUEUED" /\ p.status = "PREEMPTED"
  BY AckFacts DEF _noAck
<1>7. /\ kept.mode = n.mode /\ kept.terminal = NoTerminal /\ kept.last = n.last_accepted
      /\ kept.pending = n.pending /\ kept.arrival_ack = _noAck /\ kept.pending_ack = _noAck
      /\ l1.mode = n.mode /\ l1.terminal = NoTerminal /\ l1.last = n.last_accepted
      /\ l1.pending = n.pending /\ l1.arrival_ack = x /\ l1.pending_ack = _noAck
      /\ Locals(kept) /\ Locals(l1)
  BY DEF Locals
<1>8. /\ l2.mode = n.mode /\ l2.terminal = NoTerminal /\ l2.last = c
      /\ l2.pending = c /\ l2.arrival_ack = y /\ l2.pending_ack = pack
      /\ Locals(l2)
  <2> HIDE DEF pack, nopend, y, rnow
  <2> QED
    BY DEF Locals
<1>9. /\ l3.mode = rnow.mode /\ l3.terminal = rnow.terminal /\ l3.last = c
      /\ l3.pending = nopend /\ l3.arrival_ack = rnow.ack /\ l3.pending_ack = pack
      /\ Locals(l3)
  <2> HIDE DEF pack, nopend, y, rnow
  <2> QED
    BY DEF Locals
<1>10. status = "none" => (refused = "none" /\ (n.pending # NoCommand <=> preempts) /\ c.opcode \in Opcodes)
  <2>1. refused = "none" => c.opcode \in Opcodes
    BY <1>1, PrefixFacts
  <2>2. refused \in {"none", "REJECTED_OPCODE", "DUPLICATE", "REJECTED_IDENTITY", "REJECTED_STALE"}
    BY <1>1, PrefixFacts
  <2> HIDE DEF refused
  <2> QED
    BY <1>1, <2>1, <2>2 DEF Preempts
<1>11. n.pending # NoCommand => n.pending.opcode \in Opcodes
  BY DEF Sound
<1> HIDE DEF l, a, status, rstatus, x, y, p, kept, l1, l2, l3, preempts, refused
<1>12. CASE c = NoCommand
  <2>1. l = kept /\ a.state = n /\ a.arrival = <<>> /\ a.pending = <<>>
    BY <1>4, <1>5, <1>12
  <2> QED
    BY <1>1, <1>6, <1>7, <1>11, <2>1 DEF Matches, One, Paired, l, a
<1>13. CASE c # NoCommand /\ status # "none"
  <2>1. l = l1 /\ a.state = n /\ a.arrival = <<x>> /\ a.pending = <<>>
    BY <1>3, <1>4, <1>5, <1>13 DEF l1, x
  <2> QED
    BY <1>1, <1>6, <1>7, <1>11, <1>13, <2>1 DEF Matches, One, Paired, l, a
<1>14. CASE c # NoCommand /\ status = "none" /\ c.effective_tick > t
  <2>1. l = l2 /\ a.state = queued /\ a.arrival = <<y>> /\ a.pending = displaced
    BY <1>3, <1>4, <1>5, <1>14
  <2>2. displaced = One(pack)
    BY <1>6, <1>10, <1>14 DEF One
  <2>3. accepted \in StateType /\ accepted.mode = n.mode /\ accepted.pid = n.pid
        /\ accepted.settle_count = n.settle_count /\ accepted.auto_arm = n.auto_arm
        /\ accepted.terminal = NoTerminal /\ accepted.last_accepted = c
    BY <1>1, AbsentFacts DEF StateType
  <2> HIDE DEF accepted
  <2>4. queued \in StateType /\ queued.mode = n.mode /\ queued.pid = n.pid
        /\ queued.settle_count = n.settle_count /\ queued.auto_arm = n.auto_arm
        /\ queued.terminal = NoTerminal /\ queued.last_accepted = c /\ queued.pending = c
    BY <1>1, <2>3 DEF StateType
  <2> HIDE DEF queued, displaced, pack
  <2>5. Matches(n, queued, l2) /\ Ongoing(queued)
    BY <1>1, <1>8, <2>4 DEF Matches, Ongoing
  <2>6. <<y>> = One(l2.arrival_ack)
    BY <1>6, <1>8 DEF One
  <2> QED
    BY <1>8, <1>10, <1>14, <2>1, <2>2, <2>5, <2>6 DEF Paired, l, a
<1>15. CASE c # NoCommand /\ status = "none" /\ ~(c.effective_tick > t)
  <2>1. l = l3 /\ a.state = now.state /\ a.arrival = <<now.ack>> /\ a.pending = displaced
    BY <1>3, <1>4, <1>5, <1>15
  <2>2. displaced = One(pack) /\ nopend = NoCommand
    BY <1>6, <1>10, <1>15 DEF One
  <2>3. Ongoing(accepted) /\ accepted.mode = n.mode /\ accepted.pid = n.pid
        /\ accepted.settle_count = n.settle_count /\ accepted.auto_arm = n.auto_arm
        /\ accepted.last_accepted = c /\ accepted.pending = NoCommand
    BY <1>1, AbsentFacts DEF StateType, Ongoing
  <2> HIDE DEF accepted
  <2>4. /\ Steady(accepted, now.state) /\ now.state.pending = NoCommand
        /\ now.state.last_accepted = c
        /\ now.ack.status \in {"APPLIED", "APPLIED_LATE", "REJECTED_STATE"}
    BY <1>1, <2>3, ApplyFacts
  <2>5. now.state.mode = rnow.mode /\ now.state.terminal = rnow.terminal /\ now.ack = rnow.ack
    <3>1. c.opcode \in Opcodes
      BY <1>10, <1>15
    <3>2. LET r == apply(accepted, c, t)
              q == _apply(accepted.mode, c, t)
          IN  r.state.mode = q.mode /\ r.state.terminal = q.terminal /\ r.ack = q.ack
      BY <1>1, <2>3, <3>1, TwinApply
    <3> QED
      BY <2>3, <3>2
  <2> HIDE DEF now, rnow, displaced, pack, nopend
  <2>6. Matches(n, now.state, l3)
    BY <1>9, <2>2, <2>3, <2>4, <2>5 DEF Matches, Steady
  <2>7. <<now.ack>> = One(l3.arrival_ack)
    BY <1>9, <2>4, <2>5 DEF One
  <2> QED
    BY <1>9, <2>1, <2>2, <2>6, <2>7 DEF Paired, l, a
<1> QED
  BY <1>12, <1>13, <1>14, <1>15

\* The pending command that is due.
LEMMA TwinDue ==
  ASSUME NEW n, NEW in \in InputType, NEW a, NEW l, Paired(n, a, l)
  PROVE  LET r == ApplyDue(a, in)
             d == _due(l, in)
         IN  Matches(n, r.state, d) /\ r.acks = _acks(d.arrival_ack, d.pending_ack)
<1> DEFINE x == a.state
           b == [x EXCEPT !.pending = NoCommand]
           t == in.tick
           due == apply(b, x.pending, t)
           rdue == _apply(l.mode, l.pending, t)
           l1 == [l EXCEPT !.pending = NoCommand, !.mode = rdue.mode,
                           !.terminal = rdue.terminal, !.pending_ack = rdue.ack]
           r == ApplyDue(a, in)
           d == _due(l, in)
<1>1. t \in Nat /\ x \in StateType /\ x.pending = l.pending /\ x.mode = l.mode
      /\ x.pending.effective_tick \in Int
  BY DEF Paired, InputType, Matches, StateType, CommandType
<1>2. r = IF x.pending # NoCommand /\ x.pending.effective_tick <= t
          THEN [state |-> due.state, acks |-> a.arrival \o <<due.ack>>]
          ELSE [state |-> x, acks |-> a.arrival \o a.pending]
  BY DEF ApplyDue
<1>3. d = IF l.pending = NoCommand \/ l.pending.effective_tick > t THEN l ELSE l1
  BY DEF _due
<1>4. _acks(d.arrival_ack, d.pending_ack) = One(d.arrival_ack) \o One(d.pending_ack)
  BY DEF _acks, One
<1> HIDE DEF Paired, r, d
<1>5. CASE x.pending # NoCommand /\ x.pending.effective_tick <= t
  <2>1. d = l1 /\ r.state = due.state /\ r.acks = a.arrival \o <<due.ack>>
    BY <1>1, <1>2, <1>3, <1>5
  <2>2. l1.mode = rdue.mode /\ l1.terminal = rdue.terminal /\ l1.last = l.last
        /\ l1.pending = NoCommand /\ l1.arrival_ack = l.arrival_ack /\ l1.pending_ack = rdue.ack
    BY DEF Paired, Locals
  <2>3. Ongoing(b) /\ b.mode = l.mode /\ b.pid = n.pid /\ b.settle_count = n.settle_count
        /\ b.auto_arm = n.auto_arm /\ b.pending = NoCommand /\ b.last_accepted = l.last
    BY <1>1, <1>5, AbsentFacts DEF Paired, Matches, Ongoing, StateType
  <2> HIDE DEF b
  <2>4. /\ Steady(b, due.state) /\ due.state.pending = NoCommand
        /\ due.state.last_accepted = l.last
        /\ due.ack.status \in {"APPLIED", "APPLIED_LATE", "REJECTED_STATE"}
    BY <1>1, <2>3, ApplyFacts
  <2>5. due.state.mode = rdue.mode /\ due.state.terminal = rdue.terminal /\ due.ack = rdue.ack
    <3>1. x.pending.opcode \in Opcodes
      BY <1>1, <1>5 DEF Paired
    <3>2. LET u == apply(b, x.pending, t)
              q == _apply(b.mode, x.pending, t)
          IN  u.state.mode = q.mode /\ u.state.terminal = q.terminal /\ u.ack = q.ack
      BY <1>1, <2>3, <3>1, TwinApply
    <3> QED
      BY <1>1, <2>3, <3>2
  <2> HIDE DEF due, rdue, l1
  <2>6. Matches(n, due.state, l1)
    BY <2>2, <2>3, <2>4, <2>5 DEF Matches, Steady
  <2>7. <<due.ack>> = One(l1.pending_ack)
    BY <2>2, <2>4, <2>5 DEF One
  <2> QED
    BY <1>4, <2>1, <2>2, <2>6, <2>7 DEF Paired, r, d
<1>6. CASE ~(x.pending # NoCommand /\ x.pending.effective_tick <= t)
  <2>1. d = l /\ r.state = x /\ r.acks = a.arrival \o a.pending
    <3>1. d = l
      BY <1>1, <1>3, <1>6
    <3>2. r = [state |-> x, acks |-> a.arrival \o a.pending]
      BY <1>2, <1>6
    <3> QED
      BY <3>1, <3>2
  <2> QED
    BY <1>4, <2>1 DEF Paired, r, d
<1> QED
  BY <1>5, <1>6

\* Auto-arming and the output: what the simulator's expressions give, for a
\* commanded state of either outcome.
LEMMA TwinFly ==
  ASSUME NEW x \in StateType, NEW in \in InputType
  PROVE  LET f == Fly(x, in)
             armed == IF x.auto_arm /\ in.fresh /\ x.mode = "INIT" THEN "ARMED" ELSE x.mode
             mode == IF x.terminal # NoTerminal THEN x.mode
                     ELSE IF x.auto_arm /\ in.fresh /\ armed = "ARMED" THEN "FLYING" ELSE armed
             flies == x.terminal = NoTerminal /\ mode = "FLYING"
         IN  /\ f.state = [mode |-> mode,
                           pid |-> IF flies /\ in.fresh THEN in.held.tick ELSE x.pid,
                           settle_count |-> x.settle_count, pending |-> x.pending,
                           last_accepted |-> x.last_accepted, terminal |-> x.terminal,
                           auto_arm |-> x.auto_arm]
             /\ f.delta = IF ~flies THEN NoTick
                          ELSE IF in.fresh THEN in.held.tick
                          ELSE IF in.staleness <= CoastLimit THEN x.pid ELSE NoTick
<1> DEFINE m == IF x.auto_arm /\ in.fresh /\ x.mode \in {"INIT", "ARMED"} THEN "FLYING" ELSE x.mode
           f == [x EXCEPT !.mode = m]
           g == [f EXCEPT !.pid = in.held.tick]
           r == Fly(x, in)
           armed == IF x.auto_arm /\ in.fresh /\ x.mode = "INIT" THEN "ARMED" ELSE x.mode
           mode == IF x.terminal # NoTerminal THEN x.mode
                   ELSE IF x.auto_arm /\ in.fresh /\ armed = "ARMED" THEN "FLYING" ELSE armed
           flies == x.terminal = NoTerminal /\ mode = "FLYING"
           Shape(k, p) == [mode |-> k, pid |-> p, settle_count |-> x.settle_count,
                           pending |-> x.pending, last_accepted |-> x.last_accepted,
                           terminal |-> x.terminal, auto_arm |-> x.auto_arm]
<1>1. r = IF x.terminal # NoTerminal THEN [state |-> x, delta |-> NoTick]
          ELSE IF m = "FLYING" /\ in.fresh THEN [state |-> g, delta |-> in.held.tick]
          ELSE IF m = "FLYING" /\ MayCoast(in.staleness) THEN [state |-> f, delta |-> x.pid]
          ELSE [state |-> f, delta |-> NoTick]
  BY DEF Fly
<1>2. x.terminal = NoTerminal => m = mode
  OBVIOUS
<1>3. x = Shape(x.mode, x.pid) /\ f = Shape(m, x.pid) /\ g = Shape(m, in.held.tick)
  <2>1. x = Shape(x.mode, x.pid)
    BY DEF StateType
  <2> HIDE DEF m
  <2>2. f = Shape(m, x.pid)
    BY <2>1
  <2> HIDE DEF f
  <2>3. g = Shape(m, in.held.tick)
    BY <2>2
  <2> QED
    BY <2>1, <2>2, <2>3
<1> HIDE DEF r, m, f, g, armed
<1>4. CASE x.terminal # NoTerminal
  BY <1>1, <1>3, <1>4 DEF r, armed
<1>5. CASE x.terminal = NoTerminal /\ m = "FLYING" /\ in.fresh
  BY <1>1, <1>2, <1>3, <1>5 DEF r, armed
<1>6. CASE x.terminal = NoTerminal /\ ~(m = "FLYING" /\ in.fresh)
  BY <1>1, <1>2, <1>3, <1>6 DEF r, armed, MayCoast
<1> QED
  BY <1>4, <1>5, <1>6

\* A state, ended.
LEMMA EndShape ==
  ASSUME NEW m, NEW p, NEW n, NEW c, NEW k, NEW e, NEW o, NEW d, NEW f, NEW x, NEW y,
         x = [mode |-> m, pid |-> p, settle_count |-> n, pending |-> c, last_accepted |-> k,
              terminal |-> e, auto_arm |-> o],
         y = [x EXCEPT !.mode = "TERMINATED", !.pending = d, !.terminal = f]
  PROVE  y = [mode |-> "TERMINATED", pid |-> p, settle_count |-> n, pending |-> d,
              last_accepted |-> k, terminal |-> f, auto_arm |-> o]
<1> DEFINE x1 == [x EXCEPT !.mode = "TERMINATED"]
           x2 == [x1 EXCEPT !.pending = d]
           x3 == [x2 EXCEPT !.terminal = f]
<1>1. x1 = [mode |-> "TERMINATED", pid |-> p, settle_count |-> n, pending |-> c,
            last_accepted |-> k, terminal |-> e, auto_arm |-> o]
  OBVIOUS
<1>2. y = x3
  OBVIOUS
<1> HIDE DEF x1
<1>3. x2 = [mode |-> "TERMINATED", pid |-> p, settle_count |-> n, pending |-> d,
            last_accepted |-> k, terminal |-> e, auto_arm |-> o]
  BY <1>1
<1> HIDE DEF x2
<1> QED
  BY <1>2, <1>3

\* The end of the episode.
LEMMA TwinEnd ==
  ASSUME NEW s \in StateType, NEW next, NEW count, NEW in \in InputType, NEW why,
         next = [s EXCEPT !.settle_count = count]
  PROVE  LET early == _prefix(in.command, s.last_accepted)
             status == IF early = "none" THEN "REJECTED_STATE" ELSE early
             arrival == IF in.command = NoCommand THEN _noAck
                        ELSE Ack(in.command, status, 0, "TERMINATED", why)
             pending == IF s.pending = NoCommand THEN _noAck
                        ELSE Ack(s.pending, "REJECTED_STATE", 0, "TERMINATED", why)
         IN  Terminate(next, in, why) =
               [state |-> [mode |-> "TERMINATED", pid |-> s.pid, settle_count |-> count,
                           pending |-> NoCommand, last_accepted |-> s.last_accepted,
                           terminal |-> [reason |-> why, tick |-> in.tick],
                           auto_arm |-> s.auto_arm],
                delta |-> NoTick, acks |-> _acks(arrival, pending)]
<1> DEFINE c == in.command
           early == prefix(c, s.last_accepted)
           status == IF early = "none" THEN "REJECTED_STATE" ELSE early
           x == Ack(c, status, 0, "TERMINATED", why)
           y == Ack(s.pending, "REJECTED_STATE", 0, "TERMINATED", why)
           arrival == IF c = NoCommand THEN _noAck ELSE x
           pending == IF s.pending = NoCommand THEN _noAck ELSE y
           first == IF c = NoCommand THEN <<>> ELSE <<x>>
           second == IF s.pending = NoCommand THEN <<>> ELSE <<y>>
           end == [reason |-> why, tick |-> in.tick]
           b == [next EXCEPT !.mode = "TERMINATED", !.pending = NoCommand, !.terminal = end]
           last == [mode |-> "TERMINATED", pid |-> s.pid, settle_count |-> count,
                    pending |-> NoCommand, last_accepted |-> s.last_accepted,
                    terminal |-> end, auto_arm |-> s.auto_arm]
<1>1. c \in CommandType /\ s.last_accepted \in CommandType
  BY DEF InputType, StateType
<1>2. early = _prefix(c, s.last_accepted)
  BY <1>1, TwinPrefix
<1>3. status # "none" /\ x.status = status /\ y.status = "REJECTED_STATE" /\ _noAck.status = "none"
  <2>1. status # "none"
    OBVIOUS
  <2> HIDE DEF status
  <2> QED
    BY <2>1, AckFacts DEF _noAck
<1>4. first = One(arrival) /\ second = One(pending)
  <2> HIDE DEF x, y, status
  <2> QED
    BY <1>3 DEF One
<1>5. next.pending = s.pending /\ next.last_accepted = s.last_accepted
  BY DEF StateType
<1>6. Terminate(next, in, why) = [state |-> b, delta |-> NoTick, acks |-> first \o second]
  BY <1>5 DEF Terminate
<1>7. _acks(arrival, pending) = One(arrival) \o One(pending)
  BY DEF _acks, One
<1>8. b = last
  <2> HIDE DEF end
  <2>1. s = [mode |-> s.mode, pid |-> s.pid, settle_count |-> s.settle_count,
             pending |-> s.pending, last_accepted |-> s.last_accepted,
             terminal |-> s.terminal, auto_arm |-> s.auto_arm]
    BY DEF StateType
  <2>2. next = [mode |-> s.mode, pid |-> s.pid, settle_count |-> count,
                pending |-> s.pending, last_accepted |-> s.last_accepted,
                terminal |-> s.terminal, auto_arm |-> s.auto_arm]
    BY <2>1
  <2> DEFINE q == b
  <2>3. q = [next EXCEPT !.mode = "TERMINATED", !.pending = NoCommand, !.terminal = end]
    OBVIOUS
  <2> HIDE DEF q
  <2>4. q = last
    BY <2>2, <2>3, EndShape
  <2> QED
    BY <2>4 DEF q
<1> HIDE DEF first, second, arrival, pending, b, last
<1>9. Terminate(next, in, why) = [state |-> last, delta |-> NoTick, acks |-> _acks(arrival, pending)]
  BY <1>4, <1>6, <1>7, <1>8
<1> QED
  BY <1>2, <1>9 DEF arrival, pending, last

\* One cycle of the vehicle's policy is one of the simulator's.
LEMMA TwinStep ==
  ASSUME NEW s, Sound(s), NEW in \in InputType
  PROVE  step(s, in) = RefStep(s, in)
<1> DEFINE count == SettleCount(s.settle_count, in.held)
           next == [s EXCEPT !.settle_count = count]
           why == StopReason(count, in)
           n == [next EXCEPT !.terminal = NoTerminal]
           a == Arrive(n, in)
           d == ApplyDue(a, in)
           f == Fly(d.state, in)
           l == _arrive(s, in)
           local == _due(l, in)
           armed == IF s.auto_arm /\ in.fresh /\ local.mode = "INIT" THEN "ARMED" ELSE local.mode
           mode == IF local.terminal # NoTerminal THEN local.mode
                   ELSE IF s.auto_arm /\ in.fresh /\ armed = "ARMED" THEN "FLYING" ELSE armed
           flies == local.terminal = NoTerminal /\ mode = "FLYING"
           early == _prefix(in.command, s.last_accepted)
           status == IF early = "none" THEN "REJECTED_STATE" ELSE early
           arrival == IF in.command = NoCommand THEN _noAck
                      ELSE Ack(in.command, status, 0, "TERMINATED", why)
           pending == IF s.pending = NoCommand THEN _noAck
                      ELSE Ack(s.pending, "REJECTED_STATE", 0, "TERMINATED", why)
           ended == [state |-> [mode |-> "TERMINATED", pid |-> s.pid, settle_count |-> count,
                                pending |-> NoCommand, last_accepted |-> s.last_accepted,
                                terminal |-> [reason |-> why, tick |-> in.tick],
                                auto_arm |-> s.auto_arm],
                     delta |-> NoTick, acks |-> _acks(arrival, pending)]
           flown == [state |-> [mode |-> mode,
                                pid |-> IF flies /\ in.fresh THEN in.held.tick ELSE s.pid,
                                settle_count |-> count, pending |-> local.pending,
                                last_accepted |-> local.last, terminal |-> local.terminal,
                                auto_arm |-> s.auto_arm],
                     delta |-> IF ~flies THEN NoTick
                               ELSE IF in.fresh THEN in.held.tick
                               ELSE IF in.staleness <= CoastLimit THEN s.pid ELSE NoTick,
                     acks |-> _acks(local.arrival_ack, local.pending_ack)]
<1>1. s \in StateType /\ s.settle_count \in 0 .. SettleTarget /\ count \in 0 .. SettleTarget
  BY CountFacts DEF Sound, StateType
<1>2. step(s, in) =
        IF s.mode = "TERMINATED" THEN [state |-> s, delta |-> NoTick, acks |-> <<>>]
        ELSE IF why # "NONE" THEN Terminate(next, in, why)
        ELSE [state |-> f.state, delta |-> f.delta, acks |-> d.acks]
  BY DEF step
<1>3. RefStep(s, in) =
        IF s.mode = "TERMINATED" THEN [state |-> s, delta |-> NoTick, acks |-> <<>>]
        ELSE IF why # "NONE" THEN ended ELSE flown
  <2>1. count = IF in.held.class # "settled" THEN 0
                ELSE IF s.settle_count + 1 < SettleTarget THEN s.settle_count + 1 ELSE SettleTarget
    BY <1>1, TwinCount
  <2>2. why = _reason(count, in)
    BY TwinReason
  <2> HIDE DEF why, count
  <2> QED
    BY <2>1, <2>2 DEF RefStep
<1> HIDE DEF count, why
<1>4. Terminate(next, in, why) = ended
  BY <1>1, TwinEnd
<1>5. ASSUME s.mode # "TERMINATED"
      PROVE  f.state = flown.state /\ f.delta = flown.delta /\ d.acks = flown.acks
  <2>1. /\ next \in StateType /\ next.mode = s.mode /\ next.pid = s.pid
        /\ next.settle_count = count /\ next.pending = s.pending
        /\ next.last_accepted = s.last_accepted /\ next.auto_arm = s.auto_arm
    BY <1>1 DEF StateType
  <2> HIDE DEF next
  <2>2. /\ n \in StateType /\ n.mode = s.mode /\ n.pid = s.pid
        /\ n.settle_count = count /\ n.pending = s.pending /\ n.terminal = NoTerminal
        /\ n.last_accepted = s.last_accepted /\ n.auto_arm = s.auto_arm
    BY <2>1, AbsentFacts DEF StateType
  <2> HIDE DEF n
  <2>3. Ongoing(n) /\ Sound(n)
    BY <1>5, <2>2 DEF Ongoing, Sound
  <2>4. Paired(n, a, l)
    BY <2>2, <2>3, TwinArrive
  <2> HIDE DEF a, l
  <2>5. Matches(n, d.state, local) /\ d.acks = _acks(local.arrival_ack, local.pending_ack)
    BY <2>4, TwinDue
  <2> HIDE DEF d, local
  <2> DEFINE x == d.state
  <2>6. /\ x \in StateType /\ x.pid = s.pid /\ x.settle_count = count /\ x.auto_arm = s.auto_arm
        /\ x.mode = local.mode /\ x.terminal = local.terminal
        /\ x.pending = local.pending /\ x.last_accepted = local.last
    BY <2>2, <2>5 DEF Matches
  <2> HIDE DEF x
  <2>7. LET xarmed == IF x.auto_arm /\ in.fresh /\ x.mode = "INIT" THEN "ARMED" ELSE x.mode
            xmode == IF x.terminal # NoTerminal THEN x.mode
                     ELSE IF x.auto_arm /\ in.fresh /\ xarmed = "ARMED" THEN "FLYING" ELSE xarmed
            xflies == x.terminal = NoTerminal /\ xmode = "FLYING"
        IN  /\ f.state = [mode |-> xmode,
                          pid |-> IF xflies /\ in.fresh THEN in.held.tick ELSE x.pid,
                          settle_count |-> x.settle_count, pending |-> x.pending,
                          last_accepted |-> x.last_accepted, terminal |-> x.terminal,
                          auto_arm |-> x.auto_arm]
            /\ f.delta = IF ~xflies THEN NoTick
                         ELSE IF in.fresh THEN in.held.tick
                         ELSE IF in.staleness <= CoastLimit THEN x.pid ELSE NoTick
    BY <2>6, TwinFly DEF x
  <2> HIDE DEF f
  <2>8. f.state = flown.state /\ f.delta = flown.delta
    BY <2>6, <2>7
  <2> QED
    BY <2>5, <2>8
<1> HIDE DEF next, f, d, ended
<1>6. CASE s.mode # "TERMINATED" /\ why = "NONE"
  <2>1. step(s, in) = [state |-> f.state, delta |-> f.delta, acks |-> d.acks]
    BY <1>2, <1>6
  <2>2. RefStep(s, in) = flown
    BY <1>3, <1>6
  <2>3. flown = [state |-> flown.state, delta |-> flown.delta, acks |-> flown.acks]
    OBVIOUS
  <2>4. f.state = flown.state /\ f.delta = flown.delta /\ d.acks = flown.acks
    BY <1>5, <1>6
  <2> HIDE DEF flown
  <2> QED
    BY <2>1, <2>2, <2>3, <2>4
<1>7. CASE ~(s.mode # "TERMINATED" /\ why = "NONE")
  <2> HIDE DEF flown
  <2> QED
    BY <1>2, <1>3, <1>4, <1>7
<1> QED
  BY <1>6, <1>7

\* The vehicle and the simulator decide alike, in every reachable state and on
\* every input of their contract.
THEOREM TwinsAlwaysAgree == Spec => []TwinsAgree
<1>1. PolicyInv => TwinsAgree
  <2> SUFFICES ASSUME PolicyInv, NEW in \in Inputs PROVE step(state, in) = RefStep(state, in)
    BY DEF TwinsAgree
  <2>1. in \in InputType /\ Sound(state)
    BY InputFacts DEF PolicyInv, PolicyType
  <2> QED
    BY <2>1, TwinStep
<1> QED
  BY <1>1, PolicyInvariant, PTL
=============================================================================
