-------------------------- MODULE CampaignProofs --------------------------
(***************************************************************************)
(* The campaign runner for any number of runs, cases and outside events: a *)
(* manifest's eligible cases were made by what the manifest names, what a  *)
(* validator accepts is current, and no manifest is ever replaced.         *)
(*                                                                         *)
(* Contents only grow.  What a run compares at its end is equal to what it *)
(* saw at its start, so everything in between saw the same: the invariant  *)
(* orders the versions a run, its artifacts and its entries were made of,  *)
(* and those that a validator compares them with.                          *)
(***************************************************************************)
EXTENDS Campaign, TLAPS

ScenarioType == [text : Nat, trace : Nat]
TreeType == [cpp : Nat, sim : Nat, scenario : [Scenarios -> ScenarioType]]
SourceType == [cpp : Nat, sim : Nat, scenario : ScenarioType]
RanType == [binary : Nat, sim : Nat, scenario : ScenarioType]
ArtType ==
    [attempt : Nat, altered : BOOLEAN, ran : RanType, replay : RanType \union {Nothing}]
ArtsType == [Units -> ArtType \union {Nothing}]
RunFields ==
    {"attempt", "path", "cases", "source", "binary", "sim", "done", "case", "doc"}

\* The order of a scenario's contents.
Older(v, w) == v.text < w.text \/ v = w

\* A tree t2 that is t after some edits.
Later(t, t2) ==
    /\ t \in TreeType /\ t2 \in TreeType
    /\ t.sim <= t2.sim
    /\ \A s \in Scenarios : Older(t.scenario[s], t2.scenario[s])

\* A run's locals are a record of these fields.
RunType(u) ==
    /\ u = [f \in RunFields |-> u[f]]
    /\ u.attempt \in Nat /\ u.path \in Paths
    /\ u.binary \in Nat /\ u.sim \in Nat

\* Case c was made on a simulator between those of s and t, on a scenario not
\* newer than that of t and, if s covers it, not older than that of s.
Between(goldens, c, x, s, t) ==
    /\ x \in RanType
    /\ s.sim <= x.sim /\ x.sim <= t.sim
    /\ Older(x.scenario, t.scenario[ScenarioOf(goldens, c)])
    /\ ScenarioOf(goldens, c) = Gust => Older(s.scenario, x.scenario)

\* So was the scenario that a golden entry names read between s and t.
Named(c, v, s, t) ==
    /\ v \in ScenarioType
    /\ Older(v, t.scenario[c])
    /\ c = Gust => Older(s.scenario, v)

\* An entry of a manifest that is called eligible is what it is called.
Proper(c, e, doc, t) ==
    /\ e.attempt = doc.attempt
    /\ e.ran.sim = doc.source.sim
    /\ ~doc.goldens => /\ e.ran.scenario = doc.source.scenario
                       /\ e.ran.binary = doc.binary /\ doc.sim = doc.source.sim
    /\ doc.goldens => /\ c \in Scenarios /\ e.scenario \in ScenarioType
                      /\ Older(e.scenario, t.scenario[c])
                      /\ c = Gust => /\ e.ran.scenario = doc.source.scenario
                                     /\ e.scenario = doc.source.scenario

\* A campaign names a scenario read after the sources.
Filed(doc, t) ==
    /\ doc.class = Lane(doc.by)
    /\ doc.source \in SourceType
    /\ ~doc.goldens => /\ doc.scenario \in ScenarioType
                       /\ Older(doc.source.scenario, doc.scenario)
                       /\ Older(doc.scenario, t.scenario[Gust])
    /\ \A c \in DOMAIN doc.cases : doc.cases[c].eligible => Proper(c, doc.cases[c], doc, t)

(* One run r at p, with the locals u and the artifacts a, in a working tree *)
(* t with the binary b.                                                     *)

\* The source digest is of the tree as it was.
Sourced(p, u, t) ==
    p \notin {"idle", "source"} =>
        /\ u.source \in SourceType
        /\ u.source.sim <= t.sim /\ Older(u.source.scenario, t.scenario[Gust])

\* So are the digests of the binary and, taken later, of the simulator.
Pinned(r, p, u, t, b) ==
    r \notin Goldens =>
        /\ p \notin {"idle", "source", "binary"} => u.binary <= b
        /\ p \notin {"idle", "source", "binary", "sim"} =>
              u.source.sim <= u.sim /\ u.sim <= t.sim

\* The case under way was started by this attempt, after the digests.
Underway(r, p, u, a, t, b) ==
    p \in {"vehicle", "running", "inspect", "entry"} =>
        /\ u.case \in Declared(r) /\ a[u.case] \in ArtType
        /\ a[u.case].attempt = u.attempt
        /\ r \notin Goldens => u.binary <= a[u.case].ran.binary
        /\ a[u.case].ran.binary <= b
        /\ p # "vehicle" => Between(Golden(r), u.case, a[u.case].ran, u.source, t)
        /\ p = "inspect" =>
              /\ a[u.case].replay \in RanType
              /\ a[u.case].ran.binary <= a[u.case].replay.binary
        /\ p = "entry" => Golden(r)

\* What an eligible entry says of case c.
EntryOk(r, c, e, u, t) ==
    /\ e.attempt = u.attempt
    /\ Between(Golden(r), c, e.ran, u.source, t)
    /\ ~Golden(r) => e.ran.binary = u.binary
    /\ Golden(r) => Named(c, e.scenario, u.source, t)

\* So were the cases done; the digests come before the first of them.
Done(r, p, u, t) ==
    /\ p \in {"idle", "source", "binary", "sim"} => u.done = <<>>
    /\ \A c \in DOMAIN u.done :
          c \in Declared(r) /\ (u.done[c].eligible => EntryOk(r, c, u.done[c], u, t))

\* Sources that did not change until the end: the cases were made on them.
Settled(r, u) ==
    /\ ~Golden(r)
    /\ \A c \in DOMAIN u.done : u.done[c].eligible =>
          /\ u.done[c].attempt = u.attempt
          /\ u.done[c].ran.sim = u.source.sim /\ u.done[c].ran.scenario = u.source.scenario
          /\ u.done[c].ran.binary = u.binary /\ u.sim = u.source.sim

RunOk(r, p, u, a, t, b) ==
    /\ RunType(u) /\ u.cases \subseteq Declared(r) /\ a \in ArtsType
    /\ Sourced(p, u, t) /\ Pinned(r, p, u, t, b) /\ Underway(r, p, u, a, t, b)
    /\ Done(r, p, u, t)
    /\ p = "document" => Settled(r, u)
    /\ p \in {"validate", "write", "fill"} => Filed(u.doc, t)

Points == {"idle", "source", "binary", "sim", "cases", "vehicle", "running", "inspect", "entry",
           "document", "validate", "write", "fill"}

CampaignType ==
    /\ tree \in TreeType /\ binary \in Nat /\ binary <= tree.cpp
    /\ pc \in [Runs -> Points]
    /\ run = [r \in Runs |-> run[r]]
    /\ art \in [Runs -> ArtsType]
    /\ manifest = [p \in Paths |-> manifest[p]]

\* Manifests that claim nothing false.
Honest(m, t) ==
    /\ m = [p \in Paths |-> m[p]]
    /\ \A p \in Paths : m[p] \notin {Nothing, Torn} => Filed(m[p], t)

\* What a run is writing to is torn until then, and no other run writes to it.
Filling(p, u, m) ==
    \A r \in Runs : p[r] = "fill" =>
        /\ m[u[r].path] = Torn
        /\ \A q \in Runs \ {r} : p[q] = "fill" => u[q].path # u[r].path

(* The validator k, with the artifacts a of all runs. *)

Spoilt(x) == x # Nothing /\ x.altered

\* A golden case that was inspected again and whose scenario is still the one
\* the entry names was made on a scenario of the same trace.
SameTrace(e) == e.ran.scenario.trace = e.scenario.trace

CheckFields == {"pc", "current", "doc", "root", "source", "case", "seen", "spoilt"}

CheckOk(k, a, t) ==
    k.pc # "idle" =>
        /\ k = [f \in CheckFields |-> k[f]]
        /\ Filed(k.doc, t) /\ k.doc.source = k.source
        /\ \A c \in DOMAIN k.doc.cases : k.doc.cases[c].eligible
        /\ ~k.doc.goldens => k.doc.scenario = k.source.scenario
        /\ IF k.current
           THEN k.doc.by \in Canonical /\ DOMAIN k.doc.cases = Cases /\ ~k.doc.goldens
                /\ k.pc \in {"scenario", "accepted"}
           ELSE /\ k.root \in Runs
                /\ k.spoilt \subseteq Units /\ \A c \in k.spoilt : Spoilt(a[k.root][c])
                /\ \A c \in k.seen : c \notin k.spoilt
                                     /\ (k.doc.goldens => SameTrace(k.doc.cases[c]))
                /\ k.pc = "accepted" => k.seen = DOMAIN k.doc.cases
        /\ k.pc = "entry" =>
              /\ k.doc.goldens /\ k.case \in DOMAIN k.doc.cases /\ k.case \notin k.spoilt
              /\ k.doc.cases[k.case].scenario = t.scenario[k.case] => SameTrace(k.doc.cases[k.case])

\* The inductive invariant.
CampaignInv ==
    /\ CampaignType
    /\ \A r \in Runs : RunOk(r, pc[r], run[r], art[r], tree, binary)
    /\ Honest(manifest, tree) /\ Filling(pc, run, manifest)
    /\ CheckOk(check, art, tree)

-----------------------------------------------------------------------------
(* Contents. *)

\* What is not newer than a content is not newer than one after it.
LEMMA OlderLater ==
  ASSUME NEW v \in ScenarioType, NEW w \in ScenarioType, NEW x \in ScenarioType,
         Older(v, w), Older(w, x)
  PROVE  Older(v, x)
<1>1. v.text \in Nat /\ w.text \in Nat /\ x.text \in Nat
  BY DEF ScenarioType
<1> QED
  BY <1>1 DEF Older

\* Two contents of which neither is newer are the same.
LEMMA OlderSame ==
  ASSUME NEW v \in ScenarioType, NEW w \in ScenarioType, Older(v, w), Older(w, v)
  PROVE  v = w
<1>1. v.text \in Nat /\ w.text \in Nat
  BY DEF ScenarioType
<1> QED
  BY <1>1 DEF Older

\* The contents of a tree.
LEMMA TreeHolds ==
  ASSUME NEW t \in TreeType
  PROVE  /\ t.cpp \in Nat /\ t.sim \in Nat
         /\ \A s \in Scenarios : t.scenario[s] \in ScenarioType
         /\ t.scenario[Gust] \in ScenarioType
  BY GustAssumption DEF TreeType

\* A case of a run has a scenario.
LEMMA CaseHolds ==
  ASSUME NEW r, NEW c \in Declared(r)
  PROVE  c \in Units /\ ScenarioOf(Golden(r), c) \in Scenarios
  BY GustAssumption DEF Declared, Units, ScenarioOf

\* What a run may read as the source digest.
LEMMA SourceHolds ==
  ASSUME tree \in TreeType
  PROVE  /\ implementation_source \in SourceType
         /\ implementation_source.sim = tree.sim
         /\ implementation_source.scenario = tree.scenario[Gust]
<1>1. tree.cpp \in Nat /\ tree.sim \in Nat /\ tree.scenario[Gust] \in ScenarioType
  BY TreeHolds
<1> QED
  BY <1>1 DEF implementation_source, SourceType

-----------------------------------------------------------------------------
(* The runs' locals. *)

\* The field f of the locals is set to v, the others stay.
Set(u, w, f, v) ==
    /\ w = [g \in RunFields |-> w[g]]
    /\ w[f] = v
    /\ \A g \in RunFields \ {f} : w[g] = u[g]

\* An update of one field.
LEMMA SetFacts ==
  ASSUME NEW u, u = [g \in RunFields |-> u[g]], NEW f \in RunFields, NEW v, NEW w,
         w = [u EXCEPT ![f] = v]
  PROVE  Set(u, w, f, v)
  BY DEF Set

\* An update of one field of one run.
LEMMA RunSet ==
  ASSUME CampaignInv, NEW r \in Runs, NEW w, run' = [run EXCEPT ![r] = w]
  PROVE  /\ run' = [q \in Runs |-> run'[q]] /\ run'[r] = w
         /\ \A q \in Runs : q # r => run'[q] = run[q]
  BY DEF CampaignInv, CampaignType

-----------------------------------------------------------------------------
(* What the world does to a run, a manifest and a validator. *)

\* A scenario's content, once read, is not newer than the tree's ever after.
LEMMA ReadBefore ==
  ASSUME NEW t, NEW t2, Later(t, t2), NEW s \in Scenarios, NEW v \in ScenarioType,
         Older(v, t.scenario[s])
  PROVE  Older(v, t2.scenario[s])
<1>1. t.scenario[s] \in ScenarioType /\ t2.scenario[s] \in ScenarioType
  BY TreeHolds DEF Later
<1> QED
  BY <1>1, OlderLater DEF Later

\* A manifest claims nothing that an edit could take back.
LEMMA FiledLater ==
  ASSUME NEW t, NEW t2, Later(t, t2), NEW doc, Filed(doc, t)
  PROVE  Filed(doc, t2)
<1>1. ~doc.goldens => /\ doc.scenario \in ScenarioType
                      /\ Older(doc.source.scenario, doc.scenario)
                      /\ Older(doc.scenario, t2.scenario[Gust])
  BY ReadBefore, GustAssumption DEF Filed
<1>2. ASSUME NEW c \in DOMAIN doc.cases, doc.cases[c].eligible
      PROVE  Proper(c, doc.cases[c], doc, t2)
  <2>1. Proper(c, doc.cases[c], doc, t)
    BY <1>2 DEF Filed
  <2>2. doc.goldens => Older(doc.cases[c].scenario, t2.scenario[c])
    BY <2>1, ReadBefore DEF Proper
  <2> QED
    BY <2>1, <2>2 DEF Proper
<1> QED
  BY <1>1, <1>2 DEF Filed

\* Nor a validator: the entry's scenario, once it is no longer the tree's, is
\* never the tree's again.
LEMMA CheckLater ==
  ASSUME NEW t, NEW t2, Later(t, t2), NEW k, NEW a, CheckOk(k, a, t)
  PROVE  CheckOk(k, a, t2)
<1> SUFFICES ASSUME k.pc # "idle" PROVE CheckOk(k, a, t2)
  BY DEF CheckOk
<1>1. Filed(k.doc, t2)
  BY FiledLater DEF CheckOk
<1>2. ASSUME k.pc = "entry", k.doc.cases[k.case].scenario = t2.scenario[k.case]
      PROVE  SameTrace(k.doc.cases[k.case])
  <2> DEFINE c == k.case
             e == k.doc.cases[c]
  <2>1. k.doc.goldens /\ c \in DOMAIN k.doc.cases /\ e.eligible
    BY <1>2 DEF CheckOk
  <2>2. Filed(k.doc, t)
    BY DEF CheckOk
  <2>3. Proper(c, e, k.doc, t)
    BY <2>1, <2>2 DEF Filed
  <2>4. /\ c \in Scenarios /\ e.scenario \in ScenarioType /\ Older(e.scenario, t.scenario[c])
        /\ Older(t.scenario[c], t2.scenario[c]) /\ t.scenario[c] \in ScenarioType
    BY <2>1, <2>3, TreeHolds DEF Proper, Later
  <2>5. e.scenario = t.scenario[c]
    BY <1>2, <2>4, OlderSame
  <2> QED
    BY <1>2, <2>5 DEF CheckOk
<1> QED
  BY <1>1, <1>2 DEF CheckOk

\* A run's claims survive edits and rebuilds: versions only grow.
LEMMA OkLater ==
  ASSUME NEW r, NEW p, NEW u, NEW a, NEW t, NEW b \in Nat, RunOk(r, p, u, a, t, b),
         NEW t2, NEW b2 \in Nat, Later(t, t2), b <= b2
  PROVE  RunOk(r, p, u, a, t2, b2)
<1>1. t.sim \in Nat /\ t2.sim \in Nat /\ t.sim <= t2.sim
  BY TreeHolds DEF Later
<1>2. RunType(u) /\ u.binary \in Nat /\ u.sim \in Nat
  BY DEF RunOk, RunType
<1>3. Sourced(p, u, t2)
  <2> SUFFICES ASSUME p \notin {"idle", "source"} PROVE Sourced(p, u, t2)
    BY DEF Sourced
  <2>1. /\ u.source \in SourceType /\ u.source.sim <= t.sim
        /\ Older(u.source.scenario, t.scenario[Gust])
    BY DEF RunOk, Sourced
  <2>2. u.source.sim \in Nat /\ u.source.scenario \in ScenarioType
    BY <2>1 DEF SourceType
  <2>3. u.source.sim <= t2.sim
    BY <1>1, <2>1, <2>2
  <2>4. Older(u.source.scenario, t2.scenario[Gust])
    BY <2>1, <2>2, ReadBefore, GustAssumption
  <2> QED
    BY <2>1, <2>3, <2>4 DEF Sourced
<1>4. Pinned(r, p, u, t2, b2)
  BY <1>1, <1>2 DEF RunOk, Pinned
<1>5. ASSUME NEW x, NEW s, NEW c \in Declared(r), Between(Golden(r), c, x, s, t)
      PROVE  Between(Golden(r), c, x, s, t2)
  <2>1. x \in RanType /\ x.sim \in Nat /\ x.scenario \in ScenarioType
    BY <1>5 DEF Between, RanType
  <2>2. x.sim <= t2.sim
    BY <1>1, <1>5, <2>1 DEF Between
  <2>3. Older(x.scenario, t2.scenario[ScenarioOf(Golden(r), c)])
    BY <1>5, <2>1, ReadBefore, CaseHolds DEF Between
  <2> QED
    BY <1>5, <2>2, <2>3 DEF Between
<1>6. Underway(r, p, u, a, t2, b2)
  <2> SUFFICES ASSUME p \in {"vehicle", "running", "inspect", "entry"}
               PROVE  Underway(r, p, u, a, t2, b2)
    BY DEF Underway
  <2>1. u.case \in Declared(r) /\ a[u.case] \in ArtType /\ a[u.case].ran.binary \in Nat
    BY DEF RunOk, Underway, ArtType, RanType
  <2>2. a[u.case].ran.binary <= b2
    BY <2>1 DEF RunOk, Underway
  <2>3. p # "vehicle" => Between(Golden(r), u.case, a[u.case].ran, u.source, t2)
    BY <1>5, <2>1 DEF RunOk, Underway
  <2> QED
    BY <2>2, <2>3 DEF RunOk, Underway
<1>7. Done(r, p, u, t2)
  <2>1. ASSUME NEW c \in DOMAIN u.done, u.done[c].eligible
        PROVE  EntryOk(r, c, u.done[c], u, t2)
    <3>1. c \in Declared(r) /\ EntryOk(r, c, u.done[c], u, t)
      BY <2>1 DEF RunOk, Done
    <3>2. Golden(r) => Named(c, u.done[c].scenario, u.source, t2)
      BY <3>1, ReadBefore DEF EntryOk, Named, Declared
    <3> QED
      BY <1>5, <3>1, <3>2 DEF EntryOk
  <2> QED
    BY <2>1 DEF RunOk, Done
<1>8. p \in {"validate", "write", "fill"} => Filed(u.doc, t2)
  BY FiledLater DEF RunOk
<1> QED
  BY <1>2, <1>3, <1>4, <1>6, <1>7, <1>8 DEF RunOk

\* Altering an artifact changes no claim that the invariant makes of it.
LEMMA OkAltered ==
  ASSUME NEW r, NEW p, NEW u, NEW a, NEW t, NEW b, RunOk(r, p, u, a, t, b),
         NEW c \in Units, a[c] # Nothing, NEW x, x = [a[c] EXCEPT !.altered = TRUE],
         NEW a2, a2 = [a EXCEPT ![c] = x]
  PROVE  RunOk(r, p, u, a2, t, b)
<1>1. a \in ArtsType /\ a[c] \in ArtType
  BY DEF RunOk, ArtsType
<1>2. /\ x \in ArtType /\ x.attempt = a[c].attempt /\ x.ran = a[c].ran /\ x.replay = a[c].replay
      /\ x.altered = TRUE
  BY <1>1 DEF ArtType
<1>3. a2 \in ArtsType /\ a2[c] = x
      /\ \A d \in Units : d # c => a2[d] = a[d]
  BY <1>1, <1>2 DEF ArtsType
<1>4. Underway(r, p, u, a2, t, b)
  <2> SUFFICES ASSUME p \in {"vehicle", "running", "inspect", "entry"}
               PROVE  Underway(r, p, u, a2, t, b)
    BY DEF Underway
  <2>1. u.case \in Units
    BY CaseHolds DEF RunOk, Underway
  <2>2. CASE u.case = c
    BY <1>2, <1>3, <2>2 DEF RunOk, Underway
  <2>3. CASE u.case # c
    BY <1>3, <2>1, <2>3 DEF RunOk, Underway
  <2> QED
    BY <2>2, <2>3
<1> QED
  BY <1>3, <1>4 DEF RunOk

-----------------------------------------------------------------------------
(* What a run does itself. *)

\* The locals of a run that has not taken a digest.
Blank(w, k, path, cases) ==
    /\ w = [f \in RunFields |-> w[f]]
    /\ w.attempt = k /\ w.path = path /\ w.cases = cases
    /\ w.binary = 0 /\ w.sim = 0 /\ w.done = <<>>

\* A run that is idle, or begins, claims nothing.
LEMMA OkBlank ==
  ASSUME NEW r, NEW p \in {"idle", "source"}, NEW a \in ArtsType,
         NEW t, NEW b, NEW k \in Nat, NEW path \in Paths, NEW cases \in SUBSET Declared(r),
         NEW w, Blank(w, k, path, cases)
  PROVE  RunOk(r, p, w, a, t, b)
<1>1. DOMAIN <<>> = {}
  OBVIOUS
<1>2. RunType(w) /\ w.cases \subseteq Declared(r)
  BY DEF RunType, Blank
<1>3. Done(r, p, w, t)
  BY <1>1 DEF Done, Blank
<1> QED
  BY <1>2, <1>3 DEF RunOk, Sourced, Pinned, Underway

\* The source digest is taken.
LEMMA OkSource ==
  ASSUME NEW r, NEW u, NEW a, NEW t \in TreeType, NEW b, RunOk(r, "source", u, a, t, b),
         NEW s \in SourceType, s.sim = t.sim, s.scenario = t.scenario[Gust],
         NEW w, Set(u, w, "source", s)
  PROVE  RunOk(r, IF Golden(r) THEN "cases" ELSE "binary", w, a, t, b)
<1> DEFINE p == IF Golden(r) THEN "cases" ELSE "binary"
<1>1. t.sim \in Nat
  BY TreeHolds
<1>2. RunType(u) /\ u.done = <<>> /\ u.cases \subseteq Declared(r) /\ a \in ArtsType
  BY DEF RunOk, Done
<1>3. /\ w = [f \in RunFields |-> w[f]] /\ w.source = s /\ w.attempt = u.attempt
      /\ w.path = u.path /\ w.cases = u.cases /\ w.binary = u.binary /\ w.sim = u.sim
      /\ w.done = u.done
  BY DEF Set, RunFields
<1>4. RunType(w)
  BY <1>2, <1>3 DEF RunType
<1>5. Sourced(p, w, t) /\ Pinned(r, p, w, t, b) /\ Underway(r, p, w, a, t, b)
  BY <1>1, <1>3 DEF Sourced, Pinned, Underway, Golden, Older
<1>6. DOMAIN <<>> = {}
  OBVIOUS
<1>7. Done(r, p, w, t)
  BY <1>2, <1>3, <1>6 DEF Done
<1> QED
  BY <1>2, <1>3, <1>4, <1>5, <1>7 DEF RunOk

\* The binary's digest is taken.
LEMMA OkBinary ==
  ASSUME NEW r, NEW u, NEW a, NEW t, NEW b \in Nat, RunOk(r, "binary", u, a, t, b),
         NEW w, Set(u, w, "binary", b)
  PROVE  RunOk(r, "sim", w, a, t, b)
<1>1. RunType(u) /\ u.done = <<>> /\ u.cases \subseteq Declared(r) /\ a \in ArtsType
  BY DEF RunOk, Done
<1>2. /\ w = [f \in RunFields |-> w[f]] /\ w.source = u.source /\ w.attempt = u.attempt
      /\ w.path = u.path /\ w.cases = u.cases /\ w.binary = b /\ w.sim = u.sim
      /\ w.done = u.done
  BY DEF Set, RunFields
<1>3. RunType(w)
  BY <1>1, <1>2 DEF RunType
<1>4. Sourced("sim", w, t) /\ Pinned(r, "sim", w, t, b) /\ Underway(r, "sim", w, a, t, b)
  BY <1>2 DEF RunOk, Sourced, Pinned, Underway
<1>5. DOMAIN <<>> = {}
  OBVIOUS
<1>6. Done(r, "sim", w, t)
  BY <1>1, <1>2, <1>5 DEF Done
<1> QED
  BY <1>1, <1>2, <1>3, <1>4, <1>6 DEF RunOk

\* The simulator's digest is taken.
LEMMA OkSim ==
  ASSUME NEW r, NEW u, NEW a, NEW t \in TreeType, NEW b, RunOk(r, "sim", u, a, t, b),
         NEW w, Set(u, w, "sim", t.sim)
  PROVE  RunOk(r, "cases", w, a, t, b)
<1>1. RunType(u) /\ u.done = <<>> /\ t.sim \in Nat /\ u.cases \subseteq Declared(r) /\ a \in ArtsType
  BY DEF RunOk, Done, TreeType
<1>2. /\ w = [f \in RunFields |-> w[f]] /\ w.source = u.source /\ w.attempt = u.attempt
      /\ w.path = u.path /\ w.cases = u.cases /\ w.binary = u.binary /\ w.sim = t.sim
      /\ w.done = u.done
  BY DEF Set, RunFields
<1>3. RunType(w)
  BY <1>1, <1>2 DEF RunType
<1>4. Sourced("cases", w, t) /\ Pinned(r, "cases", w, t, b) /\ Underway(r, "cases", w, a, t, b)
  BY <1>1, <1>2 DEF RunOk, Sourced, Pinned, Underway
<1>5. DOMAIN <<>> = {}
  OBVIOUS
<1>6. Done(r, "cases", w, t)
  BY <1>1, <1>2, <1>5 DEF Done
<1> QED
  BY <1>1, <1>2, <1>3, <1>4, <1>6 DEF RunOk

\* Between the digests and the document.
Working == {"cases", "vehicle", "running", "inspect", "entry"}

\* An entry is added that is not eligible, or is what it claims.
LEMMA OkEntry ==
  ASSUME NEW r, NEW p \in Working, NEW u, NEW a, NEW t, NEW b, RunOk(r, p, u, a, t, b),
         NEW c \in Declared(r), NEW e, NEW w, Set(u, w, "done", WithCase(u.done, c, e)),
         e.eligible => EntryOk(r, c, e, u, t)
  PROVE  RunOk(r, "cases", w, a, t, b)
<1> DEFINE d == WithCase(u.done, c, e)
<1>1. RunType(u) /\ u.cases \subseteq Declared(r) /\ a \in ArtsType
  BY DEF RunOk
<1>2. /\ w = [f \in RunFields |-> w[f]] /\ w.source = u.source /\ w.attempt = u.attempt
      /\ w.path = u.path /\ w.cases = u.cases /\ w.binary = u.binary /\ w.sim = u.sim
      /\ w.done = d
  BY DEF Set, RunFields
<1>3. RunType(w)
  BY <1>1, <1>2 DEF RunType
<1>4. Sourced("cases", w, t) /\ Pinned(r, "cases", w, t, b) /\ Underway(r, "cases", w, a, t, b)
  BY <1>2 DEF RunOk, Sourced, Pinned, Underway, Working
<1>5. /\ \A x \in DOMAIN d : x = c \/ x \in DOMAIN u.done
      /\ \A x \in DOMAIN d : x # c => d[x] = u.done[x]
      /\ c \in DOMAIN d => d[c] = e
  BY DEF WithCase
<1> HIDE DEF d
<1>6. Done(r, "cases", w, t)
  <2>1. ASSUME NEW x \in DOMAIN d
        PROVE  x \in Declared(r) /\ (d[x].eligible => EntryOk(r, x, d[x], u, t))
    <3>1. CASE x = c
      BY <1>5, <3>1
    <3>2. CASE x # c
      BY <1>5, <3>2 DEF RunOk, Done
    <3> QED
      BY <3>1, <3>2
  <2>2. ASSUME NEW x \in DOMAIN d, EntryOk(r, x, d[x], u, t) PROVE EntryOk(r, x, d[x], w, t)
    BY <1>2, <2>2 DEF EntryOk
  <2> QED
    BY <1>2, <2>1, <2>2 DEF Done
<1> QED
  BY <1>1, <1>2, <1>3, <1>4, <1>6 DEF RunOk

\* A case is started: its artifact is of this attempt and of the binary of now.
LEMMA OkVehicle ==
  ASSUME NEW r, NEW u, NEW a, NEW t, NEW b \in Nat, RunOk(r, "cases", u, a, t, b),
         NEW c \in Declared(r), NEW w, Set(u, w, "case", c), NEW a2,
         a2 = [a EXCEPT ![c] = [attempt |-> u.attempt, altered |-> FALSE,
                                ran |-> [binary |-> b, sim |-> 0, scenario |-> NoScenario],
                                replay |-> Nothing]]
  PROVE  RunOk(r, "vehicle", w, a2, t, b)
<1> DEFINE ran == [binary |-> b, sim |-> 0, scenario |-> NoScenario]
           x == [attempt |-> u.attempt, altered |-> FALSE, ran |-> ran, replay |-> Nothing]
<1>1. /\ RunType(u) /\ u.attempt \in Nat /\ a \in ArtsType /\ u.binary \in Nat
      /\ u.cases \subseteq Declared(r) /\ c \in Units
  BY CaseHolds DEF RunOk, RunType
<1>2. /\ w = [f \in RunFields |-> w[f]] /\ w.source = u.source /\ w.attempt = u.attempt
      /\ w.path = u.path /\ w.cases = u.cases /\ w.binary = u.binary /\ w.sim = u.sim
      /\ w.done = u.done /\ w.case = c
  BY DEF Set, RunFields
<1>3. RunType(w)
  BY <1>1, <1>2 DEF RunType
<1>4. ran \in RanType /\ ran.binary = b
  BY DEF RanType, NoScenario, ScenarioType
<1> HIDE DEF ran
<1>5. x \in ArtType /\ x.attempt = u.attempt /\ x.ran = ran
  BY <1>1, <1>4 DEF ArtType
<1>6. a2 \in ArtsType /\ a2[c] = x
  <2>1. a2 = [a EXCEPT ![c] = x]
    BY DEF ran
  <2> HIDE DEF x
  <2> QED
    BY <1>1, <1>5, <2>1 DEF ArtsType
<1> HIDE DEF x
<1>7. Sourced("vehicle", w, t) /\ Pinned(r, "vehicle", w, t, b)
  BY <1>2 DEF RunOk, Sourced, Pinned
<1>8. Underway(r, "vehicle", w, a2, t, b)
  <2>1. r \notin Goldens => u.binary <= b
    BY DEF RunOk, Pinned
  <2>2. /\ w.case = c /\ a2[w.case] = x /\ x \in ArtType /\ x.attempt = w.attempt
        /\ x.ran.binary = b /\ w.binary = u.binary /\ b <= b
    BY <1>2, <1>4, <1>5, <1>6
  <2> QED
    BY <2>1, <2>2 DEF Underway
<1>9. Done(r, "vehicle", w, t)
  BY <1>2 DEF RunOk, Done, EntryOk
<1> QED
  BY <1>1, <1>2, <1>3, <1>6, <1>7, <1>8, <1>9 DEF RunOk

\* The simulator reads its modules and the scenario.
LEMMA OkSimulator ==
  ASSUME NEW r, NEW u, NEW a, NEW t \in TreeType, NEW b, RunOk(r, "vehicle", u, a, t, b),
         NEW v, v = t.scenario[ScenarioOf(Golden(r), u.case)],
         NEW y, y = [a[u.case].ran EXCEPT !.sim = t.sim, !.scenario = v],
         NEW x, x = [a[u.case] EXCEPT !.ran = y], NEW a2, a2 = [a EXCEPT ![u.case] = x]
  PROVE  RunOk(r, "running", u, a2, t, b)
<1>1. /\ a \in ArtsType /\ u.case \in Declared(r) /\ a[u.case] \in ArtType
      /\ a[u.case].ran \in RanType /\ t.sim \in Nat
  BY DEF RunOk, Underway, TreeType, ArtType
<1>2. u.case \in Units /\ v \in ScenarioType
  BY <1>1, CaseHolds, TreeHolds
<1>3. y \in RanType /\ y.binary = a[u.case].ran.binary /\ y.sim = t.sim /\ y.scenario = v
  BY <1>1, <1>2 DEF RanType
<1>4. x \in ArtType /\ x.attempt = a[u.case].attempt /\ x.ran = y
  BY <1>1, <1>3 DEF ArtType
<1>5. a2 \in ArtsType /\ a2[u.case] = x
  BY <1>1, <1>2, <1>4 DEF ArtsType
<1>6. Sourced("running", u, t) /\ Pinned(r, "running", u, t, b) /\ Done(r, "running", u, t)
  BY DEF RunOk, Sourced, Pinned, Done
<1>7. Between(Golden(r), u.case, y, u.source, t)
  <2>1. u.source.sim <= t.sim /\ t.sim <= t.sim /\ Older(u.source.scenario, t.scenario[Gust])
    BY <1>1, <1>6 DEF Sourced
  <2> QED
    BY <1>3, <2>1 DEF Between, Older
<1>8. Underway(r, "running", u, a2, t, b)
  BY <1>1, <1>3, <1>4, <1>5, <1>7 DEF RunOk, Underway
<1> QED
  BY <1>4, <1>5, <1>6, <1>8 DEF RunOk

\* The replay file is written.
LEMMA OkReplay ==
  ASSUME NEW r, NEW u, NEW a, NEW t \in TreeType, NEW b \in Nat, RunOk(r, "running", u, a, t, b),
         NEW v, v = t.scenario[ScenarioOf(Golden(r), u.case)],
         NEW y, y = [binary |-> b, sim |-> t.sim, scenario |-> v],
         NEW x, x = [a[u.case] EXCEPT !.replay = y], NEW a2, a2 = [a EXCEPT ![u.case] = x]
  PROVE  RunOk(r, "inspect", u, a2, t, b)
<1>1. a \in ArtsType /\ u.case \in Declared(r) /\ a[u.case] \in ArtType /\ t.sim \in Nat
  BY DEF RunOk, Underway, TreeType
<1>2. u.case \in Units /\ v \in ScenarioType
  BY <1>1, CaseHolds, TreeHolds
<1>3. y \in RanType /\ y.binary = b
  BY <1>1, <1>2 DEF RanType
<1>4. /\ x \in ArtType /\ x.attempt = a[u.case].attempt /\ x.ran = a[u.case].ran /\ x.replay = y
  BY <1>1, <1>3 DEF ArtType
<1>5. a2 \in ArtsType /\ a2[u.case] = x
  BY <1>1, <1>2, <1>4 DEF ArtsType
<1>6. Sourced("inspect", u, t) /\ Pinned(r, "inspect", u, t, b) /\ Done(r, "inspect", u, t)
  BY DEF RunOk, Sourced, Pinned, Done
<1>7. Underway(r, "inspect", u, a2, t, b)
  <2>1. /\ a[u.case].attempt = u.attempt /\ (r \notin Goldens => u.binary <= a[u.case].ran.binary)
        /\ a[u.case].ran.binary <= b
        /\ Between(Golden(r), u.case, a[u.case].ran, u.source, t)
    BY DEF RunOk, Underway
  <2> QED
    BY <1>1, <1>3, <1>4, <1>5, <2>1 DEF Underway
<1> QED
  BY <1>1, <1>5, <1>6, <1>7 DEF RunOk

\* An inspected case is what it claims: its binary lies between the digest the
\* run took and the replay's, which are equal.
LEMMA OkInspected ==
  ASSUME NEW r, NEW u, NEW a, NEW t, NEW b, RunOk(r, "inspect", u, a, t, b),
         Identified(Golden(r), a[u.case], u)
  PROVE  /\ a[u.case].attempt = u.attempt
         /\ Between(Golden(r), u.case, a[u.case].ran, u.source, t)
         /\ ~Golden(r) => a[u.case].ran.binary = u.binary
<1>1. /\ a[u.case] \in ArtType /\ u.binary \in Nat /\ a[u.case].replay \in RanType
      /\ a[u.case].ran.binary \in Nat /\ a[u.case].replay.binary \in Nat
  BY DEF RunOk, RunType, Underway, ArtType, RanType
<1>2. r \notin Goldens =>
        /\ u.binary <= a[u.case].ran.binary
        /\ a[u.case].ran.binary <= a[u.case].replay.binary
        /\ a[u.case].replay.binary = u.binary
  BY DEF RunOk, Underway, Identified, Golden
<1>3. r \notin Goldens => a[u.case].ran.binary = u.binary
  BY <1>1, <1>2
<1> QED
  BY <1>3 DEF RunOk, Underway, Golden

\* A golden case that was inspected awaits its entry.
LEMMA OkAwaits ==
  ASSUME NEW r, NEW u, NEW a, NEW t, NEW b, RunOk(r, "inspect", u, a, t, b), Golden(r)
  PROVE  RunOk(r, "entry", u, a, t, b)
<1>1. Sourced("entry", u, t) /\ Pinned(r, "entry", u, t, b) /\ Done(r, "entry", u, t)
  BY DEF RunOk, Sourced, Pinned, Done
<1>2. Underway(r, "entry", u, a, t, b)
  BY DEF RunOk, Underway
<1> QED
  BY <1>1, <1>2 DEF RunOk

\* The sources, hashed again, are what they were: everything in between saw them.
LEMMA OkHeld ==
  ASSUME NEW r, NEW u, NEW a, NEW t \in TreeType, NEW b, RunOk(r, "cases", u, a, t, b),
         u.source.sim = t.sim, u.source.scenario = t.scenario[Gust],
         NEW c \in DOMAIN u.done, u.done[c].eligible
  PROVE  /\ u.done[c].attempt = u.attempt /\ u.done[c].ran.sim = u.source.sim
         /\ ScenarioOf(Golden(r), c) = Gust => u.done[c].ran.scenario = u.source.scenario
         /\ ~Golden(r) => u.done[c].ran.binary = u.binary /\ u.sim = u.source.sim
         /\ Golden(r) => /\ c \in Scenarios /\ u.done[c].scenario \in ScenarioType
                         /\ Older(u.done[c].scenario, t.scenario[c])
                         /\ c = Gust => u.done[c].scenario = u.source.scenario
<1> DEFINE e == u.done[c]
<1>1. c \in Declared(r) /\ EntryOk(r, c, e, u, t)
  BY DEF RunOk, Done
<1>2. t.sim \in Nat /\ t.scenario[Gust] \in ScenarioType /\ u.sim \in Nat
  BY TreeHolds DEF RunOk, RunType
<1>3. e.ran.sim \in Nat /\ e.ran.scenario \in ScenarioType
  BY <1>1 DEF EntryOk, Between, RanType
<1>4. e.ran.sim = u.source.sim
  BY <1>1, <1>2, <1>3 DEF EntryOk, Between
<1>5. ScenarioOf(Golden(r), c) = Gust => e.ran.scenario = u.source.scenario
  BY <1>1, <1>2, <1>3, OlderSame DEF EntryOk, Between
<1>6. ~Golden(r) => u.sim = u.source.sim
  BY <1>2 DEF RunOk, Pinned, Golden
<1>7. Golden(r) => /\ c \in Scenarios /\ e.scenario \in ScenarioType
                   /\ Older(e.scenario, t.scenario[c])
                   /\ c = Gust => e.scenario = u.source.scenario
  BY <1>1, <1>2, OlderSame DEF EntryOk, Named, Declared
<1> QED
  BY <1>1, <1>4, <1>5, <1>6, <1>7 DEF EntryOk

\* The fields of a document.
DocumentIs(doc, r, u, scenario) ==
    /\ doc.class = Lane(r) /\ doc.by = r /\ doc.goldens = Golden(r) /\ doc.source = u.source
    /\ doc.binary = u.binary /\ doc.sim = u.sim /\ doc.scenario = scenario
    /\ doc.cases = u.done /\ doc.attempt = u.attempt

\* A document claims nothing false when its entries do not.
LEMMA OkFiled ==
  ASSUME NEW r, NEW p, NEW u, NEW a, NEW t, NEW b, RunOk(r, p, u, a, t, b),
         p \in {"cases", "document"},
         NEW doc, NEW scenario, DocumentIs(doc, r, u, scenario), Filed(doc, t),
         NEW w, Set(u, w, "doc", doc), NEW q \in {"validate", "write"}
  PROVE  RunOk(r, q, w, a, t, b)
<1>1. RunType(u) /\ u.cases \subseteq Declared(r) /\ a \in ArtsType
  BY DEF RunOk
<1>2. /\ w = [f \in RunFields |-> w[f]] /\ w.source = u.source /\ w.attempt = u.attempt
      /\ w.path = u.path /\ w.cases = u.cases /\ w.binary = u.binary /\ w.sim = u.sim
      /\ w.done = u.done /\ w.doc = doc
  BY DEF Set, RunFields
<1>3. RunType(w)
  BY <1>1, <1>2 DEF RunType
<1>4. Sourced(q, w, t) /\ Pinned(r, q, w, t, b) /\ Underway(r, q, w, a, t, b)
  BY <1>2 DEF RunOk, Sourced, Pinned, Underway
<1>5. Done(r, q, w, t)
  BY <1>2 DEF RunOk, Done, EntryOk
<1> QED
  BY <1>1, <1>2, <1>3, <1>4, <1>5 DEF RunOk

\* The goldens' document, drawn up when the sources held.
LEMMA OkGoldens ==
  ASSUME NEW r, NEW u, NEW a, NEW t \in TreeType, NEW b, RunOk(r, "cases", u, a, t, b),
         u.source.sim = t.sim, u.source.scenario = t.scenario[Gust], Golden(r),
         NEW doc, DocumentIs(doc, r, u, Nothing)
  PROVE  Filed(doc, t)
<1>1. ASSUME NEW c \in DOMAIN doc.cases, doc.cases[c].eligible
      PROVE  Proper(c, doc.cases[c], doc, t)
  <2>1. /\ u.done[c].attempt = u.attempt /\ u.done[c].ran.sim = u.source.sim
        /\ c = Gust => u.done[c].ran.scenario = u.source.scenario
        /\ c \in Scenarios /\ u.done[c].scenario \in ScenarioType
        /\ Older(u.done[c].scenario, t.scenario[c])
        /\ c = Gust => u.done[c].scenario = u.source.scenario
    BY <1>1, OkHeld DEF DocumentIs, ScenarioOf
  <2> QED
    BY <2>1 DEF DocumentIs, Proper
<1> QED
  BY <1>1 DEF Filed, DocumentIs, RunOk, Sourced

\* A campaign's document, which names the scenario of this moment.
LEMMA OkNamed ==
  ASSUME NEW r, NEW u, NEW a, NEW t \in TreeType, NEW b, RunOk(r, "document", u, a, t, b),
         NEW doc, DocumentIs(doc, r, u, t.scenario[Gust])
  PROVE  Filed(doc, t)
<1>1. ASSUME NEW c \in DOMAIN doc.cases, doc.cases[c].eligible
      PROVE  Proper(c, doc.cases[c], doc, t)
  BY <1>1 DEF RunOk, Settled, DocumentIs, Proper
<1>2. t.scenario[Gust] \in ScenarioType
  BY TreeHolds
<1> QED
  BY <1>1, <1>2 DEF Filed, DocumentIs, RunOk, Sourced, Settled, Older

\* A campaign's cases, kept when the sources held ...
LEMMA OkKept ==
  ASSUME NEW r, NEW u, NEW a, NEW t \in TreeType, NEW b, RunOk(r, "cases", u, a, t, b),
         u.source.sim = t.sim, u.source.scenario = t.scenario[Gust], ~Golden(r)
  PROVE  RunOk(r, "document", u, a, t, b)
<1>1. Settled(r, u)
  BY OkHeld DEF Settled, ScenarioOf
<1>2. Sourced("document", u, t) /\ Pinned(r, "document", u, t, b) /\ Underway(r, "document", u, a, t, b)
  BY DEF RunOk, Sourced, Pinned, Underway
<1>3. Done(r, "document", u, t)
  BY DEF RunOk, Done
<1> QED
  BY <1>1, <1>2, <1>3 DEF RunOk

\* ... and withdrawn when not.
LEMMA OkWithdrawn ==
  ASSUME NEW r, NEW u, NEW a, NEW t, NEW b, RunOk(r, "cases", u, a, t, b), ~Golden(r),
         NEW d, d = [c \in DOMAIN u.done |-> [eligible |-> FALSE]],
         NEW w, Set(u, w, "done", d)
  PROVE  RunOk(r, "document", w, a, t, b)
<1>1. RunType(u) /\ u.cases \subseteq Declared(r) /\ a \in ArtsType
  BY DEF RunOk
<1>2. /\ w = [f \in RunFields |-> w[f]] /\ w.source = u.source /\ w.attempt = u.attempt
      /\ w.path = u.path /\ w.cases = u.cases /\ w.binary = u.binary /\ w.sim = u.sim
      /\ w.done = d
  BY DEF Set, RunFields
<1>3. RunType(w)
  BY <1>1, <1>2 DEF RunType
<1>4. DOMAIN d = DOMAIN u.done /\ \A c \in DOMAIN d : ~d[c].eligible
  OBVIOUS
<1>5. Sourced("document", w, t) /\ Pinned(r, "document", w, t, b) /\ Underway(r, "document", w, a, t, b)
  BY <1>2 DEF RunOk, Sourced, Pinned, Underway
<1>6. Done(r, "document", w, t) /\ Settled(r, w)
  BY <1>2, <1>4 DEF RunOk, Done, Settled
<1> QED
  BY <1>1, <1>2, <1>3, <1>5, <1>6 DEF RunOk

\* A document that was validated, or is being written, stays what it is.
LEMMA OkWriting ==
  ASSUME NEW r, NEW u, NEW a, NEW t, NEW b,
         NEW p \in {"validate", "write"}, NEW q \in {"write", "fill"}, RunOk(r, p, u, a, t, b)
  PROVE  RunOk(r, q, u, a, t, b)
<1>1. Sourced(q, u, t) /\ Pinned(r, q, u, t, b) /\ Underway(r, q, u, a, t, b)
  BY DEF RunOk, Sourced, Pinned, Underway
<1>2. Done(r, q, u, t)
  BY DEF RunOk, Done
<1> QED
  BY <1>1, <1>2 DEF RunOk

-----------------------------------------------------------------------------
(* The invariant. *)

\* At the start nothing is claimed.
LEMMA CampaignStarts ==
  Init => CampaignInv
<1> SUFFICES ASSUME Init PROVE CampaignInv
  OBVIOUS
<1>1. tree \in TreeType /\ binary \in Nat /\ binary <= tree.cpp
  BY DEF Init, TreeType, ScenarioType
<1>2. CampaignType
  BY <1>1 DEF Init, CampaignType, Points, ArtsType
<1>3. ASSUME NEW r \in Runs PROVE RunOk(r, pc[r], run[r], art[r], tree, binary)
  <2>1. pc[r] = "idle" /\ run[r] = Idle /\ art[r] \in ArtsType
    BY <1>2 DEF Init, CampaignType
  <2>2. "elsewhere" \in Paths /\ {} \in SUBSET Declared(r)
    BY DEF Paths
  <2>3. Blank(Idle, 0, "elsewhere", {})
    BY DEF Blank, Idle, RunFields
  <2>4. RunOk(r, "idle", Idle, art[r], tree, binary)
    BY <2>1, <2>2, <2>3, OkBlank
  <2> QED
    BY <2>1, <2>4
<1>4. Honest(manifest, tree) /\ Filling(pc, run, manifest)
  BY DEF Init, Honest, Filling
<1>5. CheckOk(check, art, tree)
  BY DEF Init, CheckOk, NoCheck
<1> QED
  BY <1>2, <1>3, <1>4, <1>5 DEF CampaignInv

\* A validator's claims survive what the runs do, because no artifact that was
\* altered is made whole.
LEMMA CheckStays ==
  ASSUME NEW k, NEW a, NEW t, CheckOk(k, a, t), NEW a2,
         \A q \in Runs, c \in Units : Spoilt(a[q][c]) => Spoilt(a2[q][c])
  PROVE  CheckOk(k, a2, t)
<1> SUFFICES ASSUME k.pc # "idle", ~k.current
             PROVE  \A c \in k.spoilt : Spoilt(a2[k.root][c])
  BY DEF CheckOk
<1> QED
  BY DEF CheckOk

\* A step of one run: the others keep their claims, and it has its own.
LEMMA RunMoves ==
  ASSUME CampaignInv, NEW r \in Runs, tree' = tree, binary' = binary, check' = check,
         NEW p \in Points, pc' = [pc EXCEPT ![r] = p],
         NEW w, run' = [run EXCEPT ![r] = w],
         NEW x, art' = [art EXCEPT ![r] = x],
         \A c \in Units : Spoilt(art[r][c]) => Spoilt(x[c]),
         RunOk(r, p, w, x, tree, binary),
         \/ manifest' = manifest /\ p # "fill"
         \/ Honest(manifest', tree) /\ Filling(pc', run', manifest')
  PROVE  CampaignInv'
<1>1. CampaignType
  BY DEF CampaignInv
<1>2. x \in ArtsType
  BY DEF RunOk
<1>3. /\ run' = [q \in Runs |-> run'[q]] /\ run'[r] = w
      /\ \A q \in Runs : q # r => run'[q] = run[q]
  BY RunSet
<1>4. /\ pc' \in [Runs -> Points] /\ pc'[r] = p
      /\ \A q \in Runs : q # r => pc'[q] = pc[q]
  BY <1>1 DEF CampaignType
<1>5. /\ art' \in [Runs -> ArtsType] /\ art'[r] = x
      /\ \A q \in Runs : q # r => art'[q] = art[q]
  BY <1>1, <1>2 DEF CampaignType
<1>6. Honest(manifest', tree) /\ Filling(pc', run', manifest')
  <2>1. CASE manifest' = manifest /\ p # "fill"
    <3>1. Honest(manifest, tree) /\ Filling(pc, run, manifest)
      BY DEF CampaignInv
    <3>2. Filling(pc', run', manifest')
      BY <1>3, <1>4, <2>1, <3>1 DEF Filling
    <3> QED
      BY <2>1, <3>1, <3>2
  <2> QED
    BY <2>1
<1>7. CampaignType'
  BY <1>1, <1>3, <1>4, <1>5, <1>6 DEF CampaignType, Honest
<1>8. ASSUME NEW q \in Runs PROVE RunOk(q, pc'[q], run'[q], art'[q], tree', binary')
  <2>1. CASE q = r
    BY <1>1, <1>3, <1>4, <1>5, <2>1
  <2>2. CASE q # r
    <3>1. RunOk(q, pc[q], run[q], art[q], tree, binary)
      BY DEF CampaignInv
    <3>2. pc'[q] = pc[q] /\ run'[q] = run[q] /\ art'[q] = art[q]
      BY <1>3, <1>4, <1>5, <2>2
    <3> QED
      BY <1>1, <3>1, <3>2
  <2> QED
    BY <2>1, <2>2
<1>9. CheckOk(check', art', tree')
  <2>1. CheckOk(check, art, tree)
    BY DEF CampaignInv
  <2>2. \A q \in Runs, c \in Units : Spoilt(art[q][c]) => Spoilt(art'[q][c])
    BY <1>5
  <2>3. CheckOk(check, art', tree)
    BY <2>1, <2>2, CheckStays
  <2> QED
    BY <2>3
<1>10. Honest(manifest', tree')
  BY <1>6
<1> QED
  BY <1>6, <1>7, <1>8, <1>9, <1>10 DEF CampaignInv

\* What a step of run r may use.
LEMMA RunKnows ==
  ASSUME CampaignInv, NEW r \in Runs
  PROVE  /\ RunOk(r, pc[r], run[r], art[r], tree, binary) /\ RunType(run[r])
         /\ run[r].cases \subseteq Declared(r) /\ art[r] \in ArtsType
         /\ tree \in TreeType /\ binary \in Nat /\ Honest(manifest, tree)
         /\ art = [art EXCEPT ![r] = art[r]] /\ run = [run EXCEPT ![r] = run[r]]
         /\ run[r] = [f \in RunFields |-> run[r][f]] /\ Filling(pc, run, manifest)
<1>1. RunOk(r, pc[r], run[r], art[r], tree, binary) /\ CampaignType /\ Honest(manifest, tree)
      /\ Filling(pc, run, manifest)
  BY DEF CampaignInv
<1>2. RunType(run[r]) /\ run[r].cases \subseteq Declared(r)
  BY <1>1 DEF RunOk
<1>3. art = [art EXCEPT ![r] = art[r]]
  BY <1>1 DEF CampaignType
<1>4. run = [run EXCEPT ![r] = run[r]]
  BY <1>1 DEF CampaignType
<1>5. art[r] \in ArtsType
  BY <1>1 DEF CampaignType
<1> QED
  BY <1>1, <1>2, <1>3, <1>4, <1>5 DEF CampaignType, RunType

\* A step of one run that leaves the artifacts alone.
LEMMA RunSteps ==
  ASSUME CampaignInv, NEW r \in Runs, tree' = tree, binary' = binary, check' = check,
         art' = art, NEW p \in Points, pc' = [pc EXCEPT ![r] = p],
         NEW w, run' = [run EXCEPT ![r] = w], RunOk(r, p, w, art[r], tree, binary),
         \/ manifest' = manifest /\ p # "fill"
         \/ Honest(manifest', tree) /\ Filling(pc', run', manifest')
  PROVE  CampaignInv'
<1>1. art' = [art EXCEPT ![r] = art[r]]
  BY RunKnows
<1> QED
  BY <1>1, RunMoves

-----------------------------------------------------------------------------
(* One lemma per action. *)

\* The tree is edited or the binary rebuilt: contents only grow, so what every
\* run took, every manifest names and a validator read stays in order.
LEMMA WorldMoves ==
  ASSUME CampaignInv, Later(tree, tree'), binary' \in Nat, binary <= binary',
         binary' <= tree'.cpp, UNCHANGED <<pc, run, art, manifest, check>>
  PROVE  CampaignInv'
<1>1. CampaignType /\ binary \in Nat /\ tree' \in TreeType
  BY DEF CampaignInv, CampaignType, Later
<1>2. CampaignType'
  BY <1>1 DEF CampaignType
<1>3. ASSUME NEW q \in Runs PROVE RunOk(q, pc'[q], run'[q], art'[q], tree', binary')
  <2>1. RunOk(q, pc[q], run[q], art[q], tree, binary)
    BY DEF CampaignInv
  <2>2. RunOk(q, pc[q], run[q], art[q], tree', binary')
    BY <1>1, <2>1, OkLater
  <2> QED
    BY <2>2
<1>4. Honest(manifest', tree') /\ Filling(pc', run', manifest')
  <2>1. Honest(manifest, tree) /\ Filling(pc, run, manifest)
    BY DEF CampaignInv
  <2>2. Honest(manifest, tree')
    BY <2>1, FiledLater DEF Honest
  <2> QED
    BY <2>1, <2>2
<1>5. CheckOk(check', art', tree')
  <2>1. CheckOk(check, art, tree)
    BY DEF CampaignInv
  <2>2. CheckOk(check, art, tree')
    BY <2>1, CheckLater
  <2> QED
    BY <2>2
<1> QED
  BY <1>2, <1>3, <1>4, <1>5 DEF CampaignInv

\* A file of the tree is edited.
LEMMA EditKeeps ==
  ASSUME CampaignInv, Edit
  PROVE  CampaignInv'
<1>1. /\ UNCHANGED <<binary, pc, run, art, manifest, check>>
      /\ tree \in TreeType /\ binary \in Nat /\ binary <= tree.cpp
      /\ tree.cpp \in Nat /\ tree.sim \in Nat /\ tree.scenario \in [Scenarios -> ScenarioType]
  BY DEF CampaignInv, CampaignType, Edit, TreeType
<1> DEFINE Grown == Later(tree, tree') /\ binary <= tree'.cpp
<1>2. ASSUME NEW f \in {"cpp", "sim"}, tree' = [tree EXCEPT ![f] = @ + 1] PROVE Grown
  <2>1. CASE f = "cpp"
    <3>1. tree' \in TreeType /\ tree'.cpp = tree.cpp + 1 /\ tree'.sim = tree.sim
          /\ tree'.scenario = tree.scenario
      BY <1>1, <1>2, <2>1 DEF TreeType
    <3> QED
      BY <1>1, <3>1 DEF Later, Older
  <2>2. CASE f = "sim"
    <3>1. tree' \in TreeType /\ tree'.cpp = tree.cpp /\ tree'.sim = tree.sim + 1
          /\ tree'.scenario = tree.scenario
      BY <1>1, <1>2, <2>2 DEF TreeType
    <3> QED
      BY <1>1, <3>1 DEF Later, Older
  <2> QED
    BY <2>1, <2>2
<1>3. ASSUME NEW s \in Scenarios, NEW v \in Edits(tree.scenario[s]),
             tree' = [tree EXCEPT !.scenario[s] = v]
      PROVE  Grown
  <2>1. tree.scenario[s] \in ScenarioType
    BY <1>1
  <2>2. v \in ScenarioType /\ v.text = tree.scenario[s].text + 1
    BY <1>3, <2>1 DEF Edits, ScenarioType
  <2>3. Older(tree.scenario[s], v)
    BY <2>1, <2>2 DEF Older, ScenarioType
  <2>4. /\ tree'.cpp = tree.cpp /\ tree'.sim = tree.sim /\ tree' \in TreeType
        /\ tree'.scenario = [tree.scenario EXCEPT ![s] = v]
    BY <1>1, <1>3, <2>2 DEF TreeType
  <2>5. \A x \in Scenarios : Older(tree.scenario[x], tree'.scenario[x])
    BY <1>1, <2>3, <2>4 DEF Older
  <2>6. tree.sim <= tree'.sim
    BY <1>1, <2>4
  <2> QED
    BY <1>1, <2>4, <2>5, <2>6 DEF Later
<1>4. Grown
  BY <1>2, <1>3 DEF Edit
<1>5. binary' = binary /\ binary <= binary' /\ UNCHANGED <<pc, run, art, manifest, check>>
  BY <1>1
<1> QED
  BY <1>1, <1>4, <1>5, WorldMoves

\* The vehicle is rebuilt from the tree's sources.
LEMMA RebuildKeeps ==
  ASSUME CampaignInv, Rebuild
  PROVE  CampaignInv'
<1>1. /\ UNCHANGED <<pc, run, art, manifest, check>> /\ binary' = tree.cpp /\ tree' = tree
      /\ tree \in TreeType /\ binary \in Nat /\ binary <= tree.cpp
  BY DEF CampaignInv, CampaignType, Rebuild
<1>2. tree.cpp \in Nat /\ tree.sim \in Nat
  BY <1>1, TreeHolds
<1>3. Later(tree, tree')
  BY <1>1, <1>2 DEF Later, Older
<1> QED
  BY <1>1, <1>2, <1>3, WorldMoves

\* A case's artifact changes behind the runner: nothing the invariant says of
\* the run depends on what was altered.
LEMMA AlterKeeps ==
  ASSUME CampaignInv, Alter
  PROVE  CampaignInv'
<1>1. PICK r \in Runs, c \in Units :
        art[r][c] # Nothing /\ art' = [art EXCEPT ![r][c].altered = TRUE]
  BY DEF Alter
<1>2. /\ RunOk(r, pc[r], run[r], art[r], tree, binary)
      /\ run = [run EXCEPT ![r] = run[r]] /\ art[r] \in ArtsType
  BY RunKnows
<1>3. CampaignType /\ UNCHANGED <<tree, binary, pc, run, manifest, check>>
  BY DEF CampaignInv, Alter
<1> DEFINE x == [art[r][c] EXCEPT !.altered = TRUE]
           a == [art[r] EXCEPT ![c] = x]
<1>4. art' = [art EXCEPT ![r] = a]
  BY <1>1
<1>5. RunOk(r, pc[r], run[r], a, tree, binary) /\ Spoilt(x)
  <2> DEFINE y == x
             b == a
  <2>1. y = [art[r][c] EXCEPT !.altered = TRUE] /\ b = [art[r] EXCEPT ![c] = y]
    OBVIOUS
  <2> HIDE DEF y, b, x, a
  <2>2. RunOk(r, pc[r], run[r], b, tree, binary)
    BY <1>1, <1>2, <2>1, OkAltered
  <2>3. Spoilt(y)
    <3>1. art[r][c] \in ArtType
      BY <1>1, <1>2 DEF ArtsType
    <3>2. y \in ArtType /\ y.altered = TRUE
      BY <2>1, <3>1 DEF ArtType
    <3> QED
      BY <3>2 DEF Spoilt, ArtType, Nothing
  <2> QED
    BY <2>2, <2>3 DEF b, y
<1>6. \A d \in Units : Spoilt(art[r][d]) => Spoilt(a[d])
  <2> HIDE DEF x
  <2> QED
    BY <1>2, <1>5 DEF ArtsType
<1>7. pc' = [pc EXCEPT ![r] = pc[r]] /\ run' = [run EXCEPT ![r] = run[r]] /\ pc[r] \in Points
  BY <1>2, <1>3 DEF CampaignType
<1>8. Honest(manifest', tree) /\ Filling(pc', run', manifest')
  BY <1>3 DEF CampaignInv
<1> HIDE DEF a
<1> QED
  BY <1>3, <1>4, <1>5, <1>6, <1>7, <1>8, RunMoves

\* A run begins: it holds nothing yet, and its path was free or is refused.
LEMMA BeginKeeps ==
  ASSUME CampaignInv, NEW r \in Runs, Begin(r)
  PROVE  CampaignInv'
<1>1. PICK path \in Paths, cases \in SUBSET Declared(r) :
        run' = [run EXCEPT ![r] = [Idle EXCEPT !.attempt = run[r].attempt + 1,
                                               !.path = path, !.cases = cases]]
  BY DEF Begin
<1>2. /\ pc' = [pc EXCEPT ![r] = "source"] /\ tree' = tree /\ binary' = binary
      /\ art' = art /\ manifest' = manifest /\ check' = check
  BY DEF Begin
<1>3. RunType(run[r]) /\ art[r] \in ArtsType
  BY RunKnows
<1> DEFINE k == run[r].attempt + 1
           w == [Idle EXCEPT !.attempt = k, !.path = path, !.cases = cases]
<1>4. k \in Nat
  BY <1>3 DEF RunType
<1>5. run' = [run EXCEPT ![r] = w]
  BY <1>1
<1> HIDE DEF k
<1>6. Blank(w, k, path, cases)
  BY DEF Blank, Idle, RunFields
<1> HIDE DEF w
<1>7. RunOk(r, "source", w, art[r], tree, binary)
  BY <1>3, <1>4, <1>6, OkBlank
<1> QED
  BY <1>2, <1>5, <1>7, RunSteps DEF Points

\* The run digests the sources of this moment.
LEMMA TakeSourceKeeps ==
  ASSUME CampaignInv, NEW r \in Runs, TakeSource(r)
  PROVE  CampaignInv'
<1> DEFINE s == implementation_source
           w == [run[r] EXCEPT !.source = s]
           p == IF Golden(r) THEN "cases" ELSE "binary"
<1>1. /\ RunOk(r, pc[r], run[r], art[r], tree, binary) /\ tree \in TreeType
      /\ run[r] = [f \in RunFields |-> run[r][f]]
  BY RunKnows
<1>2. /\ pc[r] = "source" /\ pc' = [pc EXCEPT ![r] = p] /\ run' = [run EXCEPT ![r] = w]
      /\ tree' = tree /\ binary' = binary /\ art' = art /\ manifest' = manifest
      /\ check' = check
  BY DEF TakeSource, world
<1>3. s \in SourceType /\ s.sim = tree.sim /\ s.scenario = tree.scenario[Gust]
  BY <1>1, SourceHolds
<1> HIDE DEF s
<1>4. Set(run[r], w, "source", s)
  BY <1>1, SetFacts DEF RunFields
<1> HIDE DEF w
<1>5. RunOk(r, p, w, art[r], tree, binary)
  BY <1>1, <1>2, <1>3, <1>4, OkSource
<1>6. p \in Points /\ p # "fill"
  BY DEF Points
<1> HIDE DEF p
<1> QED
  BY <1>2, <1>5, <1>6, RunSteps

\* The run digests the binary of this moment.
LEMMA TakeBinaryKeeps ==
  ASSUME CampaignInv, NEW r \in Runs, TakeBinary(r)
  PROVE  CampaignInv'
<1> DEFINE w == [run[r] EXCEPT !.binary = binary]
<1>1. /\ RunOk(r, pc[r], run[r], art[r], tree, binary) /\ binary \in Nat
      /\ run[r] = [f \in RunFields |-> run[r][f]]
  BY RunKnows
<1>2. /\ pc[r] = "binary" /\ pc' = [pc EXCEPT ![r] = "sim"] /\ run' = [run EXCEPT ![r] = w]
      /\ tree' = tree /\ binary' = binary /\ art' = art /\ manifest' = manifest
      /\ check' = check
  BY DEF TakeBinary, world
<1>3. Set(run[r], w, "binary", binary)
  BY <1>1, SetFacts DEF RunFields
<1> HIDE DEF w
<1>4. RunOk(r, "sim", w, art[r], tree, binary)
  BY <1>1, <1>2, <1>3, OkBinary
<1>5. "sim" \in Points
  BY DEF Points
<1> QED
  BY <1>2, <1>4, <1>5, RunSteps

\* The run digests the simulator of this moment.
LEMMA TakeSimKeeps ==
  ASSUME CampaignInv, NEW r \in Runs, TakeSim(r)
  PROVE  CampaignInv'
<1> DEFINE w == [run[r] EXCEPT !.sim = tree.sim]
<1>1. /\ RunOk(r, pc[r], run[r], art[r], tree, binary) /\ tree \in TreeType
      /\ run[r] = [f \in RunFields |-> run[r][f]]
  BY RunKnows
<1>2. /\ pc[r] = "sim" /\ pc' = [pc EXCEPT ![r] = "cases"] /\ run' = [run EXCEPT ![r] = w]
      /\ tree' = tree /\ binary' = binary /\ art' = art /\ manifest' = manifest
      /\ check' = check
  BY DEF TakeSim, world
<1>3. Set(run[r], w, "sim", tree.sim)
  BY <1>1, SetFacts DEF RunFields
<1> HIDE DEF w
<1>4. RunOk(r, "cases", w, art[r], tree, binary)
  BY <1>1, <1>2, <1>3, OkSim
<1>5. "cases" \in Points
  BY DEF Points
<1> QED
  BY <1>2, <1>4, <1>5, RunSteps

\* The runner returns, or is killed.
LEMMA EndsKeeps ==
  ASSUME CampaignInv, NEW r \in Runs, Ends(r), tree' = tree, binary' = binary, art' = art,
         check' = check,
         \/ manifest' = manifest
         \/ Honest(manifest', tree) /\ Filling(pc', run', manifest')
  PROVE  CampaignInv'
<1> DEFINE k == run[r].attempt
           w == [Idle EXCEPT !.attempt = k]
<1>1. RunType(run[r]) /\ art[r] \in ArtsType
  BY RunKnows
<1>2. pc' = [pc EXCEPT ![r] = "idle"] /\ run' = [run EXCEPT ![r] = w]
  BY DEF Ends
<1>3. k \in Nat /\ "elsewhere" \in Paths /\ {} \in SUBSET Declared(r)
  BY <1>1 DEF RunType, Paths
<1> HIDE DEF k
<1>4. Blank(w, k, "elsewhere", {})
  BY DEF Blank, Idle, RunFields
<1> HIDE DEF w
<1>5. RunOk(r, "idle", w, art[r], tree, binary)
  BY <1>1, <1>3, <1>4, OkBlank
<1>6. "idle" \in Points
  BY DEF Points
<1> QED
  BY <1>2, <1>5, <1>6, RunSteps

\* A case failed.
LEMMA FailedKeeps ==
  ASSUME CampaignInv, NEW r \in Runs, pc[r] \in Working, NEW c \in Declared(r), Failed(r, c),
         tree' = tree, binary' = binary, art' = art, manifest' = manifest, check' = check
  PROVE  CampaignInv'
<1> DEFINE e == [eligible |-> FALSE]
           d == WithCase(run[r].done, c, e)
           w == [run[r] EXCEPT !.done = d]
<1>1. /\ RunOk(r, pc[r], run[r], art[r], tree, binary)
      /\ run[r] = [f \in RunFields |-> run[r][f]]
  BY RunKnows
<1>2. CASE Golden(r)
  BY <1>2, EndsKeeps DEF Failed
<1>3. CASE ~Golden(r)
  <2>1. pc' = [pc EXCEPT ![r] = "cases"] /\ run' = [run EXCEPT ![r] = w]
    BY <1>3 DEF Failed
  <2>2. ~e.eligible
    OBVIOUS
  <2> HIDE DEF e
  <2>3. Set(run[r], w, "done", d)
    BY <1>1, SetFacts DEF RunFields
  <2> HIDE DEF w
  <2>4. RunOk(r, "cases", w, art[r], tree, binary)
    BY <1>1, <2>2, <2>3, OkEntry
  <2>5. "cases" \in Points
    BY DEF Points
  <2> QED
    BY <2>1, <2>4, <2>5, RunSteps
<1> QED
  BY <1>2, <1>3

\* A case's vehicle starts, from the binary of this moment.
LEMMA StartVehicleKeeps ==
  ASSUME CampaignInv, NEW r \in Runs, StartVehicle(r)
  PROVE  CampaignInv'
<1>1. PICK c \in run[r].cases :
        /\ art[r][c] = Nothing
        /\ art' = [art EXCEPT ![r][c] = [attempt |-> run[r].attempt, altered |-> FALSE,
                      ran |-> [binary |-> binary, sim |-> 0, scenario |-> NoScenario],
                      replay |-> Nothing]]
        /\ run' = [run EXCEPT ![r].case = c]
  BY DEF StartVehicle
<1> DEFINE w == [run[r] EXCEPT !.case = c]
           x == [attempt |-> run[r].attempt, altered |-> FALSE,
                 ran |-> [binary |-> binary, sim |-> 0, scenario |-> NoScenario],
                 replay |-> Nothing]
           a == [art[r] EXCEPT ![c] = x]
<1>2. /\ RunOk(r, pc[r], run[r], art[r], tree, binary) /\ binary \in Nat /\ art[r] \in ArtsType
      /\ run[r].cases \subseteq Declared(r) /\ run[r] = [f \in RunFields |-> run[r][f]]
  BY RunKnows
<1>3. /\ pc[r] = "cases" /\ pc' = [pc EXCEPT ![r] = "vehicle"]
      /\ tree' = tree /\ binary' = binary /\ manifest' = manifest /\ check' = check
      /\ run' = [run EXCEPT ![r] = w] /\ art' = [art EXCEPT ![r] = a]
  BY <1>1 DEF StartVehicle, world
<1>4. c \in Declared(r)
  BY <1>2
<1>5. Set(run[r], w, "case", c)
  BY <1>2, SetFacts DEF RunFields
<1> HIDE DEF w
<1>6. RunOk(r, "vehicle", w, a, tree, binary)
  <2> DEFINE b == a
  <2>1. b = [art[r] EXCEPT ![c] = [attempt |-> run[r].attempt, altered |-> FALSE,
                ran |-> [binary |-> binary, sim |-> 0, scenario |-> NoScenario],
                replay |-> Nothing]]
    OBVIOUS
  <2> HIDE DEF b
  <2>2. RunOk(r, "vehicle", w, b, tree, binary)
    BY <1>2, <1>3, <1>4, <1>5, <2>1, OkVehicle
  <2> QED
    BY <2>2 DEF b
<1>7. \A d \in Units : Spoilt(art[r][d]) => Spoilt(a[d])
  <2> HIDE DEF x
  <2> QED
    BY <1>1, <1>2 DEF ArtsType, Spoilt
<1> HIDE DEF a
<1>8. "vehicle" \in Points
  BY DEF Points
<1> QED
  BY <1>3, <1>6, <1>7, <1>8, RunMoves

\* A case's file that is filled in is as altered as it was.
LEMMA SpoiltStays ==
  ASSUME NEW a, NEW a2, NEW c \in Units, a2[c] \in ArtType, a2[c].altered = a[c].altered,
         \A d \in Units : d # c => a2[d] = a[d]
  PROVE  \A d \in Units : Spoilt(a[d]) => Spoilt(a2[d])
<1>1. a2[c] # Nothing
  BY DEF ArtType, Nothing
<1> QED
  BY <1>1 DEF Spoilt

\* A case's simulator starts from the modules and the scenario of this moment.
LEMMA StartSimKeeps ==
  ASSUME CampaignInv, NEW r \in Runs, StartSim(r)
  PROVE  CampaignInv'
<1> DEFINE u == run[r]
           v == tree.scenario[ScenarioOf(Golden(r), u.case)]
           y == [art[r][u.case].ran EXCEPT !.sim = tree.sim, !.scenario = v]
           x == [art[r][u.case] EXCEPT !.ran = y]
           a == [art[r] EXCEPT ![u.case] = x]
<1>1. /\ RunOk(r, pc[r], u, art[r], tree, binary) /\ tree \in TreeType /\ art[r] \in ArtsType
      /\ run = [run EXCEPT ![r] = u]
  BY RunKnows
<1>2. /\ pc[r] = "vehicle" /\ pc' = [pc EXCEPT ![r] = "running"] /\ run' = run
      /\ tree' = tree /\ binary' = binary /\ manifest' = manifest /\ check' = check
      /\ art' = [art EXCEPT ![r] = a]
  BY DEF StartSim, world
<1>3. u.case \in Units /\ art[r][u.case] \in ArtType
  BY <1>1, <1>2, CaseHolds DEF RunOk, Underway
<1>4. RunOk(r, "running", u, a, tree, binary) /\ \A d \in Units : Spoilt(art[r][d]) => Spoilt(a[d])
  <2> DEFINE vv == v
             yy == y
             xx == x
             aa == a
  <2>1. /\ vv = tree.scenario[ScenarioOf(Golden(r), u.case)]
        /\ yy = [art[r][u.case].ran EXCEPT !.sim = tree.sim, !.scenario = vv]
        /\ xx = [art[r][u.case] EXCEPT !.ran = yy] /\ aa = [art[r] EXCEPT ![u.case] = xx]
    OBVIOUS
  <2> HIDE DEF vv, yy, xx, aa, v, y, x, a
  <2>2. RunOk(r, "running", u, aa, tree, binary)
    <3>1. RunOk(r, "vehicle", u, art[r], tree, binary)
      BY <1>1, <1>2
    <3> HIDE DEF u
    <3> QED
      BY <1>1, <2>1, <3>1, OkSimulator
  <2>3. aa[u.case] \in ArtType
    BY <2>2 DEF RunOk, Underway
  <2>4. aa[u.case].altered = art[r][u.case].altered
    BY <1>1, <1>3, <2>1 DEF ArtsType, ArtType
  <2>5. \A d \in Units : d # u.case => aa[d] = art[r][d]
    BY <1>1, <2>1 DEF ArtsType
  <2>6. \A d \in Units : Spoilt(art[r][d]) => Spoilt(aa[d])
    BY <1>3, <2>3, <2>4, <2>5, SpoiltStays
  <2> QED
    BY <2>2, <2>6 DEF aa
<1> HIDE DEF a
<1>5. "running" \in Points
  BY DEF Points
<1> QED
  BY <1>1, <1>2, <1>4, <1>5, RunMoves

\* A case's replay file names the binary and the sources of this moment.
LEMMA FileCaseKeeps ==
  ASSUME CampaignInv, NEW r \in Runs, FileCase(r)
  PROVE  CampaignInv'
<1> DEFINE u == run[r]
           v == tree.scenario[ScenarioOf(Golden(r), u.case)]
           y == [binary |-> binary, sim |-> tree.sim, scenario |-> v]
           x == [art[r][u.case] EXCEPT !.replay = y]
           a == [art[r] EXCEPT ![u.case] = x]
<1>1. /\ RunOk(r, pc[r], u, art[r], tree, binary) /\ tree \in TreeType /\ art[r] \in ArtsType
      /\ run = [run EXCEPT ![r] = u] /\ binary \in Nat
  BY RunKnows
<1>2. /\ pc[r] = "running" /\ pc' = [pc EXCEPT ![r] = "inspect"] /\ run' = run
      /\ tree' = tree /\ binary' = binary /\ manifest' = manifest /\ check' = check
      /\ art' = [art EXCEPT ![r] = a]
  BY DEF FileCase, world
<1>3. u.case \in Units /\ art[r][u.case] \in ArtType
  BY <1>1, <1>2, CaseHolds DEF RunOk, Underway
<1>4. RunOk(r, "inspect", u, a, tree, binary) /\ \A d \in Units : Spoilt(art[r][d]) => Spoilt(a[d])
  <2> DEFINE vv == v
             yy == y
             xx == x
             aa == a
  <2>1. /\ vv = tree.scenario[ScenarioOf(Golden(r), u.case)]
        /\ yy = [binary |-> binary, sim |-> tree.sim, scenario |-> vv]
        /\ xx = [art[r][u.case] EXCEPT !.replay = yy] /\ aa = [art[r] EXCEPT ![u.case] = xx]
    OBVIOUS
  <2> HIDE DEF vv, yy, xx, aa, v, y, x, a
  <2>2. RunOk(r, "inspect", u, aa, tree, binary)
    BY <1>1, <1>2, <2>1, OkReplay
  <2>3. aa[u.case] \in ArtType
    BY <2>2 DEF RunOk, Underway
  <2>4. aa[u.case].altered = art[r][u.case].altered
    BY <1>1, <1>3, <2>1 DEF ArtsType, ArtType
  <2>5. \A d \in Units : d # u.case => aa[d] = art[r][d]
    BY <1>1, <2>1 DEF ArtsType
  <2>6. \A d \in Units : Spoilt(art[r][d]) => Spoilt(aa[d])
    BY <1>3, <2>3, <2>4, <2>5, SpoiltStays
  <2> QED
    BY <2>2, <2>6 DEF aa
<1> HIDE DEF a
<1>5. "inspect" \in Points
  BY DEF Points
<1> QED
  BY <1>1, <1>2, <1>4, <1>5, RunMoves

\* A case is inspected: it is eligible only if its files name the digests the
\* run took, or it is filed as failed; a golden case awaits its entry.
LEMMA InspectKeeps ==
  ASSUME CampaignInv, NEW r \in Runs, Inspect(r)
  PROVE  CampaignInv'
<1> DEFINE u == run[r]
           c == u.case
           a == art[r][c]
<1>1. /\ RunOk(r, pc[r], u, art[r], tree, binary) /\ u = [f \in RunFields |-> u[f]]
      /\ run = [run EXCEPT ![r] = u]
  BY RunKnows
<1>2. /\ pc[r] = "inspect" /\ tree' = tree /\ binary' = binary /\ art' = art
      /\ manifest' = manifest /\ check' = check
  BY DEF Inspect, world
<1>3. c \in Declared(r)
  BY <1>1, <1>2 DEF RunOk, Underway
<1>4. CASE Failed(r, c)
  BY <1>2, <1>3, <1>4, FailedKeeps DEF Working
<1>5. ASSUME NEW passed \in BOOLEAN, Identified(Golden(r), a, u), ~Golden(r),
             pc' = [pc EXCEPT ![r] = "cases"],
             run' = [run EXCEPT ![r].done = WithCase(@, c,
                        [eligible |-> TRUE, passed |-> passed, ran |-> a.ran, attempt |-> a.attempt])]
      PROVE  CampaignInv'
  <2> DEFINE e == [eligible |-> TRUE, passed |-> passed, ran |-> a.ran, attempt |-> a.attempt]
             d == WithCase(u.done, c, e)
             w == [u EXCEPT !.done = d]
  <2>1. run' = [run EXCEPT ![r] = w]
    BY <1>5
  <2>2. e.ran = a.ran /\ e.attempt = a.attempt
    OBVIOUS
  <2> HIDE DEF e
  <2>3. /\ a.attempt = u.attempt /\ Between(Golden(r), c, a.ran, u.source, tree)
        /\ a.ran.binary = u.binary
    BY <1>1, <1>2, <1>5, OkInspected
  <2>4. EntryOk(r, c, e, u, tree)
    BY <1>5, <2>2, <2>3 DEF EntryOk
  <2>5. Set(u, w, "done", d)
    BY <1>1, SetFacts DEF RunFields
  <2> HIDE DEF w
  <2>6. "inspect" \in Working /\ "cases" \in Points
    BY DEF Working, Points
  <2>7. RunOk(r, "cases", w, art[r], tree, binary)
    BY <1>1, <1>2, <1>3, <2>4, <2>5, <2>6, OkEntry
  <2> QED
    BY <1>2, <1>5, <2>1, <2>6, <2>7, RunSteps
<1>6. ASSUME Golden(r), pc' = [pc EXCEPT ![r] = "entry"], run' = run
      PROVE  CampaignInv'
  <2>1. RunOk(r, "entry", u, art[r], tree, binary)
    BY <1>1, <1>2, <1>6, OkAwaits
  <2>2. "entry" \in Points /\ run' = [run EXCEPT ![r] = u]
    BY <1>1, <1>6 DEF Points
  <2> HIDE DEF u
  <2> QED
    BY <1>2, <1>6, <2>1, <2>2, RunSteps
<1>7. \/ Failed(r, c)
      \/ /\ Identified(Golden(r), a, u) /\ ~Golden(r) /\ pc' = [pc EXCEPT ![r] = "cases"]
         /\ \E passed \in BOOLEAN :
              run' = [run EXCEPT ![r].done = WithCase(@, c,
                        [eligible |-> TRUE, passed |-> passed, ran |-> a.ran, attempt |-> a.attempt])]
      \/ Golden(r) /\ pc' = [pc EXCEPT ![r] = "entry"] /\ run' = run
  BY DEF Inspect
<1> QED
  BY <1>4, <1>5, <1>6, <1>7

\* A golden case's entry is made, with the scenario of this moment.
LEMMA TakeEntryKeeps ==
  ASSUME CampaignInv, NEW r \in Runs, TakeEntry(r)
  PROVE  CampaignInv'
<1> DEFINE u == run[r]
           c == u.case
           a == art[r][c]
           e == [eligible |-> TRUE, passed |-> TRUE, ran |-> a.ran, attempt |-> a.attempt,
                 scenario |-> tree.scenario[c]]
           d == WithCase(u.done, c, e)
           w == [u EXCEPT !.done = d]
<1>1. /\ RunOk(r, pc[r], u, art[r], tree, binary) /\ u = [f \in RunFields |-> u[f]]
      /\ tree \in TreeType
  BY RunKnows
<1>2. /\ pc[r] = "entry" /\ tree' = tree /\ binary' = binary /\ art' = art
      /\ manifest' = manifest /\ check' = check
      /\ pc' = [pc EXCEPT ![r] = "cases"] /\ run' = [run EXCEPT ![r] = w]
  BY DEF TakeEntry, world
<1>3. e.ran = a.ran /\ e.attempt = a.attempt /\ e.scenario = tree.scenario[c]
  OBVIOUS
<1> HIDE DEF e
<1>4. /\ Golden(r) /\ c \in Declared(r) /\ c \in Scenarios /\ a.attempt = u.attempt
      /\ Between(Golden(r), c, a.ran, u.source, tree)
      /\ Older(u.source.scenario, tree.scenario[Gust])
  BY <1>1, <1>2 DEF RunOk, Underway, Sourced, Declared
<1>5. Named(c, tree.scenario[c], u.source, tree)
  BY <1>1, <1>4, TreeHolds DEF Named, Older
<1>6. EntryOk(r, c, e, u, tree)
  BY <1>3, <1>4, <1>5 DEF EntryOk
<1>7. Set(u, w, "done", d)
  BY <1>1, SetFacts DEF RunFields
<1> HIDE DEF w
<1>8. "entry" \in Working /\ "cases" \in Points
  BY DEF Working, Points
<1>9. RunOk(r, "cases", w, art[r], tree, binary)
  BY <1>1, <1>2, <1>4, <1>6, <1>7, <1>8, OkEntry
<1> QED
  BY <1>2, <1>8, <1>9, RunSteps

\* The fields of the document that a run draws up.
LEMMA DocumentFields ==
  ASSUME NEW r, NEW scenario, NEW doc, doc = Document(r, scenario)
  PROVE  DocumentIs(doc, r, run[r], scenario)
  BY DEF Document, DocumentIs

\* The sources are hashed again: eligible cases are kept, or goldens go on,
\* only if they still are what they were when the run took them.
LEMMA RehashKeeps ==
  ASSUME CampaignInv, NEW r \in Runs, Rehash(r)
  PROVE  CampaignInv'
<1> DEFINE u == run[r]
           doc == Document(r, Nothing)
           v == [u EXCEPT !.doc = doc]
           d == [c \in DOMAIN u.done |-> [eligible |-> FALSE]]
           w == [u EXCEPT !.done = d]
<1>1. /\ RunOk(r, pc[r], u, art[r], tree, binary) /\ u = [f \in RunFields |-> u[f]]
      /\ tree \in TreeType /\ run = [run EXCEPT ![r] = u]
  BY RunKnows
<1>2. /\ pc[r] = "cases" /\ tree' = tree /\ binary' = binary /\ art' = art
      /\ manifest' = manifest /\ check' = check
  BY DEF Rehash, world
<1>3. SourceHeld(r) => u.source.sim = tree.sim /\ u.source.scenario = tree.scenario[Gust]
  BY <1>1, SourceHolds DEF SourceHeld
<1>4. ASSUME Golden(r), SourceHeld(r), pc' = [pc EXCEPT ![r] = "write"],
             run' = [run EXCEPT ![r].doc = doc]
      PROVE  CampaignInv'
  <2>1. run' = [run EXCEPT ![r] = v]
    BY <1>4
  <2>2. DocumentIs(doc, r, u, Nothing)
    BY DocumentFields
  <2> HIDE DEF doc
  <2>3. Filed(doc, tree)
    BY <1>1, <1>2, <1>3, <1>4, <2>2, OkGoldens
  <2>4. Set(u, v, "doc", doc)
    BY <1>1, SetFacts DEF RunFields
  <2> HIDE DEF v
  <2>5. RunOk(r, "write", v, art[r], tree, binary)
    BY <1>1, <1>2, <2>2, <2>3, <2>4, OkFiled
  <2> QED
    BY <1>2, <1>4, <2>1, <2>5, RunSteps DEF Points
<1>5. CASE Ends(r)
  BY <1>2, <1>5, EndsKeeps
<1>6. ASSUME ~Golden(r), SourceHeld(r), pc' = [pc EXCEPT ![r] = "document"], run' = run
      PROVE  CampaignInv'
  <2>1. RunOk(r, "document", u, art[r], tree, binary)
    BY <1>1, <1>2, <1>3, <1>6, OkKept
  <2>2. run' = [run EXCEPT ![r] = u]
    BY <1>1, <1>6
  <2> HIDE DEF u
  <2> QED
    BY <1>2, <1>6, <2>1, <2>2, RunSteps DEF Points
<1>7. ASSUME ~Golden(r), pc' = [pc EXCEPT ![r] = "document"],
             run' = [run EXCEPT ![r].done = [c \in DOMAIN @ |-> [eligible |-> FALSE]]]
      PROVE  CampaignInv'
  <2>1. run' = [run EXCEPT ![r] = w]
    BY <1>7
  <2> DEFINE dd == d
  <2>2. dd = [c \in DOMAIN u.done |-> [eligible |-> FALSE]]
    OBVIOUS
  <2>3. Set(u, w, "done", dd)
    BY <1>1, SetFacts DEF RunFields
  <2> HIDE DEF dd, w
  <2>4. RunOk(r, "document", w, art[r], tree, binary)
    BY <1>1, <1>2, <1>7, <2>2, <2>3, OkWithdrawn
  <2> QED
    BY <1>2, <1>7, <2>1, <2>4, RunSteps DEF Points
<1> QED
  BY <1>4, <1>5, <1>6, <1>7 DEF Rehash

\* A campaign's document is drawn up, with the scenario of this moment.
LEMMA NameScenarioKeeps ==
  ASSUME CampaignInv, NEW r \in Runs, NameScenario(r)
  PROVE  CampaignInv'
<1> DEFINE u == run[r]
           doc == Document(r, tree.scenario[Gust])
           w == [u EXCEPT !.doc = doc]
<1>1. /\ RunOk(r, pc[r], u, art[r], tree, binary) /\ u = [f \in RunFields |-> u[f]]
      /\ tree \in TreeType
  BY RunKnows
<1>2. /\ pc[r] = "document" /\ tree' = tree /\ binary' = binary /\ art' = art
      /\ manifest' = manifest /\ check' = check
      /\ pc' = [pc EXCEPT ![r] = "validate"] /\ run' = [run EXCEPT ![r] = w]
  BY DEF NameScenario, world
<1>3. DocumentIs(doc, r, u, tree.scenario[Gust])
  BY DocumentFields
<1> HIDE DEF doc
<1>4. Filed(doc, tree)
  BY <1>1, <1>2, <1>3, OkNamed
<1>5. Set(u, w, "doc", doc)
  BY <1>1, SetFacts DEF RunFields
<1> HIDE DEF w
<1>6. RunOk(r, "validate", w, art[r], tree, binary)
  BY <1>1, <1>2, <1>3, <1>4, <1>5, OkFiled
<1> QED
  BY <1>2, <1>6, RunSteps DEF Points

\* A run validates its own document, or gives up.
LEMMA ValidateOwnKeeps ==
  ASSUME CampaignInv, NEW r \in Runs, ValidateOwn(r)
  PROVE  CampaignInv'
<1> DEFINE u == run[r]
<1>1. RunOk(r, pc[r], u, art[r], tree, binary) /\ run = [run EXCEPT ![r] = u]
  BY RunKnows
<1>2. /\ pc[r] = "validate" /\ tree' = tree /\ binary' = binary /\ art' = art
      /\ manifest' = manifest /\ check' = check
      /\ Ends(r) \/ (pc' = [pc EXCEPT ![r] = "write"] /\ run' = run)
  BY DEF ValidateOwn, world
<1>3. RunOk(r, "write", u, art[r], tree, binary)
  BY <1>1, <1>2, OkWriting
<1>4. CASE Ends(r)
  BY <1>2, <1>4, EndsKeeps
<1>5. CASE pc' = [pc EXCEPT ![r] = "write"] /\ run' = run
  <2>1. run' = [run EXCEPT ![r] = u]
    BY <1>1, <1>5
  <2> HIDE DEF u
  <2> QED
    BY <1>2, <1>3, <1>5, <2>1, RunSteps DEF Points
<1> QED
  BY <1>2, <1>4, <1>5

\* A manifest's file is created where there is none: nobody else writes to it.
LEMMA CreateKeeps ==
  ASSUME CampaignInv, NEW r \in Runs, Create(r)
  PROVE  CampaignInv'
<1> DEFINE u == run[r]
<1>1. /\ RunOk(r, pc[r], u, art[r], tree, binary) /\ run = [run EXCEPT ![r] = u]
      /\ Honest(manifest, tree) /\ Filling(pc, run, manifest) /\ u.path \in Paths
  BY RunKnows DEF RunType
<1>2. /\ pc[r] = "write" /\ tree' = tree /\ binary' = binary /\ art' = art /\ check' = check
  BY DEF Create, world
<1>3. CASE Ends(r) /\ manifest' = manifest
  BY <1>2, <1>3, EndsKeeps
<1>4. ASSUME Creates(u.path), manifest' = [manifest EXCEPT ![u.path] = Torn],
             pc' = [pc EXCEPT ![r] = "fill"], run' = run
      PROVE  CampaignInv'
  <2>1. RunOk(r, "fill", u, art[r], tree, binary)
    BY <1>1, <1>2, OkWriting
  <2>2. /\ manifest[u.path] = Nothing /\ manifest'[u.path] = Torn
        /\ manifest' = [p \in Paths |-> manifest'[p]]
        /\ \A p \in Paths : p # u.path => manifest'[p] = manifest[p]
    BY <1>1, <1>4 DEF Creates, Honest
  <2>3. Honest(manifest', tree)
    BY <1>1, <2>2 DEF Honest
  <2>4. \A q \in Runs : q # r => pc'[q] = pc[q]
    BY <1>4 DEF CampaignInv, CampaignType
  <2>5. Filling(pc', run', manifest')
    <3>1. Nothing # Torn
      <4>1. "none" \in DOMAIN Nothing /\ "none" \notin DOMAIN Torn
        BY DEF Nothing, Torn
      <4> QED
        BY <4>1
    <3>2. ASSUME NEW q \in Runs, q # r, pc'[q] = "fill"
          PROVE  /\ manifest[run[q].path] = Torn /\ run[q].path # u.path /\ run[q].path \in Paths
                 /\ \A s \in Runs \ {q} : pc[s] = "fill" => run[s].path # run[q].path
      <4>1. pc[q] = "fill"
        BY <2>4, <3>2
      <4>2. RunType(run[q])
        BY RunKnows
      <4> QED
        BY <1>1, <2>2, <3>1, <4>1, <4>2 DEF Filling, RunType
    <3> QED
      BY <1>4, <2>2, <2>4, <3>2 DEF Filling
  <2>6. run' = [run EXCEPT ![r] = u]
    BY <1>1, <1>4
  <2> HIDE DEF u
  <2> QED
    BY <1>2, <1>4, <2>1, <2>3, <2>5, <2>6, RunSteps DEF Points
<1> QED
  BY <1>3, <1>4 DEF Create

\* The document is written into the file that the run created.
LEMMA FillKeeps ==
  ASSUME CampaignInv, NEW r \in Runs, Fill(r)
  PROVE  CampaignInv'
<1> DEFINE u == run[r]
<1>1. /\ RunOk(r, pc[r], u, art[r], tree, binary) /\ u.path \in Paths
      /\ Honest(manifest, tree) /\ Filling(pc, run, manifest)
  BY RunKnows DEF RunType
<1>2. /\ pc[r] = "fill" /\ tree' = tree /\ binary' = binary /\ art' = art /\ check' = check
      /\ Ends(r) /\ manifest' = [manifest EXCEPT ![u.path] = u.doc]
  BY DEF Fill, world
<1>3. Filed(u.doc, tree)
  BY <1>1, <1>2 DEF RunOk
<1>4. /\ manifest'[u.path] = u.doc /\ manifest' = [p \in Paths |-> manifest'[p]]
      /\ \A p \in Paths : p # u.path => manifest'[p] = manifest[p]
  BY <1>1, <1>2 DEF Honest
<1>5. Honest(manifest', tree)
  BY <1>1, <1>3, <1>4 DEF Honest
<1>6. pc'[r] = "idle" /\ \A q \in Runs : q # r => pc'[q] = pc[q] /\ run'[q] = run[q]
  BY <1>2 DEF Ends, CampaignInv, CampaignType
<1>7. Filling(pc', run', manifest')
  <2>1. ASSUME NEW q \in Runs, pc'[q] = "fill"
        PROVE  /\ manifest'[run'[q].path] = Torn
               /\ \A s \in Runs \ {q} : pc'[s] = "fill" => run'[s].path # run'[q].path
    <3>1. q # r /\ pc[q] = "fill" /\ run'[q] = run[q]
      BY <1>6, <2>1
    <3>2. run[q].path \in Paths /\ run[q].path # u.path
      BY <1>1, <1>2, <3>1, RunKnows DEF Filling, RunType
    <3> QED
      BY <1>1, <1>4, <1>6, <3>1, <3>2 DEF Filling
  <2> QED
    BY <2>1 DEF Filling
<1> QED
  BY <1>2, <1>5, <1>7, EndsKeeps

\* A step of the validator: the runs keep their claims, and it has its own.
LEMMA ChecksMove ==
  ASSUME CampaignInv, UNCHANGED <<world, pc, run, art, manifest>>,
         CheckOk(check', art, tree)
  PROVE  CampaignInv'
<1>1. /\ tree' = tree /\ binary' = binary /\ pc' = pc /\ run' = run /\ art' = art
      /\ manifest' = manifest
  BY DEF world
<1> QED
  BY <1>1 DEF CampaignInv, CampaignType

\* A manifest whose sources are those of now names the scenario of now.
LEMMA AcceptableFacts ==
  ASSUME CampaignInv, NEW doc \in Documents, Acceptable(doc)
  PROVE  /\ Filed(doc, tree) /\ doc.source = implementation_source
         /\ \A c \in DOMAIN doc.cases : doc.cases[c].eligible
         /\ ~doc.goldens => doc.scenario = doc.source.scenario
<1>1. /\ Filed(doc, tree) /\ doc.source = implementation_source /\ tree \in TreeType
      /\ \A c \in DOMAIN doc.cases : doc.cases[c].eligible
  BY DEF CampaignInv, CampaignType, Honest, Documents, Acceptable
<1>2. doc.source.scenario = tree.scenario[Gust] /\ tree.scenario[Gust] \in ScenarioType
  BY <1>1, SourceHolds, TreeHolds
<1>3. ~doc.goldens => doc.scenario = doc.source.scenario
  BY <1>1, <1>2, OlderSame DEF Filed
<1> QED
  BY <1>1, <1>3

\* A check of the lane's campaign begins.
LEMMA BeginCheckCurrentKeeps ==
  ASSUME CampaignInv, BeginCheckCurrent
  PROVE  CampaignInv'
<1>1. PICK doc \in Documents :
        /\ doc.class = "canonical" /\ ~doc.goldens /\ DOMAIN doc.cases = Cases
        /\ Acceptable(doc)
        /\ check' = [pc |-> "scenario", current |-> TRUE, doc |-> doc, root |-> doc.by,
                     source |-> implementation_source, case |-> Nothing,
                     seen |-> {}, spoilt |-> {}]
  BY DEF BeginCheckCurrent
<1>2. /\ check' = [f \in CheckFields |-> check'[f]] /\ check'.pc = "scenario"
      /\ check'.current = TRUE /\ check'.doc = doc /\ check'.source = implementation_source
  BY <1>1 DEF CheckFields
<1>3. /\ Filed(doc, tree) /\ doc.source = implementation_source
      /\ \A c \in DOMAIN doc.cases : doc.cases[c].eligible
      /\ doc.scenario = doc.source.scenario
  BY <1>1, AcceptableFacts
<1>4. doc.by \in Canonical
  BY <1>1, <1>3 DEF Filed, Lane
<1>5. CheckOk(check', art, tree)
  BY <1>1, <1>2, <1>3, <1>4 DEF CheckOk
<1> QED
  BY <1>5, ChecksMove DEF BeginCheckCurrent

\* A manifest's evidence begins to be validated.
LEMMA BeginValidateKeeps ==
  ASSUME CampaignInv, BeginValidate
  PROVE  CampaignInv'
<1>1. PICK doc \in Documents, r \in Runs :
        /\ Acceptable(doc)
        /\ check' = [pc |-> IF doc.goldens THEN "cases" ELSE "scenario",
                     current |-> FALSE, doc |-> doc, root |-> r,
                     source |-> implementation_source, case |-> Nothing, seen |-> {},
                     spoilt |-> {c \in Units : art[r][c] # Nothing /\ art[r][c].altered}]
  BY DEF BeginValidate
<1> DEFINE spoilt == {c \in Units : art[r][c] # Nothing /\ art[r][c].altered}
<1>2. spoilt \subseteq Units /\ \A c \in spoilt : Spoilt(art[r][c])
  BY DEF Spoilt
<1>3. /\ check' = [f \in CheckFields |-> check'[f]] /\ check'.pc \in {"cases", "scenario"}
      /\ check'.current = FALSE /\ check'.doc = doc /\ check'.source = implementation_source
      /\ check'.root = r /\ check'.seen = {} /\ check'.spoilt = spoilt
  BY <1>1 DEF CheckFields
<1> HIDE DEF spoilt
<1>4. /\ Filed(doc, tree) /\ doc.source = implementation_source
      /\ \A c \in DOMAIN doc.cases : doc.cases[c].eligible
      /\ ~doc.goldens => doc.scenario = doc.source.scenario
  BY <1>1, AcceptableFacts
<1>5. CheckOk(check', art, tree)
  BY <1>2, <1>3, <1>4 DEF CheckOk
<1> QED
  BY <1>5, ChecksMove DEF BeginValidate

\* What a step of a validator at work may use.
LEMMA CheckKnows ==
  ASSUME CampaignInv, check.pc # "idle"
  PROVE  CheckOk(check, art, tree) /\ check = [f \in CheckFields |-> check[f]]
  BY DEF CampaignInv, CheckOk

\* A campaign's scenario is read.
LEMMA ReadScenarioKeeps ==
  ASSUME CampaignInv, ReadScenario
  PROVE  CampaignInv'
<1>1. /\ check.pc = "scenario"
      /\ check' = [check EXCEPT !.pc = IF check.current THEN "accepted" ELSE "cases"]
  BY DEF ReadScenario
<1>2. CheckOk(check, art, tree) /\ check = [f \in CheckFields |-> check[f]]
  BY <1>1, CheckKnows
<1>3. /\ check' = [f \in CheckFields |-> check'[f]]
      /\ check'.pc = (IF check.current THEN "accepted" ELSE "cases")
      /\ check'.current = check.current /\ check'.doc = check.doc
      /\ check'.source = check.source /\ check'.root = check.root /\ check'.seen = check.seen
      /\ check'.spoilt = check.spoilt
  BY <1>1, <1>2 DEF CheckFields
<1>4. CheckOk(check', art, tree)
  BY <1>1, <1>2, <1>3 DEF CheckOk
<1> QED
  BY <1>4, ChecksMove DEF ReadScenario

\* A case's evidence is inspected again: it was not altered, and is of the
\* trace that the tree's scenario has.
LEMMA InspectAgainKeeps ==
  ASSUME CampaignInv, NEW c, InspectAgain(c)
  PROVE  CampaignInv'
<1> DEFINE a == art[check.root][c]
<1>1. /\ check.pc = "cases" /\ c \in DOMAIN check.doc.cases
      /\ a # Nothing /\ ~a.altered
      /\ a.ran.scenario.trace = tree.scenario[ScenarioOf(check.doc.goldens, c)].trace
      /\ check.doc.cases[c].ran.scenario.trace = a.ran.scenario.trace
      /\ check' = IF check.doc.goldens THEN [check EXCEPT !.pc = "entry", !.case = c]
                  ELSE [check EXCEPT !.seen = @ \union {c}]
  BY DEF InspectAgain, Retained
<1>2. CheckOk(check, art, tree) /\ check = [f \in CheckFields |-> check[f]]
  BY <1>1, CheckKnows
<1>3. ~check.current /\ \A d \in check.spoilt : Spoilt(art[check.root][d])
  BY <1>1, <1>2 DEF CheckOk
<1>4. c \notin check.spoilt
  BY <1>1, <1>3 DEF Spoilt
<1>5. CASE check.doc.goldens
  <2>1. /\ check' = [f \in CheckFields |-> check'[f]] /\ check'.pc = "entry" /\ check'.case = c
        /\ check'.current = check.current /\ check'.doc = check.doc
        /\ check'.source = check.source /\ check'.root = check.root /\ check'.seen = check.seen
        /\ check'.spoilt = check.spoilt
    BY <1>1, <1>2, <1>5 DEF CheckFields
  <2>2. check.doc.cases[c].ran.scenario.trace = tree.scenario[c].trace
    BY <1>1, <1>5 DEF ScenarioOf
  <2>3. check.doc.cases[c].scenario = tree.scenario[c] => SameTrace(check.doc.cases[c])
    BY <2>2 DEF SameTrace
  <2> HIDE DEF a
  <2> QED
    BY <1>1, <1>2, <1>3, <1>4, <1>5, <2>1, <2>3, ChecksMove DEF CheckOk, InspectAgain
<1>6. CASE ~check.doc.goldens
  <2>1. /\ check' = [f \in CheckFields |-> check'[f]] /\ check'.pc = "cases"
        /\ check'.current = check.current /\ check'.doc = check.doc
        /\ check'.source = check.source /\ check'.root = check.root
        /\ check'.seen = check.seen \union {c} /\ check'.spoilt = check.spoilt
    BY <1>1, <1>2, <1>6 DEF CheckFields
  <2>2. CheckOk(check', art, tree)
    BY <1>1, <1>2, <1>3, <1>4, <1>6, <2>1 DEF CheckOk
  <2> QED
    BY <2>2, ChecksMove DEF InspectAgain
<1> QED
  BY <1>5, <1>6

\* A golden entry's scenario is still the tree's, and so is of the trace that
\* the inspection computed.
LEMMA EntryAgainKeeps ==
  ASSUME CampaignInv, EntryAgain
  PROVE  CampaignInv'
<1>1. /\ check.pc = "entry"
      /\ check.doc.cases[check.case].scenario = tree.scenario[check.case]
      /\ check' = [check EXCEPT !.pc = "cases", !.seen = @ \union {check.case}]
  BY DEF EntryAgain
<1>2. CheckOk(check, art, tree) /\ check = [f \in CheckFields |-> check[f]]
  BY <1>1, CheckKnows
<1>3. /\ ~check.current /\ check.case \notin check.spoilt
      /\ SameTrace(check.doc.cases[check.case])
  BY <1>1, <1>2 DEF CheckOk
<1>4. /\ check' = [f \in CheckFields |-> check'[f]] /\ check'.pc = "cases"
      /\ check'.current = check.current /\ check'.doc = check.doc
      /\ check'.source = check.source /\ check'.root = check.root
      /\ check'.seen = check.seen \union {check.case} /\ check'.spoilt = check.spoilt
  BY <1>1, <1>2 DEF CheckFields
<1>5. CheckOk(check', art, tree)
  BY <1>1, <1>2, <1>3, <1>4 DEF CheckOk
<1> QED
  BY <1>5, ChecksMove DEF EntryAgain

\* All cases were inspected, and the manifest is accepted.
LEMMA AcceptKeeps ==
  ASSUME CampaignInv, Accept
  PROVE  CampaignInv'
<1>1. /\ check.pc = "cases" /\ check.seen = DOMAIN check.doc.cases
      /\ check' = [check EXCEPT !.pc = "accepted"]
  BY DEF Accept
<1>2. CheckOk(check, art, tree) /\ check = [f \in CheckFields |-> check[f]]
  BY <1>1, CheckKnows
<1>3. /\ check' = [f \in CheckFields |-> check'[f]] /\ check'.pc = "accepted"
      /\ check'.current = check.current /\ check'.doc = check.doc
      /\ check'.source = check.source /\ check'.root = check.root /\ check'.seen = check.seen
      /\ check'.spoilt = check.spoilt
  BY <1>1, <1>2 DEF CheckFields
<1>4. CheckOk(check', art, tree)
  BY <1>1, <1>2, <1>3 DEF CheckOk
<1> QED
  BY <1>4, ChecksMove DEF Accept

\* The validator ends.
LEMMA EndCheckKeeps ==
  ASSUME CampaignInv, EndCheck
  PROVE  CampaignInv'
<1>1. check'.pc = "idle"
  BY DEF EndCheck, NoCheck
<1>2. CheckOk(check', art, tree)
  BY <1>1 DEF CheckOk
<1> QED
  BY <1>2, ChecksMove DEF EndCheck

\* Every step keeps the invariant.
LEMMA CampaignSteps ==
  ASSUME CampaignInv, [Next]_vars
  PROVE  CampaignInv'
<1>1. CASE UNCHANGED vars
  BY <1>1 DEF vars, world, CampaignInv, CampaignType
<1>2. CASE Edit \/ Rebuild \/ Alter
  BY <1>2, EditKeeps, RebuildKeeps, AlterKeeps
<1>3. CASE Validator
  BY <1>3, BeginCheckCurrentKeeps, BeginValidateKeeps, ReadScenarioKeeps, InspectAgainKeeps,
     EntryAgainKeeps, AcceptKeeps, EndCheckKeeps DEF Validator
<1>4. ASSUME NEW r \in Runs, Occupied(r) \/ CaseFails(r) \/ Crash(r)
      PROVE  CampaignInv'
  <2>1. /\ tree' = tree /\ binary' = binary /\ art' = art /\ manifest' = manifest
        /\ check' = check
    BY <1>4 DEF Occupied, CaseFails, Crash, world
  <2>2. RunOk(r, pc[r], run[r], art[r], tree, binary) /\ run[r].cases \subseteq Declared(r)
    BY RunKnows
  <2>3. CASE Occupied(r)
    <3>1. \E c \in Declared(r) : Failed(r, c)
      BY <2>2, <2>3 DEF Occupied
    <3>2. pc[r] \in Working
      BY <2>3 DEF Occupied, Working
    <3> QED
      BY <2>1, <3>1, <3>2, FailedKeeps
  <2>4. CASE CaseFails(r)
    <3>1. Failed(r, run[r].case) /\ pc[r] \in Working /\ run[r].case \in Declared(r)
      BY <2>2, <2>4 DEF CaseFails, Working, RunOk, Underway
    <3> QED
      BY <2>1, <3>1, FailedKeeps
  <2>5. CASE Crash(r)
    BY <2>1, <2>5, EndsKeeps DEF Crash
  <2> QED
    BY <1>4, <2>3, <2>4, <2>5
<1>5. ASSUME NEW r \in Runs,
             \/ Begin(r) \/ TakeSource(r) \/ TakeBinary(r) \/ TakeSim(r)
             \/ StartVehicle(r) \/ StartSim(r) \/ FileCase(r) \/ Inspect(r) \/ TakeEntry(r)
             \/ Rehash(r) \/ NameScenario(r) \/ ValidateOwn(r) \/ Create(r) \/ Fill(r)
      PROVE  CampaignInv'
  BY <1>5, BeginKeeps, TakeSourceKeeps, TakeBinaryKeeps, TakeSimKeeps, StartVehicleKeeps,
     StartSimKeeps, FileCaseKeeps, InspectKeeps, TakeEntryKeeps, RehashKeeps,
     NameScenarioKeeps, ValidateOwnKeeps, CreateKeeps, FillKeeps
<1> QED
  BY <1>1, <1>2, <1>3, <1>4, <1>5 DEF Next

\* The invariant holds in every state of every execution.
THEOREM CampaignInvariant == Spec => []CampaignInv
<1>1. Init => CampaignInv
  BY CampaignStarts
<1>2. CampaignInv /\ [Next]_vars => CampaignInv'
  BY CampaignSteps
<1> QED
  BY <1>1, <1>2, PTL DEF Spec

\* Every case that a manifest calls eligible was made by the attempt and the
\* simulator that it names and, in a campaign, by the scenario of its sources
\* and the binary it names.
THEOREM ManifestsAreAttributable == Spec => []Attributable
<1>1. CampaignInv => Attributable
  BY DEF CampaignInv, Attributable, Documents, Honest, Filed, Proper
<1> QED
  BY <1>1, CampaignInvariant, PTL

\* Whatever a validator accepts was made by the sources that it hashed, golden
\* cases by a scenario of the trace of the one they name, and was unaltered.
THEOREM AcceptedIsAlwaysCurrent == Spec => []AcceptedIsCurrent
<1>1. ASSUME CampaignInv, check.pc = "accepted" PROVE AcceptedIsCurrent
  <2> DEFINE doc == check.doc
  <2>1. CheckOk(check, art, tree)
    BY <1>1 DEF CampaignInv
  <2>2. ASSUME NEW c \in DOMAIN doc.cases
        PROVE  /\ doc.cases[c].ran.sim = check.source.sim
               /\ ~doc.goldens => /\ doc.cases[c].ran.scenario = check.source.scenario
                                  /\ doc.scenario = check.source.scenario
                                  /\ doc.cases[c].ran.binary = doc.binary
               /\ doc.goldens => doc.cases[c].ran.scenario.trace = doc.cases[c].scenario.trace
    <3>1. Proper(c, doc.cases[c], doc, tree) /\ doc.source = check.source
      BY <1>1, <2>1 DEF CheckOk, Filed
    <3>2. doc.goldens => SameTrace(doc.cases[c])
      BY <1>1, <2>1 DEF CheckOk
    <3> QED
      BY <1>1, <2>1, <3>1, <3>2 DEF CheckOk, Proper, SameTrace
  <2>3. IF check.current THEN doc.by \in Canonical /\ DOMAIN doc.cases = Cases
        ELSE DOMAIN doc.cases \cap check.spoilt = {}
    BY <1>1, <2>1 DEF CheckOk
  <2> QED
    BY <2>2, <2>3 DEF AcceptedIsCurrent
<1>2. CampaignInv => AcceptedIsCurrent
  BY <1>1 DEF AcceptedIsCurrent
<1> QED
  BY <1>2, CampaignInvariant, PTL

\* A manifest is never replaced, however many runs found its path free, and a
\* torn one is finished only by the run that created it.
THEOREM ManifestAlwaysStands == Spec => ManifestStands
<1> DEFINE A == \A p \in Paths : manifest[p] # Nothing =>
                  \/ manifest'[p] = manifest[p]
                  \/ /\ manifest[p] = Torn
                     /\ \E r \in Runs : pc[r] = "fill" /\ run[r].path = p /\ manifest'[p] = run[r].doc
<1>1. ASSUME CampaignInv, [Next]_vars PROVE A
  <2>1. CASE manifest' = manifest
    BY <2>1
  <2>2. manifest = [p \in Paths |-> manifest[p]]
    BY <1>1 DEF CampaignInv, CampaignType
  <2>3. ASSUME NEW r \in Runs, Create(r) PROVE A
    BY <2>2, <2>3 DEF Create, Creates
  <2>4. ASSUME NEW r \in Runs, Fill(r) PROVE A
    <3>1. pc[r] = "fill" /\ manifest[run[r].path] = Torn
      BY <1>1, <2>4 DEF Fill, CampaignInv, Filling
    <3>2. manifest' = [manifest EXCEPT ![run[r].path] = run[r].doc]
      BY <2>4 DEF Fill
    <3> QED
      BY <2>2, <3>1, <3>2
  <2>5. manifest' = manifest \/ \E r \in Runs : Create(r) \/ Fill(r)
    BY <1>1 DEF Next, vars, Edit, Rebuild, Alter, Validator, BeginCheckCurrent, BeginValidate,
                ReadScenario, InspectAgain, EntryAgain, Accept, EndCheck,
                Begin, TakeSource, TakeBinary, TakeSim, Occupied, StartVehicle, StartSim,
                FileCase, CaseFails, Inspect, TakeEntry, Rehash, NameScenario, ValidateOwn, Crash
  <2> QED
    BY <2>1, <2>3, <2>4, <2>5
<1>2. CampaignInv /\ [Next]_vars => [A]_vars
  BY <1>1
<1> HIDE DEF A
<1>3. Spec => [][A]_vars
  BY <1>2, CampaignInvariant, PTL DEF Spec
<1> QED
  BY <1>3 DEF ManifestStands, A
=============================================================================
