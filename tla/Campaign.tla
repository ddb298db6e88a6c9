------------------------------ MODULE Campaign ------------------------------
(***************************************************************************)
(* The campaign runner, scripts/run_campaign.py, and the part of           *)
(* scripts/run_scenario.py that files a case's evidence: cases are run one *)
(* after another on the binary and the sources of the moment, which may be *)
(* edited or rebuilt at any time, and a manifest names what they ran on.   *)
(* The runner identifies everything by its digest, taken at one moment and *)
(* compared at another; a manifest is judged, later, by a validator that   *)
(* does the same.                                                          *)
(*                                                                         *)
(* A content is a version number.  An edit gives a file a content it never *)
(* had, and a build's content is the version of the C++ sources it was     *)
(* made from: digests are ideal, and an edit is not undone.  A scenario's  *)
(* content is its text and the trace that the reference run computes from  *)
(* it, which an edit may leave as it was.  A simulator edited in between   *)
(* may compute something else, which refuses a case, but not by chance of  *)
(* one scenario what another simulator computed of a different one.        *)
(***************************************************************************)
EXTENDS Integers, FiniteSets

CONSTANTS Runs,        \* invocations of the runner, each with its own --out
          Canonical,   \* those in the canonical lane; the others make candidates
          Goldens,     \* those with --goldens
          Cases,       \* the declared matrix, run on one scenario
          Scenarios,   \* the golden scenarios, a case each
          Gust,        \* the one of them that the matrix is run on
          MaxEvents    \* bound: edits, rebuilds, altered files, further starts

ASSUME LanesAssumption == Canonical \subseteq Runs /\ Goldens \subseteq Runs
ASSUME GustAssumption == Gust \in Scenarios
ASSUME BoundsAssumption == MaxEvents \in Nat /\ IsFiniteSet(Cases)

VARIABLES
    tree,      \* the working tree: C++ sources, simulator, scenario files
    binary,    \* the vehicle binary
    events,    \* edits, rebuilds, alterations and further starts so far
    pc,        \* pc[r]: where run r is
    run,       \* run[r]: its locals
    art,       \* art[r][c]: what is under --out for case c, or Nothing
    manifest,  \* manifest[p]: the document at path p, Torn, or Nothing
    check      \* a validator at work

world == <<tree, binary, events>>
vars == <<world, pc, run, art, manifest, check>>

Units == Cases \union Scenarios
Nothing == [none |-> TRUE]
Torn == [torn |-> TRUE]         \* created, and not written yet or never
Paths == {"campaign-v02b.json", "manifest.json", "elsewhere"}

Idle == [attempt |-> 0, path |-> "elsewhere", cases |-> {}, source |-> Nothing,
         binary |-> 0, sim |-> 0, done |-> <<>>, case |-> Nothing, doc |-> Nothing]

\* What was never read.
NoScenario == [text |-> 0, trace |-> 0]
NoCheck == [pc |-> "idle"]

Init ==
    /\ tree = [cpp |-> 1, sim |-> 1, scenario |-> [s \in Scenarios |-> [text |-> 1, trace |-> 1]]]
    /\ binary \in {0, 1}        \* 0: built before the last edit
    /\ events = 0
    /\ pc = [r \in Runs |-> "idle"]
    /\ run = [r \in Runs |-> Idle]
    /\ art = [r \in Runs |-> [c \in Units |-> Nothing]]
    /\ manifest = [p \in Paths |-> Nothing]
    /\ check = NoCheck

-----------------------------------------------------------------------------
(* Everybody else. *)

\* What an edit may make of a scenario.
Edits(v) == {[text |-> v.text + 1, trace |-> n] : n \in {v.trace, v.text + 1}}

Edit ==
    /\ events < MaxEvents /\ events' = events + 1
    /\ \/ \E f \in {"cpp", "sim"} : tree' = [tree EXCEPT ![f] = @ + 1]
       \/ \E s \in Scenarios : \E v \in Edits(tree.scenario[s]) :
             tree' = [tree EXCEPT !.scenario[s] = v]
    /\ UNCHANGED <<binary, pc, run, art, manifest, check>>

Rebuild ==
    /\ events < MaxEvents /\ events' = events + 1
    /\ binary # tree.cpp /\ binary' = tree.cpp
    /\ UNCHANGED <<tree, pc, run, art, manifest, check>>

\* An artifact of a finished case is changed after its digest was taken.
Alter ==
    /\ events < MaxEvents /\ events' = events + 1
    /\ \E r \in Runs, c \in Units :
          /\ art[r][c] # Nothing /\ ~art[r][c].altered
          /\ art' = [art EXCEPT ![r][c].altered = TRUE]
    /\ UNCHANGED <<tree, binary, pc, run, manifest, check>>

-----------------------------------------------------------------------------
(* One run. *)

Golden(r) == r \in Goldens
Lane(r) == IF r \in Canonical THEN "canonical" ELSE "candidate"

\* The cases run r can be asked for, and the scenario a case is run on.
Declared(r) == IF Golden(r) THEN Scenarios ELSE Cases
ScenarioOf(goldens, c) == IF goldens THEN c ELSE Gust

\* The source digest covers one scenario only.
implementation_source ==
    [cpp |-> tree.cpp, sim |-> tree.sim, scenario |-> tree.scenario[Gust]]

\* check_destination: who may write to the two authoritative paths.
check_destination(r, path, cases) ==
    CASE path = "manifest.json" -> r \in Canonical /\ Golden(r)
      [] path = "campaign-v02b.json" -> r \in Canonical /\ ~Golden(r) /\ cases = Cases
      [] OTHER -> TRUE

Begin(r) ==
    /\ pc[r] = "idle"
    /\ IF \A q \in Runs : run[q].attempt = 0 THEN UNCHANGED events
       ELSE events < MaxEvents /\ events' = events + 1
    /\ \E path \in Paths, cases \in (SUBSET Declared(r)) \ {{}} :
          /\ Golden(r) => cases = Scenarios
          /\ check_destination(r, path, cases)
          /\ manifest[path] = Nothing
          /\ run' = [run EXCEPT ![r] = [Idle EXCEPT !.attempt = run[r].attempt + 1,
                                                    !.path = path, !.cases = cases]]
    /\ pc' = [pc EXCEPT ![r] = "source"]
    /\ UNCHANGED <<tree, binary, art, manifest, check>>

\* The digests a run starts from, taken one after the other.
TakeSource(r) ==
    /\ pc[r] = "source"
    /\ run' = [run EXCEPT ![r].source = implementation_source]
    /\ pc' = [pc EXCEPT ![r] = IF Golden(r) THEN "cases" ELSE "binary"]
    /\ UNCHANGED <<world, art, manifest, check>>

TakeBinary(r) ==
    /\ pc[r] = "binary"
    /\ run' = [run EXCEPT ![r].binary = binary]
    /\ pc' = [pc EXCEPT ![r] = "sim"]
    /\ UNCHANGED <<world, art, manifest, check>>

TakeSim(r) ==
    /\ pc[r] = "sim"
    /\ run' = [run EXCEPT ![r].sim = tree.sim]
    /\ pc' = [pc EXCEPT ![r] = "cases"]
    /\ UNCHANGED <<world, art, manifest, check>>

\* The runner returns; what is under --out stays.
Ends(r) ==
    /\ pc' = [pc EXCEPT ![r] = "idle"]
    /\ run' = [run EXCEPT ![r] = [Idle EXCEPT !.attempt = run[r].attempt]]

\* cases.append: done with the entry of case c.
WithCase(done, c, entry) ==
    [x \in DOMAIN done \union {c} |-> IF x = c THEN entry ELSE done[x]]

\* A case that failed: a campaign records the failure, goldens are given up.
Failed(r, c) ==
    IF Golden(r)
    THEN Ends(r)
    ELSE /\ pc' = [pc EXCEPT ![r] = "cases"]
         /\ run' = [run EXCEPT ![r].done = WithCase(@, c, [eligible |-> FALSE])]

\* run_case refuses a directory that holds files of this label.
Occupied(r) ==
    /\ pc[r] = "cases"
    /\ \E c \in run[r].cases \ DOMAIN run[r].done :
          /\ art[r][c] # Nothing
          /\ Failed(r, c)
    /\ UNCHANGED <<world, art, manifest, check>>

\* The logs are created and the vehicle started.
StartVehicle(r) ==
    /\ pc[r] = "cases"
    /\ \E c \in run[r].cases \ DOMAIN run[r].done :
          /\ art[r][c] = Nothing
          /\ art' = [art EXCEPT ![r][c] = [attempt |-> run[r].attempt, altered |-> FALSE,
                        ran |-> [binary |-> binary, sim |-> 0, scenario |-> NoScenario],
                        replay |-> Nothing]]
          /\ run' = [run EXCEPT ![r].case = c]
    /\ pc' = [pc EXCEPT ![r] = "vehicle"]
    /\ UNCHANGED <<world, manifest, check>>

\* The simulator is started and reads its modules and the scenario.
StartSim(r) ==
    /\ pc[r] = "vehicle"
    /\ art' = [art EXCEPT ![r][run[r].case].ran =
                  [@ EXCEPT !.sim = tree.sim,
                            !.scenario = tree.scenario[ScenarioOf(Golden(r), run[r].case)]]]
    /\ pc' = [pc EXCEPT ![r] = "running"]
    /\ UNCHANGED <<world, run, manifest, check>>

\* Both processes exited and reconcile; the replay file names the binary and
\* the sources as they are now.
FileCase(r) ==
    /\ pc[r] = "running"
    /\ art' = [art EXCEPT ![r][run[r].case].replay =
                  [binary |-> binary, sim |-> tree.sim,
                   scenario |-> tree.scenario[ScenarioOf(Golden(r), run[r].case)]]]
    /\ pc' = [pc EXCEPT ![r] = "inspect"]
    /\ UNCHANGED <<world, run, manifest, check>>

\* A process fails, or the pair does not reconcile.
CaseFails(r) ==
    /\ pc[r] \in {"vehicle", "running"}
    /\ Failed(r, run[r].case)
    /\ UNCHANGED <<world, art, manifest, check>>

\* inspect_case compares the replay's identities, if it was given any.
Identified(goldens, a, expected) ==
    goldens \/ (a.replay.binary = expected.binary /\ a.replay.sim = expected.sim)

\* What else it compares: the artifacts' digests, the scenario s, and the trace
\* with the one that the reference run computes from s now.
Retained(a, s) ==
    /\ a # Nothing /\ a.replay # Nothing
    /\ ~a.altered /\ a.replay.scenario = tree.scenario[s]
    /\ a.ran.scenario.trace = tree.scenario[s].trace

\* inspect_case accepts the case, whose clauses hold or not, or refuses it
\* (also because a simulator edited meanwhile computes something else).
Inspect(r) ==
    /\ pc[r] = "inspect"
    /\ LET c == run[r].case
           a == art[r][c]
           accepted == Retained(a, ScenarioOf(Golden(r), c)) /\ Identified(Golden(r), a, run[r])
       IN  \/ /\ accepted /\ ~Golden(r)
              /\ \E passed \in BOOLEAN :
                    run' = [run EXCEPT ![r].done = WithCase(@, c,
                        [eligible |-> TRUE, passed |-> passed, ran |-> a.ran, attempt |-> a.attempt])]
              /\ pc' = [pc EXCEPT ![r] = "cases"]
           \/ /\ accepted /\ Golden(r)
              /\ pc' = [pc EXCEPT ![r] = "entry"] /\ UNCHANGED run
           \/ Failed(r, c)
    /\ UNCHANGED <<world, art, manifest, check>>

\* A golden case's entry names its scenario, which is read once more.
TakeEntry(r) ==
    /\ pc[r] = "entry"
    /\ LET c == run[r].case
           a == art[r][c]
       IN  run' = [run EXCEPT ![r].done = WithCase(@, c,
               [eligible |-> TRUE, passed |-> TRUE, ran |-> a.ran, attempt |-> a.attempt,
                scenario |-> tree.scenario[c]])]
    /\ pc' = [pc EXCEPT ![r] = "cases"]
    /\ UNCHANGED <<world, art, manifest, check>>

\* Mutant: the sources are not hashed again at the end.
SourceHeldUnchecked(r) == TRUE

SourceHeld(r) == implementation_source = run[r].source

\* What run r found out; a campaign also names its scenario.
Document(r, scenario) ==
    [class |-> Lane(r), goldens |-> Golden(r), source |-> run[r].source,
     binary |-> run[r].binary, sim |-> run[r].sim, scenario |-> scenario,
     cases |-> run[r].done, by |-> r, attempt |-> run[r].attempt]

\* The sources are hashed again; a campaign whose sources changed keeps no
\* eligible case, goldens are given up.
Rehash(r) ==
    /\ pc[r] = "cases" /\ DOMAIN run[r].done = run[r].cases
    /\ \/ /\ Golden(r) /\ SourceHeld(r)
          /\ pc' = [pc EXCEPT ![r] = "write"]
          /\ run' = [run EXCEPT ![r].doc = Document(r, Nothing)]
       \/ Golden(r) /\ ~SourceHeld(r) /\ Ends(r)
       \/ /\ ~Golden(r) /\ SourceHeld(r)
          /\ pc' = [pc EXCEPT ![r] = "document"] /\ UNCHANGED run
       \/ /\ ~Golden(r) /\ ~SourceHeld(r)
          /\ pc' = [pc EXCEPT ![r] = "document"]
          /\ run' = [run EXCEPT ![r].done = [c \in DOMAIN @ |-> [eligible |-> FALSE]]]
    /\ UNCHANGED <<world, art, manifest, check>>

\* The document is drawn up, with the scenario as it is by then ...
NameScenario(r) ==
    /\ pc[r] = "document"
    /\ run' = [run EXCEPT ![r].doc = Document(r, tree.scenario[Gust])]
    /\ pc' = [pc EXCEPT ![r] = "validate"]
    /\ UNCHANGED <<world, art, manifest, check>>

\* ... and validated, which reads the scenario once more.
ValidateOwn(r) ==
    /\ pc[r] = "validate"
    /\ \/ /\ run[r].doc.scenario = tree.scenario[Gust]
          /\ pc' = [pc EXCEPT ![r] = "write"] /\ UNCHANGED run
       \/ run[r].doc.scenario # tree.scenario[Gust] /\ Ends(r)
    /\ UNCHANGED <<world, art, manifest, check>>

\* Mutant: the file is opened for writing whether it exists or not.
CreatesAny(path) == TRUE

\* write_manifest opens the file exclusively ...
Creates(path) == manifest[path] = Nothing

Create(r) ==
    /\ pc[r] = "write"
    /\ \/ /\ Creates(run[r].path)
          /\ manifest' = [manifest EXCEPT ![run[r].path] = Torn]
          /\ pc' = [pc EXCEPT ![r] = "fill"] /\ UNCHANGED run
       \/ ~Creates(run[r].path) /\ Ends(r) /\ UNCHANGED manifest
    /\ UNCHANGED <<world, art, check>>

\* ... and writes the document into it.
Fill(r) ==
    /\ pc[r] = "fill"
    /\ manifest' = [manifest EXCEPT ![run[r].path] = run[r].doc]
    /\ Ends(r)
    /\ UNCHANGED <<world, art, check>>

\* The runner is killed, or gives up on an error.
Crash(r) ==
    /\ pc[r] # "idle"
    /\ Ends(r)
    /\ UNCHANGED <<world, art, manifest, check>>

-----------------------------------------------------------------------------
(* The validators, one at a time. *)

\* Mutant: a manifest is taken as current without hashing the sources.
AcceptableStale(doc) ==
    \A c \in DOMAIN doc.cases : doc.cases[c].eligible /\ (doc.goldens \/ doc.cases[c].passed)

\* What a manifest is asked for by itself: the sources of now, and its cases.
Acceptable(doc) ==
    /\ doc.source = implementation_source
    /\ \A c \in DOMAIN doc.cases : doc.cases[c].eligible /\ (doc.goldens \/ doc.cases[c].passed)

Documents == {manifest[p] : p \in Paths} \ {Nothing, Torn}

\* --check-current: canonical, the full matrix; the artifacts are not looked at.
BeginCheckCurrent ==
    /\ check.pc = "idle"
    /\ \E doc \in Documents :
          /\ doc.class = "canonical" /\ ~doc.goldens /\ DOMAIN doc.cases = Cases
          /\ Acceptable(doc)
          /\ check' = [pc |-> "scenario", current |-> TRUE, doc |-> doc, root |-> doc.by,
                       source |-> implementation_source, case |-> Nothing,
                       seen |-> {}, spoilt |-> {}]
    /\ UNCHANGED <<world, pc, run, art, manifest>>

\* --validate, with the artifacts under some run's --out, of the same lane.
BeginValidate ==
    /\ check.pc = "idle"
    /\ \E doc \in Documents, r \in Runs :
          /\ doc.class = Lane(r) /\ Acceptable(doc)
          /\ check' = [pc |-> IF doc.goldens THEN "cases" ELSE "scenario",
                       current |-> FALSE, doc |-> doc, root |-> r,
                       source |-> implementation_source, case |-> Nothing, seen |-> {},
                       spoilt |-> {c \in Units : art[r][c] # Nothing /\ art[r][c].altered}]
    /\ UNCHANGED <<world, pc, run, art, manifest>>

\* A campaign must name the scenario of now.
ReadScenario ==
    /\ check.pc = "scenario"
    /\ check.doc.scenario = tree.scenario[Gust]
    /\ check' = [check EXCEPT !.pc = IF check.current THEN "accepted" ELSE "cases"]
    /\ UNCHANGED <<world, pc, run, art, manifest>>

\* The evidence of a case is inspected again and compared with its entry.
InspectAgain(c) ==
    /\ check.pc = "cases" /\ c \in DOMAIN check.doc.cases \ check.seen
    /\ LET a == art[check.root][c]
       IN  /\ Retained(a, ScenarioOf(check.doc.goldens, c))
           /\ Identified(check.doc.goldens, a, check.doc)
           /\ check.doc.cases[c].ran.scenario.trace = a.ran.scenario.trace
    /\ check' = IF check.doc.goldens THEN [check EXCEPT !.pc = "entry", !.case = c]
                ELSE [check EXCEPT !.seen = @ \union {c}]
    /\ UNCHANGED <<world, pc, run, art, manifest>>

\* A golden entry is made anew, its scenario read after the inspection, and
\* must be the one filed.
EntryAgain ==
    /\ check.pc = "entry"
    /\ check.doc.cases[check.case].scenario = tree.scenario[check.case]
    /\ check' = [check EXCEPT !.pc = "cases", !.seen = @ \union {check.case}]
    /\ UNCHANGED <<world, pc, run, art, manifest>>

Accept ==
    /\ check.pc = "cases" /\ check.seen = DOMAIN check.doc.cases
    /\ check' = [check EXCEPT !.pc = "accepted"]
    /\ UNCHANGED <<world, pc, run, art, manifest>>

\* It accepted, or refuses whatever else it finds, or is killed.
EndCheck ==
    /\ check.pc # "idle" /\ check' = NoCheck
    /\ UNCHANGED <<world, pc, run, art, manifest>>

Validator ==
    \/ BeginCheckCurrent \/ BeginValidate \/ ReadScenario
    \/ (\E c \in Units : InspectAgain(c)) \/ EntryAgain \/ Accept \/ EndCheck

Next ==
    \/ Edit \/ Rebuild \/ Alter \/ Validator
    \/ \E r \in Runs :
          \/ Begin(r) \/ TakeSource(r) \/ TakeBinary(r) \/ TakeSim(r)
          \/ Occupied(r) \/ StartVehicle(r) \/ StartSim(r) \/ FileCase(r) \/ CaseFails(r)
          \/ Inspect(r) \/ TakeEntry(r) \/ Rehash(r) \/ NameScenario(r) \/ ValidateOwn(r)
          \/ Create(r) \/ Fill(r) \/ Crash(r)

Spec == Init /\ [][Next]_vars

-----------------------------------------------------------------------------
(* Properties. *)

\* A case that a manifest calls eligible ran, in the attempt that wrote the
\* manifest, on the simulator of the sources the manifest names; in a campaign
\* on the scenario of those sources and on the binary the manifest names, and
\* of the goldens, the one whose scenario is among the sources on that one:
\* although edits, rebuilds and crashes may fall between any two steps.
Attributable ==
    \A doc \in Documents : \A c \in DOMAIN doc.cases :
        LET entry == doc.cases[c]
        IN  entry.eligible =>
                /\ entry.attempt = doc.attempt
                /\ entry.ran.sim = doc.source.sim
                /\ ~doc.goldens => /\ entry.ran.scenario = doc.source.scenario
                                   /\ entry.ran.binary = doc.binary /\ doc.sim = doc.source.sim
                /\ doc.goldens /\ c = Gust => /\ entry.ran.scenario = doc.source.scenario
                                              /\ entry.scenario = doc.source.scenario

\* Evidence that a validator accepts was made by the simulator of the working
\* tree that the validator hashed; in a campaign by that tree's scenario, which
\* is the one the manifest names, and by the binary it names; for the goldens
\* by a scenario with the trace of the one that the entry names.  What
\* --check-current accepts is canonical and covers the whole matrix; what
\* --validate accepts was unaltered when it began.
AcceptedIsCurrent ==
    check.pc = "accepted" =>
        LET doc == check.doc
        IN  /\ \A c \in DOMAIN doc.cases :
                  LET entry == doc.cases[c]
                  IN  /\ entry.ran.sim = check.source.sim
                      /\ ~doc.goldens => /\ entry.ran.scenario = check.source.scenario
                                         /\ doc.scenario = check.source.scenario
                                         /\ entry.ran.binary = doc.binary
                      /\ doc.goldens => entry.ran.scenario.trace = entry.scenario.trace
            /\ IF check.current THEN doc.by \in Canonical /\ DOMAIN doc.cases = Cases
               ELSE DOMAIN doc.cases \cap check.spoilt = {}

\* What is at a path stays there: a manifest, once written, is never replaced,
\* also by a run that found the path free when it began, and a file torn in
\* the middle of the writing is finished by the run that created it or never.
ManifestStands ==
    [][\A p \in Paths : manifest[p] # Nothing =>
        \/ manifest'[p] = manifest[p]
        \/ /\ manifest[p] = Torn
           /\ \E r \in Runs : pc[r] = "fill" /\ run[r].path = p /\ manifest'[p] = run[r].doc]_vars
=============================================================================
