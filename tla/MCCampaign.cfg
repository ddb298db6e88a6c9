\* A canonical campaign and a golden run, with edits between any two steps.
SPECIFICATION Spec
CONSTANTS
    Runs = {r1, r2}
    Canonical = {r1}
    Goldens = {r2}
    Cases = {c1, c2}
    Scenarios = {gust, other}
    Gust = gust
    MaxEvents = 2
INVARIANTS
    Attributable
    AcceptedIsCurrent
PROPERTIES
    ManifestStands
SYMMETRY CasesAlike
CHECK_DEADLOCK FALSE
