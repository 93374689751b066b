\* Two sessions, each of which may ask for the other's change; the changes would
\* write different texts to one file; one apply call per message, and a crash at any
\* point.
CONSTANTS
    Proposal = {p1, p2}
    Session = {s1, s2}
    Generation = {g1}
    Gen = g1
    Content = {c1, c2}
    NoFile = NoFile
    None = None
    MaxPending = 2
    MaxOutcomes = 2
    MaxCalls = 1
    MaxCrashes = 1
    MaxEdits = 0
    MaxFaults = 0
SPECIFICATION RaceSpec
SYMMETRY Interchangeable
INVARIANTS
    TypeOK
    NoOrphan
    TestsSeeTheirWrite
    RefusedForAReason
PROPERTIES
    NoWriteAfterOutcome
CHECK_DEADLOCK FALSE
