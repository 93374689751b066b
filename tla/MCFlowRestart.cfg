\* One session, one apply call per message, one restart: an approval given after it fails.
CONSTANTS
    Proposal = {p1, p2}
    Session = {s1}
    Generation = {g1}
    Gen = g1
    Content = {c1, c2}
    NoFile = NoFile
    None = None
    MaxPending = 2
    MaxOutcomes = 2
    MaxCalls = 1
    MaxCrashes = 1
    MaxEdits = 0
    MaxFaults = 0
SPECIFICATION Spec
INVARIANTS
    FailedHasReason
CHECK_DEADLOCK FALSE
