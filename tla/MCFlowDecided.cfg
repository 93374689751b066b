\* Nothing fails and nothing runs out: one session and one change, which its agent
\* asks for again after it was rejected.
CONSTANTS
    Proposal = {p1}
    Session = {s1}
    Generation = {g1}
    Gen = g1
    Content = {c1}
    NoFile = NoFile
    None = None
    MaxPending = 2
    MaxOutcomes = 2
    MaxCalls = 1
    MaxCrashes = 0
    MaxEdits = 0
    MaxFaults = 0
SPECIFICATION Spec
INVARIANTS
    DecidedIsNotAsked
CHECK_DEADLOCK FALSE
