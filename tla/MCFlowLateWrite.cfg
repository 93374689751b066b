\* Nothing fails; two apply calls in one message.
CONSTANTS
    Proposal = {p1, p2}
    Session = {s1}
    Generation = {g1}
    Gen = g1
    Content = {c1, c2}
    NoFile = NoFile
    None = None
    MaxPending = 2
    MaxOutcomes = 2
    MaxCalls = 2
    MaxCrashes = 0
    MaxEdits = 0
    MaxFaults = 0
SPECIFICATION Spec
PROPERTIES
    NoWriteAfterOutcome
CHECK_DEADLOCK FALSE
