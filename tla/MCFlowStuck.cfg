\* Nothing fails; a proposal of another session is previewed after the time
\* of the first one has run out.
CONSTANTS
    Proposal = {p1, p2}
    Session = {s1, s2}
    Generation = {g1}
    Gen = g1
    Content = {c1, c2}
    NoFile = NoFile
    None = None
    MaxPending = 2
    MaxOutcomes = 2
    MaxCalls = 1
    MaxCrashes = 0
    MaxEdits = 0
    MaxFaults = 0
SPECIFICATION Spec
INVARIANTS
    AskCanBeAnswered
CHECK_DEADLOCK FALSE
