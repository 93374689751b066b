\* A crash; one pending proposal is retained.  No symmetry: it is not sound for
\* liveness.
CONSTANTS
    Proposal = {p1, p2}
    Session = {s1}
    Generation = {g1}
    Gen = g1
    Content = {c1}
    NoFile = NoFile
    None = None
    MaxPending = 1
    MaxOutcomes = 2
    MaxCalls = 1
    MaxCrashes = 1
    MaxEdits = 0
    MaxFaults = 0
SPECIFICATION FairSpec
PROPERTIES
    StoreSpec
    EveryTurnEnds
    EveryClaimConcludes
CHECK_DEADLOCK FALSE
