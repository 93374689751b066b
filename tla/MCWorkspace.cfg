\* Two requests at a time, which may come again and again, are enough to meet at both
\* locks; three generations, a restart, an outcome that cannot be persisted and a
\* deletion that fails.  Three proposals against room for one pending row and one
\* terminal outcome: every overflow of either table happens, in one generation or
\* across two.
CONSTANTS
    r1 = r1  r2 = r2  r3 = r3
    Request <- MCRequest
    MaxGeneration = 3
    MaxRestarts = 1
    Fault = {"outcome", "removal"}
    p1 = p1  p2 = p2  p3 = p3  g1 = g1  g2 = g2  s1 = s1  s2 = s2
    Proposal <- MCProposal
    Generation <- MCGeneration
    Session <- MCSession
    MaxPending = 1
    MaxOutcomes = 1
SPECIFICATION PartSpec
INVARIANTS
    TypeOK
    RunIsCurrent
    CacheIsCurrent
    OutcomeIsReachable
    ApplyingKeepsChange
    RetentionBounds
PROPERTIES
    OutcomeLifecycle
    DecidedStaysDecided
    EveryRequestEnds
CHECK_DEADLOCK FALSE
