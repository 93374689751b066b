\* Two apply calls in one message (of one change, if it likes), an edit by
\* somebody else, a failure of the checkpoint, the stream or the outcome store,
\* and a crash; one terminal outcome is retained.
CONSTANTS
    Proposal = {p1, p2}
    Session = {s1}
    Generation = {g1}
    Gen = g1
    Content = {c1}
    NoFile = NoFile
    None = None
    MaxPending = 2
    MaxOutcomes = 1
    MaxCalls = 2
    MaxCrashes = 1
    MaxEdits = 1
    MaxFaults = 1
SPECIFICATION Spec
SYMMETRY Interchangeable
INVARIANTS
    MemoryIsBacked
    WrittenOnceAndOnlyIfApproved
PROPERTIES
    NoLostUpdate
    ImplementsPromise
CHECK_DEADLOCK FALSE
