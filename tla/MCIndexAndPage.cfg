\* Two files with any contents at first, each edited once; two jobs, so that the
\* second finds an index to reuse and to replace.  Two approvals of one message: the
\* second is asked for by the run of the first.  A buffer of two frames overflows;
\* four troubles are one that makes the page query, one that fails the query, one
\* that checks again, and one that fails what comes after.
CONSTANTS
    File = {f1, f2}
    Text = {t1, t2}
    MaxGeneration = 2
    MaxJobs = 2
    MaxEdits = 1
    MaxRestarts = 1
    MaxFaults = 1
    MaxChunkLines = 3
    ChunkOverlapLines = 1
    Approval = {a1, a2}
    NoApproval = NoApproval
    First = a1
    BufferLimit = 2
    MaxChatter = 1
    MaxPageTrouble = 4
SPECIFICATION PartSpec
INVARIANTS
    TypeOK
    OneJob
    AnswerIsHonest
    NoRowsLeftBehind
    CardsAreTrue
PROPERTIES
    OnlySuccessReplaces
    EveryJobEnds
    EveryDecisionIsShown
CHECK_DEADLOCK FALSE
