\* Two workers and two tasks; two consumers of two streams; two servers that offer the
\* same names; an editor against an apply; a test run against its timers.  The bounds
\* are named in each module.
CONSTANTS
    Task = {k1, k2}
    Worker = {w1, w2}
    NoWorker = NoWorker
    MaxSubmits = 2
    MaxTroubles = 2
    Instance = {i1, i2}
    Stream = {memory, session}
    SessionStream = {session}
    SessionId = {u1, u2}
    NoSession = NoSession
    MaxRecords = 2
    BatchSize = 2
    MaxStreamFaults = 2
    Server = {s1, s2}
    Tool = {t1, t2}
    Call = {c1}
    NoServer = NoServer
    Retrying = {s1}
    MaxTurns = 1
    MaxTask = 2
    MaxModify = 2
    Dir = {d1, d2}
    NoDir = NoDir
    Text = {x1, x2}
    Absent = Absent
    MaxTurmoil = 2
    MaxApplies = 2
    MaxOutput = 2
    MaxWritten = 2
SPECIFICATION Spec
INVARIANTS
    RunsAlone
    LostForAReason
    AcknowledgedIsStored
    ApprovalStaysWithProvider
    ApplyFollowsDecisions
    ResultIsComplete
PROPERTIES
    AbandonedLockFrees
    EveryRecordIsStored
    EveryServerServes
    WritesLikeCompareAndSet
    RunEndsInTime
CHECK_DEADLOCK FALSE
