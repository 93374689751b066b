\* One instance reads one stream of sessions, and nothing fails.
CONSTANTS
    Instance = {i1}
    Stream = {session}
    SessionStream = {session}
    SessionId = {u1, u2}
    NoSession = NoSession
    MaxRecords = 3
    BatchSize = 2
    MaxStreamFaults = 0
SPECIFICATION StreamSpec
PROPERTIES
    NothingIsLost
CHECK_DEADLOCK FALSE
