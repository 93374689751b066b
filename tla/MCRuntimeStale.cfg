\* A builder and a change make the window; the third request falls into it.
CONSTANTS
    Request = {r1, r2, r3}
    MaxGeneration = 2
    MaxRestarts = 0
    Fault = {}
SPECIFICATION Spec
INVARIANTS
    ManagerServesRequest
CHECK_DEADLOCK FALSE
