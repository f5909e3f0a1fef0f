SPECIFICATION Spec
CONSTANTS
    Approvers = {}
    Requests = {r1, r2}
    Idempotent = TRUE
    MaxViolations = 0
    MaxWork = 1
    MaxNotes = 0
INVARIANT ReplayEqualsPersisted
CHECK_DEADLOCK FALSE
