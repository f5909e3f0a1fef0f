SPECIFICATION Spec
CONSTANTS
    Workers = {w1, w2}
    Routed = {w1, w2}
    SharedWorkerId = FALSE
    Events = {e1, e2, e3}
    Orders = {o1}
    Idempotent = TRUE
    MaxAttempts = 2
    MaxFaults = 0
    MaxLapses = 1
    None = None
PROPERTIES ProcessedIsPermanent
