SPECIFICATION DeployedSpec
CONSTANTS
    Workers = {w1, w2}
    Routed = {w1}
    SharedWorkerId = FALSE
    Events = {e1, e2, e3}
    Orders = {o1}
    Idempotent = FALSE
    MaxAttempts = 2
    MaxFaults = 1
    MaxLapses = 1
    None = None
PROPERTIES EventuallyResolved LockReleased
