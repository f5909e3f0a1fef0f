SPECIFICATION Spec
CONSTANTS
    Workers = {w1, w2}
    Routed = {w1, w2}
    SharedWorkerId = FALSE
    Events = {e1, e2, e3}
    Orders = {o1, o2}
    Idempotent = FALSE
    MaxAttempts = 2
    MaxFaults = 1
    MaxLapses = 1
    None = None
SYMMETRY Symmetric
INVARIANTS
    TypeOK SingleCreate OneOwnOrder RecordBacked NeverStranded
    AmbiguityHoldsPending ConsumedSuccessSettles
PROPERTIES OneWay
