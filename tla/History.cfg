SPECIFICATION Spec
CONSTANTS
    a1 = a1
    a2 = a2
    r1 = r1
    r2 = r2
SYMMETRY Symmetry
INVARIANTS ReplayFaithful TraceGuides OneSuccessEntry
CHECK_DEADLOCK FALSE
