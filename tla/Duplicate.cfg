SPECIFICATION Spec
CONSTANTS
    Missions = {m1}
    Keys = {k1}
    Providers = {p1}
    Requests = {r1, r2}
    None = None
PROPERTIES DuplicateReturnsPayment
