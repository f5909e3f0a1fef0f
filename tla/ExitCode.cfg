SPECIFICATION HarnessSpec
CONSTANTS
    mia = mia
    mel = mel
    Trading = {m1, m2, m3}
    None = None
    Registry <- MCRegistry
    MinHistory = 2
    MinPayments = 1
    HistoryWindow = 2
    SecurityWindow = 2
    Missions = {other}
    Assessors = {a1}
    Admissions <- Watched
    Verbs = {"POST"}
    Kinds <- MCKinds
    MaxEvents = 1
    MaxPayments = 1
    MaxAttempts = 2
    MaxAltered = 1
    MaxClock = 1
    Lifetime = 1
    MaxAssessments = 2
INVARIANT ZeroMeansBlocked
CHECK_DEADLOCK FALSE
