SPECIFICATION Spec
CONSTANTS
    Missions = {m1, m2}
    Keys = {k1, k2}
    Providers = {p1, p2}
    Requests = {r1, r2, r3}
    None = None
SYMMETRY Symmetric
INVARIANTS OnePayment IntentAtomic PaymentApproved AnswerBacked
PROPERTY NothingTakenBack
