CONSTANTS
    Trust <- SampleTrust
    Fields = {budget, currency}
    Values = {v1, v2, v3}
    Presented <- SamplePresented
    Requests <- SampleRequests
    KeepsZone = FALSE
    MaxInteger = 15
    MaxDrifts = 1
    Deliveries <- SampleDeliveries
    Drafts <- SampleDrafts
    Principals <- SamplePrincipals
SPECIFICATION SumSpec
INVARIANTS
    UserValueStands
    NoSelfDealing
    MandateKept
    EvidenceComplete
    BoundRowIsJudged
    EnvelopeSound
    NothingIgnored
PROPERTIES
    RegistryStands
CHECK_DEADLOCK FALSE
