SPECIFICATION FairSpec
CONSTANTS
    Ticket = {1}
    DependsOn <- Independent
    Resources <- NoResources
    Capacity = 1
    Wake = {"w1"}
    MaxReport = 0
    MaxResume = 0
    MaxCandidate = 4
    RuntimePhases = {"repair", "accepted_awaiting_delivery"}
    DeliveryPhases = {"completed", "wait"}
    ReadStates = {"PERMISSION_WAITING", "CANDIDATE_RECEIVED", "AMBIGUOUS_RUNNING"}
    Diagnoses = {"GUIDE_SAME_WORKER", "DECISION"}
    Classifications = {}
    MayCrash = TRUE
INVARIANTS
    BudgetStopsEffects
PROPERTIES
    LedgerSpec
    AdvanceReturns
