SPECIFICATION FairSpec
CONSTANTS
    Ticket = {1, 2}
    DependsOn <- Independent
    Resources <- NoResources
    Capacity = 1
    Wake = {"w1"}
    MaxReport = 1
    MaxResume = 2
    MaxCandidate = 0
    RuntimePhases = {"running", "parked", "wait"}
    DeliveryPhases = {}
    ReadStates = {}
    Diagnoses = {}
    Classifications = {"resume", "stay"}
    MayCrash = TRUE
INVARIANTS
    SlotBound
    AlwaysReconcilable
    InvalidationFences
PROPERTIES
    AdvanceReturns
    QuiescentBeforeRelease
