SPECIFICATION Spec
CONSTANTS
    Ticket = {1, 2, 3}
    DependsOn <- Blocked
    Resources <- Shared
    Capacity = 2
    Wake = {"w1"}
    MaxReport = 0
    MaxResume = 0
    MaxCandidate = 0
    RuntimePhases = {"running"}
    DeliveryPhases = {}
    ReadStates = {"TERMINAL"}
    Diagnoses = {}
    Classifications = {}
    MayCrash = TRUE
INVARIANTS
    DependencyOrder
PROPERTIES
    ExclusiveAdmission
