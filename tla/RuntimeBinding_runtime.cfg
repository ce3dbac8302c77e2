CONSTANTS
    p1 = p1
    p2 = p2
    Process = {p1, p2}
    Asks <- Divided
    Late = {"run", "send", "label"}
    MaxOrphan = 1
SPECIFICATION Spec
INVARIANTS
    OneMaterialization
    PendingEvidence
    JournalBacked
PROPERTIES
    JournalForward
    FencedStaysStopped
CHECK_DEADLOCK FALSE
