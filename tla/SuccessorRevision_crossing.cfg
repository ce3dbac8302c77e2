CONSTANTS
    Ticket = {t1}
    Evidence = {e1}
    Dispositions = {"human"}
    SuccessorLimit = 1
    InvalidationLimit = 1
    MaxCrash = 1
SPECIFICATION FairSpec
PROPERTY CrossingFinishes
