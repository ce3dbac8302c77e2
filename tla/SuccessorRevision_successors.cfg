CONSTANTS
    Ticket = {t1}
    Evidence = {e1, e2}
    Dispositions = {"resume", "successor", "human"}
    SuccessorLimit = 2
    InvalidationLimit = 1
    MaxCrash = 1
SPECIFICATION FairSpec
INVARIANTS
    BudgetBacked
    SuccessorsWithinBudget
    IntentFirst
    HumanApproved
PROPERTIES
    CatchesUp
