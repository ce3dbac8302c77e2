\* Two processes, one Work Run, one death, one failing port, one slow owner.
CONSTANTS
    Host = {h1, h2}
    semantic = semantic
    delivery = delivery
    readback = readback
    SemanticActions = {semantic}
    BatchActions = {delivery}
    StaleActions = {readback}
    Source <- OneRun
    PendingDeliveries = {delivery}
    Token = {1, 2, 3, 4, 5, 6, 7, 8}
    MaxCrash = 1
    MaxFailure = 1
    MaxSlow = 1
SPECIFICATION FairSpec
INVARIANTS
    EffectsUnderClaim
    ReceiptsHaveClaim
    AnswersDurable
PROPERTIES
    SemanticRecovers
\* Every action can be settled: then nothing is due and nobody advances.
CHECK_DEADLOCK FALSE
