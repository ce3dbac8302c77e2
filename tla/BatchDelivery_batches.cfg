\* A Batch of two that can be dissolved and whose preparation can be probed, a
\* Singleton of another Campaign, one death of a process, one push to the
\* target or one probe.
CONSTANTS
    r1 = r1
    r2 = r2
    t1 = t1
    t2 = t2
    t3 = t3
    t4 = t4
    Request = {r1, r2}
    Ticket = {t1, t2, t3, t4}
    Offered <- ThreeAndOne
    Protected = {}
    Incompatible <- Apart
    MemberLimit = 4
    RetryLimit = 1
    Flaky = {r1}
    MaxFault = 1
SPECIFICATION Spec
INVARIANTS
    SerialIntegration
    MergedOnce
    MergedWithEvidence
    CompleteIsMerged
    LeaseAccounted
\* Every delivery can be settled: then nothing is due.
CHECK_DEADLOCK FALSE
