CONSTANTS
    Host = {h1}
    first = first
    second = second
    t1 = t1
    t2 = t2
    Campaign = {first, second}
    Ticket = {t1, t2}
    Ready <- Growing
    Evidence = {e1, e2}
    Limit <- Few
    Oversize = {{t1, t2}}
    MaxAbandon = 1
SPECIFICATION FairSpec
INVARIANTS
    CompiledHoldsTickets
PROPERTIES
    RollsForward
CHECK_DEADLOCK FALSE
