CONSTANTS
    Host = {h1, h2}
    first = first
    second = second
    t1 = t1
    t2 = t2
    Campaign = {first, second}
    Ticket = {t1, t2}
    Ready <- Overlapping
    Evidence = {e1}
    Limit <- Few
    Oversize = {}
    MaxAbandon = 0
SPECIFICATION Spec
SYMMETRY Interchangeable
INVARIANTS
    TicketExclusive
    ActiveRecoverable
PROPERTIES
    Lineage
    DrainBeginsNothing
CHECK_DEADLOCK FALSE
