\* Two processes, two Campaigns that come due together, one event, one failure
\* of a run or death of a process.
CONSTANTS
    Process = {p1, p2}
    Campaign = {1, 2}
    Events <- OneEvent
    Time = {2}
    MaxTime = 2
    MaxFault = 1
SPECIFICATION FairSpec
INVARIANTS
    DueExclusive
PROPERTIES
    WakesKept
    DueServed
