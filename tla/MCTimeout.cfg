\* A process and a device, two hash queues, ticks that wrap at 10.
SPECIFICATION FairSpec
CONSTANTS
    c1 = c1
    d1 = d1
    x1 = x1
    x2 = x2
    ProcClient = {c1}
    DevClient = {d1}
    Entry = {x1, x2}
    W = 10
    HASH = 2
    MaxTicks = 2
    MaxLag = 1
    NULL = NULL
INVARIANTS
    TypeOK
    EntriesExact
PROPERTIES
    CalledInTurn
    ResetIsFinal
    CalledSomeDay
CHECK_DEADLOCK FALSE
