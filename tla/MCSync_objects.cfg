\* A lock, a semaphore and an event in two hash queues, signals from interrupt routines
\* and from kill (), ignored and caught, a history of one entry.
SPECIFICATION Spec
CONSTANTS
    p1 = p1
    p2 = p2
    p3 = p3
    l1 = l1
    l2 = l2
    s1 = s1
    e1 = e1
    e2 = e2
    b0 = b0
    b1 = b1
    Proc = {p1, p2}
    Lock = {l1}
    Sema = {s1}
    Event = {e1}
    Bucket = {b0, b1}
    PHASH <- MCPHASHTwo
    CallPri <- MCCallPri
    Rank <- MCRank
    SemaCount <- MCSemaCount
    MaxPri = 2
    PUSER = 1
    PLIMIT = 2
    Signals = {"IGN", "CATCH"}
    NHIST = 1
    PREEMPT = FALSE
    NOVOID = NOVOID
    Idle = Idle
    Killers = {p1, p2}
    CLOCK = TRUE
SYMMETRY MCSymmetry
INVARIANT
    SemaCountExact
PROPERTY
    ImplementsHandoff
CHECK_DEADLOCK FALSE
